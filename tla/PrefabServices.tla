---------------------------- MODULE PrefabServices ----------------------------
(***************************************************************************)
(* What the process manager promises of services, abstractly: each has one *)
(* window at most, in which its command runs once; a call changes only the *)
(* service it is for; a service with autostart is registered before it has *)
(* a window; and a reboot brings back those that are registered.           *)
(* PrefabTmuxec implements this with tmux for one script.                  *)
(***************************************************************************)
CONSTANTS
    Agent, Name, Nothing,
    Calls       \* agent -> the calls it may make

VARIABLES
    window,     \* service -> "none", "idle", "busy" with its command, or "dead"
    registered, \* services that a reboot starts
    call        \* agent -> its call, or Nothing

vars == <<window, registered, call>>

Init ==
    /\ window = [n \in Name |-> "none"]
    /\ registered = {}
    /\ call = [a \in Agent |-> Nothing]

InCall(a) == call[a] # Nothing
Mine(a) == call[a].name
Ensures(a) == InCall(a) /\ call[a].op = "ensure"
Ended(a) == [call EXCEPT ![a] = Nothing]

Ask(a) ==
    /\ ~InCall(a)
    /\ \E c \in Calls[a] : call' = [call EXCEPT ![a] = c]
    /\ UNCHANGED <<window, registered>>

\* The call returns, raises, or its script dies.
Leave(a) ==
    /\ InCall(a)
    /\ call' = Ended(a)
    /\ UNCHANGED <<window, registered>>

\* Nobody takes anything away from the service of another call.
Becomes(n, status) == window' = [window EXCEPT ![n] = status]
TakeAway(a) ==
    /\ InCall(a)
    /\ \/ window[Mine(a)] = "busy" /\ Becomes(Mine(a), "idle")
       \/ window[Mine(a)] \in {"idle", "busy"} /\ Becomes(Mine(a), "dead")
       \/ window[Mine(a)] # "none" /\ Becomes(Mine(a), "none")
    /\ call' \in {call, Ended(a)}
    /\ UNCHANGED registered

Register(a) ==
    /\ Ensures(a) /\ call[a].autostart
    /\ registered' = registered \cup {Mine(a)}
    /\ UNCHANGED <<window, call>>

\* A reboot would bring back what is opened now.
Open(a) ==
    /\ Ensures(a)
    /\ window[Mine(a)] = "none"
    /\ call[a].autostart => Mine(a) \in registered
    /\ Becomes(Mine(a), "idle")
    /\ UNCHANGED <<registered, call>>

Run(a) ==
    /\ Ensures(a)
    /\ window[Mine(a)] = "idle"
    /\ Becomes(Mine(a), "busy")
    /\ UNCHANGED <<registered, call>>

\* A command ends, a window closes behind its shell.
OfItself(n) ==
    /\ \/ window[n] = "busy" /\ Becomes(n, "idle")
       \/ window[n] = "dead" /\ Becomes(n, "none")
    /\ UNCHANGED <<registered, call>>

Reboot ==
    /\ window' = [n \in Name |-> IF n \in registered THEN "busy" ELSE "none"]
    /\ call' = [a \in Agent |-> Nothing]
    /\ UNCHANGED registered

Act(a) == Ask(a) \/ Leave(a) \/ TakeAway(a) \/ Register(a) \/ Open(a) \/ Run(a)
Next == (\E a \in Agent : Act(a)) \/ (\E n \in Name : OfItself(n)) \/ Reboot

Spec == Init /\ [][Next]_vars
===============================================================================
