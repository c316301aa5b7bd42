----------------------------- MODULE PrefabStore ------------------------------
(***************************************************************************)
(* What file_download promises to those who call it, abstractly: a store   *)
(* of files, some of which are complete and some of those trusted.  Only a *)
(* file that is complete comes to be trusted; nothing is written to a      *)
(* trusted file, and it stays one until a call that starts anew gives it   *)
(* up; and a call returns, if it does, with a trusted file.                *)
(* PrefabDownload implements this with curl and a marker.                  *)
(***************************************************************************)
CONSTANTS
    Agent,
    CallsOf     \* agent -> the calls it may make

VARIABLES
    complete,   \* the names whose file is complete
    trusted,    \* the names that a call takes without fetching anything
    state,      \* agent -> "idle", "busy" in its call, or "given" what it asked for
    call        \* agent -> its call

vars == <<complete, trusted, state, call>>

Init ==
    /\ complete = {} /\ trusted = {}
    /\ state = [a \in Agent |-> "idle"]
    /\ call \in [Agent -> UNION {CallsOf[a] : a \in Agent}]
    /\ \A a \in Agent : call[a] \in CallsOf[a]

StartsAnew(c) == c.overwrite \/ c.deletedest

Ask(a, c) ==
    /\ state[a] = "idle"
    /\ state' = [state EXCEPT ![a] = "busy"]
    /\ call' = [call EXCEPT ![a] = c]
    /\ UNCHANGED <<complete, trusted>>

\* A file that is there is given up.
GiveUp(a) ==
    /\ state[a] = "busy"
    /\ StartsAnew(call[a])
    /\ complete' = complete \ {call[a].file}
    /\ trusted' = trusted \ {call[a].file}
    /\ UNCHANGED <<state, call>>

\* What is not trusted is fetched: the file becomes complete, or no longer is.
Fetch(a) ==
    /\ state[a] = "busy"
    /\ call[a].file \notin trusted
    /\ complete' \in {complete \cup {call[a].file}, complete \ {call[a].file}}
    /\ UNCHANGED <<trusted, state, call>>

Trust(a) ==
    /\ state[a] = "busy"
    /\ call[a].file \in complete
    /\ trusted' = trusted \cup {call[a].file}
    /\ UNCHANGED <<complete, state, call>>

Give(a) ==
    /\ state[a] = "busy"
    /\ call[a].file \in trusted
    /\ state' = [state EXCEPT ![a] = "given"]
    /\ UNCHANGED <<complete, trusted, call>>

\* The call is over, with what it was given or without anything.
End(a) ==
    /\ state[a] # "idle"
    /\ state' = [state EXCEPT ![a] = "idle"]
    /\ UNCHANGED <<complete, trusted, call>>

Act(a) ==
    \/ \E c \in CallsOf[a] : Ask(a, c)
    \/ GiveUp(a) \/ Fetch(a) \/ Trust(a) \/ Give(a) \/ End(a)

Next == \E a \in Agent : Act(a)

Spec == Init /\ [][Next]_vars
===============================================================================
