----------------------------- MODULE PrefabTmuxec -----------------------------
(***************************************************************************)
(* Services in tmux windows (class PrefabTmuxec of ProcessManager.py) and  *)
(* executeInScreen (PrefabTmux.py), called by several scripts on one       *)
(* target.  Every command that a method sends to the target is a step of   *)
(* its own; what it prints is kept in the script's variables until the     *)
(* method uses it, while other scripts go on.                              *)
(***************************************************************************)
EXTENDS PrefabTmux

CONSTANTS
    Main,       \* the session of services
    Calls,      \* the calls each script makes
    Comm        \* <<n, c>>: ps -A | grep n shows the process of command c

\* "execute" is executeInScreen itself, the others are methods of PrefabTmuxec.
Op == {"ensure", "stop", "remove", "execute"}
Request == [op: Op, session: Session, name: Name, cmd: Cmd, autostart: BOOLEAN]

ASSUME TmuxecAssumption ==
    /\ Main \in Session
    /\ Calls \in [Agent -> SUBSET Request]
    /\ \A a \in Agent : \A c \in Calls[a] : c.op # "execute" => c.session = Main
    /\ Comm \subseteq Name \X Cmd
    /\ Nothing \notin Request
    /\ Nothing \notin Job /\ Nothing \notin Window
    /\ Nothing # {"error"}

VARIABLES
    startup,    \* the start-up script: windows and commands in their order
    call,       \* the call each script is in, or Nothing
    pc,         \* its next command
    heard       \* what earlier commands of the call have printed
vars == <<win, front, startup, call, pc, heard>>

Silence == [pid |-> Nothing, victims |-> {}, pane |-> Nothing]

\* Commands of stop and remove, of the start-up script, of executeInScreen.
StopCommand == {"list", "getPid", "pgrep", "killChildren", "killShell", "doomedPane",
                "killWindow", "find", "killFound"}
StartupCommand == {"readStartup", "appendStartup"}
ScreenCommand == {"sessions", "killSession", "newSession", "windows", "newWindow",
                  "pane", "sendKeys", "capture"}
Command == StopCommand \cup StartupCommand \cup ScreenCommand

Heard == [pid: Pid \cup {Nothing}, victims: SUBSET (Pid \X Job), pane: Nat \cup {Nothing}]

Init ==
    /\ TmuxInit
    /\ startup = << >>
    /\ call = [a \in Agent |-> Nothing]
    /\ pc = [a \in Agent |-> "idle"]
    /\ heard = [a \in Agent |-> Silence]

-------------------------------------------------------------------------------
(* How a call goes on. *)

Now(a, command) == pc[a] = command
Goes(a, command) ==
    /\ pc' = [pc EXCEPT ![a] = command]
    /\ UNCHANGED call
Hears(a, h) == heard' = [heard EXCEPT ![a] = h]
HearsNothing == UNCHANGED heard
TargetStays == UNCHANGED <<win, front, startup>>

\* return, or an exception that nothing in the methods catches.
Leaves(a) ==
    /\ pc' = [pc EXCEPT ![a] = "idle"]
    /\ call' = [call EXCEPT ![a] = Nothing]
    /\ heard' = [heard EXCEPT ![a] = Silence]

Begin(a) ==
    /\ Now(a, "idle")
    /\ \E c \in Calls[a] :
         /\ call' = [call EXCEPT ![a] = c]
         /\ pc' = [pc EXCEPT ![a] = IF c.op = "execute" THEN "sessions" ELSE "list"]
    /\ HearsNothing /\ TargetStays

\* The script is killed, or loses the connection.
Crash(a) == ~Now(a, "idle") /\ Leaves(a) /\ TargetStays

-------------------------------------------------------------------------------
(* stop and remove.  remove neither kills children nor looks for processes. *)

Removes(a) == call[a].op = "remove"

\* Mutant: does not look for the window.
ListUnseen(a) ==
    /\ Now(a, "list")
    /\ Goes(a, "find")
    /\ HearsNothing /\ TargetStays

List(a) ==
    /\ Now(a, "list")
    /\ TargetStays
    /\ IF \E p \in Open : win[p].name = call[a].name
       THEN Goes(a, "getPid") /\ HearsNothing
       ELSE IF Removes(a) THEN Leaves(a) ELSE Goes(a, "find") /\ HearsNothing

GetPid(a) ==
    /\ Now(a, "getPid")
    /\ \/ \E p \in FirstPids(call[a].name) : Hears(a, [heard[a] EXCEPT !.pid = p])
       \/ FirstPids(call[a].name) = {} /\ Hears(a, [heard[a] EXCEPT !.pid = Nothing])
    /\ Goes(a, IF Removes(a) THEN "killShell" ELSE "pgrep")
    /\ TargetStays

Children(p) == IF p # Nothing /\ Busy(p) THEN {<<p, win[p].run>>} ELSE {}
Pgrep(a) ==
    /\ Now(a, "pgrep")
    /\ Hears(a, [heard[a] EXCEPT !.victims = Children(heard[a].pid)])
    /\ Goes(a, "killChildren")
    /\ TargetStays

\* The window of each victim after kill -9; the shell prints **ERROR**.
Killed(victims) ==
    [p \in Pid |-> IF Busy(p) /\ <<p, win[p].run>> \in victims
                   THEN Ended(win[p], "error") ELSE win[p]]
Gone(victims) == {v \in victims : ~(Busy(v[1]) /\ win[v[1]].run = v[2])}

\* kill fails, and raises, when the process has ended meanwhile.
KillChildren(a) ==
    /\ Now(a, "killChildren")
    /\ win' = Killed(heard[a].victims)
    /\ UNCHANGED <<front, startup>>
    /\ IF Gone(heard[a].victims) = {}
       THEN Goes(a, "killShell") /\ Hears(a, [heard[a] EXCEPT !.victims = {}])
       ELSE Leaves(a)

KillShell(a) ==
    /\ Now(a, "killShell")
    /\ IF heard[a].pid \in Open
       THEN /\ win' = [win EXCEPT ![heard[a].pid].shell = "dead"]
            /\ UNCHANGED <<front, startup>>
            /\ Goes(a, "doomedPane") /\ Hears(a, [heard[a] EXCEPT !.pid = Nothing])
       ELSE TargetStays /\ Leaves(a)

ReadPane(a) ==
    \E i \in PaneOf(call[a].session, call[a].name) :
        Hears(a, [heard[a] EXCEPT !.pane = i])
DoomedPane(a) ==
    /\ Now(a, "doomedPane")
    /\ ReadPane(a) /\ Goes(a, "killWindow") /\ TargetStays

\* Mutant: leaves the window to tmux.
KillWindowNot(a) ==
    /\ Now(a, "killWindow")
    /\ TargetStays
    /\ IF Removes(a) THEN Leaves(a)
       ELSE Goes(a, "find") /\ Hears(a, [heard[a] EXCEPT !.pane = Nothing])

\* Whatever window has the index by now; a failure does not matter (die=False).
KillWindow(a) ==
    /\ Now(a, "killWindow")
    /\ Closed(call[a].session, At(call[a].session, heard[a].pane))
    /\ UNCHANGED startup
    /\ IF Removes(a) THEN Leaves(a)
       ELSE Goes(a, "find") /\ Hears(a, [heard[a] EXCEPT !.pane = Nothing])

\* system.process.kill(name): processes whose command holds the name.  A line of
\* ps whose pid is padded with a blank is not taken apart rightly, and skipped.
Matching(n) ==
    {<<p, win[p].run>> : p \in {q \in Pid : Busy(q) /\ <<n, win[q].run.cmd>> \in Comm}}
Find(a) ==
    /\ Now(a, "find")
    /\ \E found \in SUBSET Matching(call[a].name) :
           Hears(a, [heard[a] EXCEPT !.victims = found])
    /\ Goes(a, "killFound")
    /\ TargetStays

\* Mutant: starts the service first, and forgets about the start-up script.
KillFoundHasty(a) ==
    /\ Now(a, "killFound")
    /\ win' = Killed(heard[a].victims)
    /\ UNCHANGED <<front, startup>>
    /\ IF call[a].op = "stop" THEN Leaves(a)
       ELSE Goes(a, "sessions") /\ Hears(a, [heard[a] EXCEPT !.victims = {}])

KillFound(a) ==
    /\ Now(a, "killFound")
    /\ win' = Killed(heard[a].victims)
    /\ UNCHANGED <<front, startup>>
    /\ IF call[a].op = "stop" THEN Leaves(a)
       ELSE /\ Goes(a, IF call[a].autostart THEN "readStartup" ELSE "sessions")
            /\ Hears(a, [heard[a] EXCEPT !.victims = {}])

-------------------------------------------------------------------------------
(* The start-up script: a command is looked for, whatever its window. *)

\* Mutant: adds the command again.
ReadStartupNot(a) ==
    /\ Now(a, "readStartup")
    /\ Goes(a, "appendStartup")
    /\ HearsNothing /\ TargetStays

\* Mutant: takes any line of the start-up script for its own.
ReadStartupAny(a) ==
    /\ Now(a, "readStartup")
    /\ Goes(a, IF startup # << >> THEN "sessions" ELSE "appendStartup")
    /\ HearsNothing /\ TargetStays

ReadStartup(a) ==
    /\ Now(a, "readStartup")
    /\ Goes(a, IF \E i \in DOMAIN startup : startup[i][2] = call[a].cmd
               THEN "sessions" ELSE "appendStartup")
    /\ HearsNothing /\ TargetStays

\* Mutant: window and command the other way round.
AppendStartupSwapped(a) ==
    /\ Now(a, "appendStartup")
    /\ startup' = Append(startup, <<call[a].cmd, call[a].name>>)
    /\ Goes(a, "sessions")
    /\ HearsNothing /\ UNCHANGED tmux

AppendStartup(a) ==
    /\ Now(a, "appendStartup")
    /\ startup' = Append(startup, <<call[a].name, call[a].cmd>>)
    /\ Goes(a, "sessions")
    /\ HearsNothing /\ UNCHANGED tmux

-------------------------------------------------------------------------------
(* executeInScreen.  createWindow makes the session when it is not there,  *)
(* and createSession kills the session of that name first.                 *)

\* Mutant: makes the session anew for each window.
SessionsAnew(a) ==
    /\ Now(a, "sessions")
    /\ Goes(a, "killSession")
    /\ HearsNothing /\ TargetStays

Sessions(a) ==
    /\ Now(a, "sessions")
    /\ Goes(a, IF Exists(call[a].session) THEN "windows" ELSE "killSession")
    /\ HearsNothing /\ TargetStays

KillSession(a) ==
    /\ Now(a, "killSession")
    /\ Closed(call[a].session, In(call[a].session))
    /\ Goes(a, "newSession")
    /\ HearsNothing /\ UNCHANGED startup

\* No new process gets a pid that a script still has in mind.
InMind == UNION {{heard[a].pid} \cup {v[1] : v \in heard[a].victims} : a \in Agent}
NewWindowOf(a) ==
    LET free == Pid \ (Open \cup InMind)
    IN  /\ free # {}
        /\ Opened(CHOOSE p \in free : TRUE, call[a].session, call[a].name)
        /\ UNCHANGED startup

NewSession(a) ==
    /\ Now(a, "newSession")
    /\ IF Exists(call[a].session) THEN TargetStays /\ Leaves(a)
       ELSE NewWindowOf(a) /\ Goes(a, "pane") /\ HearsNothing

\* Mutant: makes a window whatever is there.
WindowsUnseen(a) ==
    /\ Now(a, "windows")
    /\ Goes(a, "newWindow")
    /\ HearsNothing /\ TargetStays

Windows(a) ==
    /\ Now(a, "windows")
    /\ Goes(a, IF Named(call[a].session, call[a].name) # {} THEN "pane" ELSE "newWindow")
    /\ HearsNothing /\ TargetStays

NewWindow(a) ==
    /\ Now(a, "newWindow")
    /\ IF Exists(call[a].session) THEN NewWindowOf(a) /\ Goes(a, "pane") /\ HearsNothing
       ELSE TargetStays /\ Leaves(a)

Pane(a) ==
    /\ Now(a, "pane")
    /\ ReadPane(a) /\ Goes(a, "sendKeys") /\ TargetStays

\* The same pane as before, but maybe another window.
SendKeys(a) ==
    LET job == [by |-> a, name |-> call[a].name, cmd |-> call[a].cmd]
        target == At(call[a].session, heard[a].pane)
    IN  /\ Now(a, "sendKeys")
        /\ \A p \in target : Len(win[p].typed) < MaxTyped
        /\ IF target = {} THEN TargetStays /\ Leaves(a)
           ELSE /\ win' = [p \in Pid |-> IF p \in target THEN Type(win[p], job) ELSE win[p]]
                /\ UNCHANGED <<front, startup>>
                /\ Goes(a, "capture") /\ Hears(a, [heard[a] EXCEPT !.pane = Nothing])

\* capture-pane names no pane: tmux takes the current window of a session.
Seen == {win[front[s]].screen : s \in {t \in Session : Exists(t)}}

\* Without **START** on the screen the code reads again, whatever the time.  With
\* it an answer ends the call: success when there is an **OK**, else failure.
Answer(a) ==
    /\ Now(a, "capture")
    /\ \E screen \in Seen \ {Nothing} : screen # {}
    /\ Leaves(a) /\ TargetStays

\* No answer yet.  The call ends with the text it expects or, when its time is up,
\* with success if it was not to wait at all, with rc 999 and an exception if it
\* was: that failure says nothing about the command, which runs on.
WaitOver(a) ==
    /\ Now(a, "capture")
    /\ {} \in Seen
    /\ Leaves(a) /\ TargetStays

\* Without a server capture-pane fails and raises.
CaptureFails(a) ==
    /\ Now(a, "capture")
    /\ Seen = {}
    /\ Leaves(a) /\ TargetStays

-------------------------------------------------------------------------------
(* A reboot ends everything and runs the start-up script: a session with a *)
(* window of its own, and one window for each command.                     *)

Restarted(pids) ==
    LET line(p) == CHOOSE i \in DOMAIN pids : pids[i] = p
        window(i) ==
            [session |-> Main, index |-> i,
             name |-> IF i = 0 THEN Nothing ELSE startup[i][1], shell |-> "ready",
             run |-> IF i = 0 THEN Nothing
                     ELSE [by |-> Nothing, name |-> startup[i][1], cmd |-> startup[i][2]],
             typed |-> << >>, screen |-> Nothing]
    IN  /\ win' = [p \in Pid |-> IF \E i \in DOMAIN pids : pids[i] = p
                                 THEN window(line(p)) ELSE Nothing]
        /\ front' = [s \in Session |-> IF s = Main THEN pids[Len(startup)] ELSE Nothing]

PidsFor(n) == {f \in [0..n -> Pid] : \A i, k \in 0..n : f[i] = f[k] => i = k}

Reboot ==
    /\ IF startup = << >>
       THEN win' = [p \in Pid |-> Nothing] /\ front' = [s \in Session |-> Nothing]
       ELSE /\ PidsFor(Len(startup)) # {}
            /\ Restarted(CHOOSE f \in PidsFor(Len(startup)) : TRUE)
    /\ call' = [a \in Agent |-> Nothing]
    /\ pc' = [a \in Agent |-> "idle"]
    /\ heard' = [a \in Agent |-> Silence]
    /\ UNCHANGED startup

-------------------------------------------------------------------------------
StopStep(a) ==
    \/ List(a) \/ GetPid(a) \/ Pgrep(a) \/ KillChildren(a) \/ KillShell(a)
    \/ DoomedPane(a) \/ KillWindow(a) \/ Find(a) \/ KillFound(a)
StartupStep(a) == ReadStartup(a) \/ AppendStartup(a)
ScreenStep(a) ==
    \/ Sessions(a) \/ KillSession(a) \/ NewSession(a) \/ Windows(a) \/ NewWindow(a)
    \/ Pane(a) \/ SendKeys(a) \/ Answer(a) \/ WaitOver(a) \/ CaptureFails(a)
Works(a) == StopStep(a) \/ StartupStep(a) \/ ScreenStep(a)

OnTarget == TargetStep /\ UNCHANGED <<startup, call, pc, heard>>

Next ==
    \/ \E a \in Agent : Begin(a) \/ Crash(a) \/ Works(a)
    \/ OnTarget
    \/ Reboot

Spec == Init /\ [][Next]_vars

\* Python runs on.
LiveSpec == Spec /\ \A a \in Agent : WF_vars(Works(a))

-------------------------------------------------------------------------------
(* Properties. *)

ScriptsOK ==
    /\ call \in [Agent -> Request \cup {Nothing}]
    /\ pc \in [Agent -> Command \cup {"idle"}]
    /\ heard \in [Agent -> Heard]
    /\ \A a \in Agent : pc[a] = "idle" <=> call[a] = Nothing
    /\ \A a \in Agent : pc[a] = "idle" => heard[a] = Silence

\* Types, and a script between two calls has nothing in mind: what it has read
\* of windows and processes does not outlive the call.
TypeOK ==
    /\ TmuxTypeOK
    /\ startup \in Seq(Name \X Cmd)
    /\ ScriptsOK

\* Each service belongs to one script, which always gives it the same command.
NamesApart ==
    \A a, b \in Agent : \A c \in Calls[a], d \in Calls[b] :
        c.name = d.name => a = b /\ c.cmd = d.cmd

\* One script, which only calls ensure, stop and remove of services whose names
\* are part of no other service's command.
ServicesAlone ==
    /\ \A a, b \in Agent : a = b
    /\ \A a \in Agent : \A c \in Calls[a] : c.op # "execute"
    /\ \A a, b \in Agent : \A c \in Calls[a], d \in Calls[b] :
         <<c.name, d.cmd>> \in Comm => c.name = d.name

\* No two services have the same command line.
CommandsApart ==
    \A a, b \in Agent : \A c \in Calls[a], d \in Calls[b] : c.cmd = d.cmd => c.name = d.name

\* ensure with autostart starts a service only when a reboot would start it in a
\* window of its own: the start-up script is written first, and looked through
\* for the command, whatever window that is for.
StartsAgain ==
    \A a \in Agent :
        /\ pc[a] \in ScreenCommand
        /\ call[a].op = "ensure" /\ call[a].autostart
        => \E i \in DOMAIN startup : startup[i] = <<call[a].name, call[a].cmd>>

\* A service has one window: createWindow looks for the name before it makes a
\* window, ensure for the command before it adds to the start-up script, and no
\* interleaving with calls for other names, crash or reboot makes a second one.
OneWindow ==
    \A p, q \in Open :
        /\ win[p].session = win[q].session
        /\ win[p].name = win[q].name
        /\ win[p].name # Nothing
        => p = q

\* What a call takes away from window p: the window, its shell or its command.
Harms(p) ==
    /\ p \in Open
    /\ win[p].shell # "dead"
    /\ \/ win'[p] = Nothing
       \/ win'[p].shell = "dead"
       \/ win[p].run # Nothing /\ win'[p].run # win[p].run

\* ensure, stop and remove take nothing away but what runs in the window of the
\* service they are called for: they go by names, pids and indexes that other
\* commands have printed before.
OnlyOwnWindows ==
    [][\A a \in Agent, p \in Pid : Works(a) /\ Harms(p) => win[p].name = call[a].name]_vars

\* The command line of the call has not ended in any window.
Pending(a) ==
    \E p \in Open :
        LET job == [by |-> a, name |-> call[a].name, cmd |-> call[a].cmd]
        IN  win[p].run = job \/ \E i \in DOMAIN win[p].typed : win[p].typed[i] = job

\* The **ERROR** for which executeInScreen reports a failure is the one of its own
\* command, not of an earlier one or of another window: that command has ended.
\* The failure by time-out (WaitOver) is not meant: there the command runs on.
ErrorIsReal ==
    \A a \in Agent : Now(a, "capture") /\ {"error"} \in Seen => ~Pending(a)

\* executeInScreen reports success only when its command has ended.
SuccessIsReal ==
    \A a \in Agent :
        Now(a, "capture") /\ (\E screen \in Seen \ {Nothing} : "ok" \in screen)
            => ~Pending(a)

\* Services as those who call ensure, stop and remove see them: PrefabServices,
\* where the status of a service is that of its window, and a service is
\* registered that the start-up script has a line for.
Lines(w) == Len(w.typed) + (IF w.run = Nothing THEN 0 ELSE 1)
StatusOf(w) ==
    IF w.shell = "dead" THEN "dead"
    ELSE IF Lines(w) = 0 THEN "idle" ELSE IF Lines(w) = 1 THEN "busy" ELSE "crowded"
StatusIn(windows, n) ==
    LET mine == {p \in Pid : windows[p] # Nothing /\ windows[p].name = n}
    IN  IF mine = {} THEN "none"
        ELSE IF \E p \in mine : mine = {p}
             THEN StatusOf(windows[CHOOSE p \in mine : TRUE]) ELSE "several"
Statuses == [n \in Name |-> StatusIn(win, n)]
Registered == {startup[i][1] : i \in DOMAIN startup}
Services == INSTANCE PrefabServices WITH window <- Statuses, registered <- Registered
ServicesSpec == Services!Spec

\* Every call ends: the loop of executeInScreen finds **START** on the screen.
CallEnds == \A a \in Agent : ~Now(a, "idle") ~> Now(a, "idle")
===============================================================================
