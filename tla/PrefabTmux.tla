------------------------------ MODULE PrefabTmux ------------------------------
(***************************************************************************)
(* The tmux server of a target as prefab sees it (PrefabTmux.py): sessions *)
(* with windows, the shell in each window and what can be read on its      *)
(* screen.  PrefabTmuxec adds the scripts that work on it.                 *)
(*                                                                         *)
(* A window is known by the pid of its shell, which is what getPid returns *)
(* and kill takes; session and index are what tmux's own commands take.    *)
(***************************************************************************)
EXTENDS Naturals, Sequences, FiniteSets

CONSTANTS
    Agent,      \* scripts that work on the target at the same time
    Session,    \* names of sessions
    Name,       \* names of windows: those of services
    Cmd,        \* commands
    Pid,        \* pids of shells; their number bounds the windows
    Nothing,    \* no window, no command, no pane, no one
    MaxTyped,   \* bound: lines typed ahead in one window
    Chatty,     \* commands that print more than a pane's history holds
    Reecho      \* whether a shell shows what was typed ahead a second time

ASSUME TmuxAssumption ==
    /\ Chatty \subseteq Cmd
    /\ Reecho \in BOOLEAN
    /\ Nothing \notin Agent \cup Name \cup Pid
    /\ Nothing \notin Nat
    /\ IsFiniteSet(Pid)
    /\ MaxTyped \in Nat

VARIABLES
    win,        \* the window of each pid, or Nothing
    front       \* the current window of each session, or Nothing
tmux == <<win, front>>

\* A command line in a window, who typed it (Nothing: the start-up script).
Job == [by: Agent \cup {Nothing}, name: Name, cmd: Cmd]

\* What of a screen the code tells apart.  Nothing: no **START** can be read.
\* Otherwise, which of **OK** and **ERROR** stand behind the first **ERROR**,
\* which is the one in the command line itself.
Screen == {Nothing} \cup SUBSET {"ok", "error"}

Window == [session: Session, index: Nat, name: Name \cup {Nothing},
           shell: {"starting", "ready", "dead"},
           run: Job \cup {Nothing}, typed: Seq(Job), screen: Screen]

TmuxTypeOK ==
    /\ win \in [Pid -> Window \cup {Nothing}]
    /\ front \in [Session -> Pid \cup {Nothing}]

TmuxInit ==
    /\ win = [p \in Pid |-> Nothing]
    /\ front = [s \in Session |-> Nothing]

-------------------------------------------------------------------------------
(* What the listing commands tell. *)

Open == {p \in Pid : win[p] # Nothing}
In(s) == {p \in Open : win[p].session = s}
Exists(s) == In(s) # {}
Named(s, n) == {p \in In(s) : win[p].name = n}
At(s, i) == {p \in In(s) : win[p].index = i}

\* getPid takes the first line of list-panes -a, which lists the windows of
\* all sessions, whatever session -t names.
FirstPids(n) ==
    {p \in Open : /\ win[p].name = n
                  /\ \A q \in Named(win[p].session, n) : win[p].index <= win[q].index}

\* _pane_get inverts the list of windows: of windows with one name the last
\* one stays.
LastPids(s, n) ==
    {p \in Named(s, n) : \A q \in Named(s, n) : win[q].index <= win[p].index}
PaneOf(s, n) ==
    IF LastPids(s, n) = {} THEN {Nothing} ELSE {win[p].index : p \in LastPids(s, n)}

-------------------------------------------------------------------------------
(* Windows come and go.  The last window of a session takes it along. *)

FreeIndex(s, i) ==
    /\ At(s, i) = {}
    /\ \A k \in 0..Cardinality(Pid) : k < i => At(s, k) # {}

\* A new window becomes the current one of its session.
Opened(p, s, n) ==
    /\ p \in Pid \ Open
    /\ \E i \in 0..Cardinality(Pid) :
         /\ FreeIndex(s, i)
         /\ win' = [win EXCEPT ![p] = [session |-> s, index |-> i, name |-> n,
                                       shell |-> "starting", run |-> Nothing,
                                       typed |-> << >>, screen |-> Nothing]]
    /\ front' = [front EXCEPT ![s] = p]

\* tmux picks the next current window among those that are left.
Closed(s, ps) ==
    /\ win' = [p \in Pid |-> IF p \in ps THEN Nothing ELSE win[p]]
    /\ \E f \in (In(s) \ ps) \cup {Nothing} :
         /\ f = Nothing <=> In(s) \subseteq ps
         /\ front[s] \notin ps => f = front[s]
         /\ front' = [front EXCEPT ![s] = f]

-------------------------------------------------------------------------------
(* What is typed and printed. *)

\* The line that executeInScreen types holds **START**, **OK** and **ERROR**:
\* behind an earlier **ERROR** it puts one of each.
Echo(screen) == IF screen = Nothing THEN {} ELSE {"ok", "error"}
Shows(screen, r) == IF screen = Nothing THEN Nothing ELSE screen \cup {r}

Type(w, job) ==
    IF w.shell = "dead" THEN w
    ELSE IF w.shell = "ready" /\ w.run = Nothing
         THEN [w EXCEPT !.run = job, !.screen = Echo(@)]
         ELSE [w EXCEPT !.typed = Append(@, job), !.screen = Echo(@)]

\* An idle shell takes the next line that was typed ahead.
Prompt(w) ==
    IF w.typed = << >> THEN [w EXCEPT !.shell = "ready", !.run = Nothing]
    ELSE [w EXCEPT !.shell = "ready", !.run = Head(w.typed), !.typed = Tail(w.typed),
                   !.screen = IF Reecho THEN Echo(@) ELSE @]

\* The start-up script types commands without the echoes around them.
Ended(w, r) ==
    Prompt([w EXCEPT !.screen = IF w.run.by = Nothing THEN @ ELSE Shows(@, r)])

-------------------------------------------------------------------------------
(* What happens on the target by itself. *)

Busy(p) == p \in Open /\ win[p].shell = "ready" /\ win[p].run # Nothing

ShellStarts(p) ==
    /\ p \in Open
    /\ win[p].shell = "starting"
    /\ win' = [win EXCEPT ![p] = Prompt(@)]
    /\ UNCHANGED front

JobEnds(p) ==
    /\ Busy(p)
    /\ \E r \in {"ok", "error"} : win' = [win EXCEPT ![p] = Ended(@, r)]
    /\ UNCHANGED front

\* capture-pane starts at most at the beginning of the history.
ScrollsAway(p) ==
    /\ Busy(p)
    /\ win[p].run.cmd \in Chatty
    /\ win' = [win EXCEPT ![p].screen = Nothing]
    /\ UNCHANGED front

\* tmux notices that the shell is gone and closes the window.
Reap(p) ==
    /\ p \in Open
    /\ win[p].shell = "dead"
    /\ Closed(win[p].session, {p})

TargetStep == \E p \in Pid : ShellStarts(p) \/ JobEnds(p) \/ ScrollsAway(p) \/ Reap(p)
===============================================================================
