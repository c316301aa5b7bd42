-------------------------- MODULE PrefabTmuxec_proofs --------------------------
(***************************************************************************)
(* Proofs about services in tmux windows, for any scripts, services and    *)
(* sessions: types, that a service never has two windows, and that it is in*)
(* the start-up script before it is started with autostart.                *)
(***************************************************************************)
EXTENDS PrefabTmuxec, FiniteSetTheorems, TLAPS

-------------------------------------------------------------------------------
(* What typing and printing make of a window: it keeps its place and name. *)

SamePlace(w, v) == w.session = v.session /\ w.index = v.index /\ w.name = v.name

LEMMA PromptType ==
    ASSUME NEW w \in Window
    PROVE  Prompt(w) \in Window /\ SamePlace(Prompt(w), w)
<1>1. CASE w.typed = << >>
  BY <1>1 DEF Prompt, Window, SamePlace
<1>2. CASE w.typed # << >>
  <2>1. Head(w.typed) \in Job /\ Tail(w.typed) \in Seq(Job)
    BY <1>2 DEF Window
  <2>2. (IF Reecho THEN Echo(w.screen) ELSE w.screen) \in Screen
    BY DEF Window, Screen, Echo
  <2> QED
    BY <1>2, <2>1, <2>2 DEF Prompt, Window, SamePlace
<1> QED
  BY <1>1, <1>2

LEMMA EndedType ==
    ASSUME NEW w \in Window, NEW r \in {"ok", "error"}
    PROVE  Ended(w, r) \in Window /\ SamePlace(Ended(w, r), w)
<1> DEFINE v == [w EXCEPT !.screen = IF w.run.by = Nothing THEN w.screen
                                     ELSE Shows(w.screen, r)]
<1>1. Shows(w.screen, r) \in Screen
  BY DEF Window, Screen, Shows
<1>2. v \in Window /\ SamePlace(v, w)
  BY <1>1 DEF Window, SamePlace
<1>3. Ended(w, r) = Prompt(v)
  BY DEF Ended
<1> QED
  BY <1>2, <1>3, PromptType DEF SamePlace

LEMMA TypeType ==
    ASSUME NEW w \in Window, NEW job \in Job
    PROVE  Type(w, job) \in Window /\ SamePlace(Type(w, job), w)
<1>1. Echo(w.screen) \in Screen
  BY DEF Window, Screen, Echo
<1>2. Append(w.typed, job) \in Seq(Job)
  BY DEF Window
<1>3. CASE w.shell = "dead"
  BY <1>3 DEF Type, SamePlace
<1>4. CASE w.shell = "ready" /\ w.run = Nothing
  BY <1>1, <1>4 DEF Type, Window, SamePlace
<1>5. CASE w.shell # "dead" /\ ~(w.shell = "ready" /\ w.run = Nothing)
  BY <1>1, <1>2, <1>5 DEF Type, Window, SamePlace
<1> QED
  BY <1>3, <1>4, <1>5

-------------------------------------------------------------------------------
(* Four ways in which windows change. *)

\* Windows may close, and keep their places otherwise.
WindowsStay ==
    \A p \in Pid : win'[p] # Nothing =>
        win[p] # Nothing /\ win'[p].session = win[p].session /\ win'[p].name = win[p].name

\* One window p of session s called n is new there.
WindowAdded(p, s, n) ==
    /\ p \in Pid /\ win[p] = Nothing
    /\ win'[p].session = s /\ win'[p].name = n
    /\ \A q \in Pid \ {p} : win'[q] = win[q]

LEMMA ChangedStays ==
    ASSUME TmuxTypeOK, UNCHANGED front,
           win' \in [Pid -> Window \cup {Nothing}],
           \A p \in Pid : win'[p] = win[p] \/ (p \in Open /\ SamePlace(win'[p], win[p]))
    PROVE  TmuxTypeOK' /\ WindowsStay
BY DEF TmuxTypeOK, WindowsStay, SamePlace, Open

LEMMA ClosedStays ==
    ASSUME TmuxTypeOK, NEW s \in Session, NEW ps, Closed(s, ps)
    PROVE  TmuxTypeOK' /\ WindowsStay
<1>1. win' \in [Pid -> Window \cup {Nothing}] /\ WindowsStay
  BY DEF TmuxTypeOK, Closed, WindowsStay
<1>2. front' \in [Session -> Pid \cup {Nothing}]
  BY DEF TmuxTypeOK, Closed, In, Open
<1> QED
  BY <1>1, <1>2 DEF TmuxTypeOK

LEMMA OpenedAdds ==
    ASSUME TmuxTypeOK, NEW p, NEW s \in Session, NEW n \in Name, Opened(p, s, n)
    PROVE  TmuxTypeOK' /\ WindowAdded(p, s, n)
<1>1. PICK i \in 0..Cardinality(Pid) :
        win' = [win EXCEPT ![p] = [session |-> s, index |-> i, name |-> n,
                                   shell |-> "starting", run |-> Nothing,
                                   typed |-> << >>, screen |-> Nothing]]
  BY DEF Opened
<1>2. i \in Nat
  BY FS_CardinalityType, TmuxAssumption
<1> DEFINE w == [session |-> s, index |-> i, name |-> n, shell |-> "starting",
                 run |-> Nothing, typed |-> << >>, screen |-> Nothing]
<1>3. w \in Window
  BY <1>2 DEF Window, Screen
<1>4. p \in Pid /\ win[p] = Nothing
  BY DEF Opened, Open
<1>5. w.session = s /\ w.name = n
  OBVIOUS
<1> HIDE DEF w
<1>6. win' = [win EXCEPT ![p] = w]
  BY <1>1 DEF w
<1>7. front' \in [Session -> Pid \cup {Nothing}]
  BY <1>4 DEF Opened, TmuxTypeOK
<1> QED
  BY <1>3, <1>4, <1>5, <1>6, <1>7 DEF TmuxTypeOK, WindowAdded

-------------------------------------------------------------------------------
(* How a call goes on. *)

LEMMA GoesType ==
    ASSUME ScriptsOK, NEW a \in Agent, pc[a] # "idle", NEW c \in Command, Goes(a, c),
           HearsNothing \/ \E h \in Heard : Hears(a, h)
    PROVE  ScriptsOK'
<1>1. c # "idle"
  BY DEF Command, StopCommand, StartupCommand, ScreenCommand
<1>2. heard' \in [Agent -> Heard] /\ \A b \in Agent : b # a => heard'[b] = heard[b]
  BY DEF ScriptsOK, HearsNothing, Hears
<1> QED
  BY <1>1, <1>2 DEF ScriptsOK, Goes

LEMMA LeavesType ==
    ASSUME ScriptsOK, NEW a \in Agent, Leaves(a)
    PROVE  ScriptsOK'
<1>1. Silence \in Heard
  BY DEF Silence, Heard
<1> QED
  BY <1>1 DEF ScriptsOK, Leaves

LEMMA BeginType ==
    ASSUME ScriptsOK, NEW a \in Agent, Begin(a)
    PROVE  ScriptsOK'
<1>1. PICK c \in Calls[a] :
        /\ call' = [call EXCEPT ![a] = c]
        /\ pc' = [pc EXCEPT ![a] = IF c.op = "execute" THEN "sessions" ELSE "list"]
  BY DEF Begin
<1>2. c \in Request /\ c # Nothing
  BY TmuxecAssumption
<1>3. pc'[a] \in Command /\ pc'[a] # "idle" /\ heard' = heard
  BY <1>1 DEF Begin, HearsNothing, ScriptsOK, Command, StopCommand, ScreenCommand
<1> QED
  BY <1>1, <1>2, <1>3 DEF ScriptsOK

LEMMA CallType ==
    ASSUME ScriptsOK, NEW a \in Agent, pc[a] # "idle"
    PROVE  /\ call[a] \in Request /\ call[a] # Nothing
           /\ call[a].session \in Session /\ call[a].name \in Name /\ call[a].cmd \in Cmd
           /\ heard[a] \in Heard
BY DEF ScriptsOK, Request

-------------------------------------------------------------------------------
(* What a step of a call does to windows: some close, or one opens. *)

AddsWindow(a) ==
    /\ \E p \in Pid : WindowAdded(p, call[a].session, call[a].name)
    /\ pc[a] = "newWindow" \/ (pc[a] = "newSession" /\ ~Exists(call[a].session))

LEMMA KilledType ==
    ASSUME TmuxTypeOK, NEW victims, win' = Killed(victims), UNCHANGED front
    PROVE  TmuxTypeOK' /\ WindowsStay
<1>1. \A p \in Pid : Busy(p) => p \in Open /\ Ended(win[p], "error") \in Window
                               /\ SamePlace(Ended(win[p], "error"), win[p])
  BY EndedType DEF TmuxTypeOK, Busy, Open
<1>2. /\ win' \in [Pid -> Window \cup {Nothing}]
      /\ \A p \in Pid : win'[p] = win[p] \/ (p \in Open /\ SamePlace(win'[p], win[p]))
  BY <1>1 DEF TmuxTypeOK, Killed
<1> QED
  BY <1>2, ChangedStays

LEMMA VictimsType ==
    ASSUME TmuxTypeOK, NEW p \in Pid, Busy(p)
    PROVE  win[p].run \in Job /\ p \in Open
BY DEF TmuxTypeOK, Busy, Open, Window

LEMMA StopStepType ==
    ASSUME TypeOK, NEW a \in Agent, StopStep(a)
    PROVE  TypeOK' /\ WindowsStay /\ UNCHANGED startup
<1> USE DEF TypeOK, Now
<1>s. /\ {"list", "getPid", "pgrep", "killChildren", "killShell", "doomedPane",
          "killWindow", "find", "killFound", "readStartup", "sessions"} \subseteq Command
      /\ "idle" \notin Command
  BY DEF Command, StopCommand, StartupCommand, ScreenCommand
<1>h. /\ \A p \in Pid \cup {Nothing} : heard[a] \in Heard => [heard[a] EXCEPT !.pid = p] \in Heard
      /\ \A v \in SUBSET (Pid \X Job) :
            heard[a] \in Heard => [heard[a] EXCEPT !.victims = v] \in Heard
      /\ \A i \in Nat \cup {Nothing} : heard[a] \in Heard => [heard[a] EXCEPT !.pane = i] \in Heard
  BY DEF Heard
<1>t. TargetStays => TmuxTypeOK' /\ WindowsStay /\ UNCHANGED startup /\ (startup \in Seq(Name \X Cmd))'
  BY DEF TargetStays, TmuxTypeOK, WindowsStay
<1>1. CASE List(a)
  BY <1>1, <1>s, <1>t, GoesType, LeavesType DEF List
<1>2. CASE GetPid(a)
  <2>1. \E h \in Heard : Hears(a, h)
    BY <1>2, <1>h, CallType DEF GetPid, FirstPids, Open
  <2> QED
    BY <1>2, <2>1, <1>s, <1>t, GoesType DEF GetPid
<1>3. CASE Pgrep(a)
  <2>1. Children(heard[a].pid) \in SUBSET (Pid \X Job)
    BY <1>3, VictimsType, CallType DEF Pgrep, Children, Heard
  <2> QED
    BY <1>3, <2>1, <1>s, <1>t, <1>h, GoesType, CallType DEF Pgrep
<1>4. CASE KillChildren(a)
  <2>1. TmuxTypeOK' /\ WindowsStay /\ UNCHANGED startup
    BY <1>4, KilledType DEF KillChildren
  <2>2. [heard[a] EXCEPT !.victims = {}] \in Heard
    BY <1>4, <1>s, <1>h, CallType DEF KillChildren
  <2> QED
    BY <1>4, <2>1, <2>2, <1>s, GoesType, LeavesType DEF KillChildren
<1>5. CASE KillShell(a)
  <2>1. CASE heard[a].pid \in Open
    <3>1. heard[a].pid \in Pid /\ win[heard[a].pid] \in Window
      BY <2>1 DEF Open, TmuxTypeOK
    <3>2. win' = [win EXCEPT ![heard[a].pid].shell = "dead"] /\ UNCHANGED <<front, startup>>
      BY <1>5, <2>1 DEF KillShell
    <3>3. /\ [win[heard[a].pid] EXCEPT !.shell = "dead"] \in Window
          /\ SamePlace([win[heard[a].pid] EXCEPT !.shell = "dead"], win[heard[a].pid])
      BY <3>1 DEF Window, SamePlace
    <3>4. /\ win' \in [Pid -> Window \cup {Nothing}]
          /\ \A p \in Pid : win'[p] = win[p] \/ (p \in Open /\ SamePlace(win'[p], win[p]))
      BY <2>1, <3>1, <3>2, <3>3 DEF TmuxTypeOK
    <3>5. TmuxTypeOK' /\ WindowsStay
      BY <3>2, <3>4, ChangedStays
    <3>6. ScriptsOK'
      BY <1>5, <2>1, <1>s, <1>h, GoesType, CallType DEF KillShell
    <3> QED
      BY <3>2, <3>5, <3>6
  <2>2. CASE heard[a].pid \notin Open
    BY <1>5, <2>2, <1>t, LeavesType DEF KillShell
  <2> QED
    BY <2>1, <2>2
<1>6. CASE DoomedPane(a)
  <2>1. \E h \in Heard : Hears(a, h)
    BY <1>6, <1>h, <1>s, CallType
       DEF DoomedPane, ReadPane, PaneOf, LastPids, Named, In, Open, TmuxTypeOK, Window
  <2> QED
    BY <1>6, <2>1, <1>s, <1>t, GoesType DEF DoomedPane
<1>7. CASE KillWindow(a)
  <2>1. TmuxTypeOK' /\ WindowsStay /\ UNCHANGED startup
    BY <1>7, <1>s, ClosedStays, CallType DEF KillWindow
  <2>2. [heard[a] EXCEPT !.pane = Nothing] \in Heard
    BY <1>7, <1>s, <1>h, CallType DEF KillWindow
  <2> QED
    BY <1>7, <2>1, <2>2, <1>s, GoesType, LeavesType DEF KillWindow
<1>8. CASE Find(a)
  <2>1. Matching(call[a].name) \in SUBSET (Pid \X Job)
    <3>1. \A p \in Pid : Busy(p) => win[p].run \in Job
      BY VictimsType
    <3>2. ASSUME NEW v \in Matching(call[a].name)
          PROVE  v \in Pid \X Job
      <4>1. PICK p \in Pid : Busy(p) /\ v = <<p, win[p].run>>
        BY <3>2 DEF Matching
      <4> QED
        BY <3>1, <4>1
    <3> QED
      BY <3>2
  <2>2. PICK found \in SUBSET Matching(call[a].name) :
           Hears(a, [heard[a] EXCEPT !.victims = found])
    BY <1>8 DEF Find
  <2>3. [heard[a] EXCEPT !.victims = found] \in Heard
    BY <2>1, <2>2, <1>8, <1>h, CallType DEF Find
  <2> QED
    BY <1>8, <2>2, <2>3, <1>s, <1>t, GoesType, CallType DEF Find
<1>9. CASE KillFound(a)
  <2>1. TmuxTypeOK' /\ WindowsStay /\ UNCHANGED startup
    BY <1>9, KilledType DEF KillFound
  <2>2. [heard[a] EXCEPT !.victims = {}] \in Heard
    BY <1>9, <1>s, <1>h, CallType DEF KillFound
  <2> QED
    BY <1>9, <2>1, <2>2, <1>s, GoesType, LeavesType DEF KillFound
<1> QED
  BY <1>1, <1>2, <1>3, <1>4, <1>5, <1>6, <1>7, <1>8, <1>9 DEF StopStep

LEMMA StartupStepType ==
    ASSUME TypeOK, NEW a \in Agent, StartupStep(a)
    PROVE  TypeOK' /\ WindowsStay
<1>1. {"appendStartup", "sessions"} \subseteq Command
  BY DEF Command, StartupCommand, ScreenCommand
<1>2. pc[a] # "idle" /\ UNCHANGED tmux
  BY DEF StartupStep, ReadStartup, AppendStartup, Now, TargetStays, tmux
<1>3. TmuxTypeOK' /\ WindowsStay
  BY <1>2 DEF TypeOK, TmuxTypeOK, tmux, WindowsStay
<1>4. call[a].name \in Name /\ call[a].cmd \in Cmd
  BY <1>2, CallType DEF TypeOK
<1>5. CASE ReadStartup(a)
  BY <1>1, <1>2, <1>3, <1>5, GoesType DEF TypeOK, ReadStartup, TargetStays
<1>6. CASE AppendStartup(a)
  <2>1. startup' \in Seq(Name \X Cmd)
    BY <1>4, <1>6 DEF TypeOK, AppendStartup
  <2> QED
    BY <1>1, <1>2, <1>3, <1>6, <2>1, GoesType DEF TypeOK, AppendStartup
<1> QED
  BY <1>5, <1>6 DEF StartupStep

LEMMA NewWindowType ==
    ASSUME TypeOK, NEW a \in Agent, pc[a] # "idle", NewWindowOf(a)
    PROVE  /\ TmuxTypeOK' /\ UNCHANGED startup
           /\ \E p \in Pid : WindowAdded(p, call[a].session, call[a].name)
<1>1. PICK p : Opened(p, call[a].session, call[a].name)
  BY DEF NewWindowOf
<1>2. call[a].session \in Session /\ call[a].name \in Name
  BY CallType DEF TypeOK
<1> QED
  BY <1>1, <1>2, OpenedAdds DEF TypeOK, WindowAdded, NewWindowOf

LEMMA ScreenStepType ==
    ASSUME TypeOK, NEW a \in Agent, ScreenStep(a)
    PROVE  TypeOK' /\ (WindowsStay \/ AddsWindow(a)) /\ UNCHANGED startup
<1> USE DEF TypeOK, Now
<1>s. /\ {"killSession", "newSession", "windows", "newWindow", "pane", "sendKeys", "capture"}
              \subseteq Command
      /\ "idle" \notin Command
  BY DEF Command, StopCommand, StartupCommand, ScreenCommand
<1>c. pc[a] # "idle"
  BY DEF ScreenStep, Sessions, KillSession, NewSession, Windows, NewWindow, Pane, SendKeys,
         Answer, WaitOver, CaptureFails
<1>d. /\ call[a].session \in Session /\ call[a].name \in Name /\ call[a].cmd \in Cmd
      /\ heard[a] \in Heard
  BY <1>c, CallType
<1>h. \A i \in Nat \cup {Nothing} : [heard[a] EXCEPT !.pane = i] \in Heard
  BY <1>d DEF Heard
<1>t. TargetStays => TmuxTypeOK' /\ WindowsStay /\ UNCHANGED startup
                     /\ (startup \in Seq(Name \X Cmd))'
  BY DEF TargetStays, TmuxTypeOK, WindowsStay
<1>1. CASE Sessions(a)
  BY <1>1, <1>s, <1>c, <1>t, GoesType DEF Sessions
<1>2. CASE KillSession(a)
  <2>1. TmuxTypeOK' /\ WindowsStay /\ UNCHANGED startup
    BY <1>2, <1>d, ClosedStays DEF KillSession
  <2> QED
    BY <1>2, <2>1, <1>s, <1>c, GoesType DEF KillSession
<1>3. CASE NewSession(a)
  <2>1. CASE Exists(call[a].session)
    BY <1>3, <2>1, <1>t, LeavesType DEF NewSession
  <2>2. CASE ~Exists(call[a].session)
    <3>1. TmuxTypeOK' /\ UNCHANGED startup /\ AddsWindow(a)
      BY <1>3, <2>2, <1>c, NewWindowType DEF NewSession, AddsWindow
    <3> QED
      BY <1>3, <2>2, <3>1, <1>s, <1>c, GoesType DEF NewSession
  <2> QED
    BY <2>1, <2>2
<1>4. CASE Windows(a)
  BY <1>4, <1>s, <1>c, <1>t, GoesType DEF Windows
<1>5. CASE NewWindow(a)
  <2>1. CASE ~Exists(call[a].session)
    BY <1>5, <2>1, <1>t, LeavesType DEF NewWindow
  <2>2. CASE Exists(call[a].session)
    <3>1. TmuxTypeOK' /\ UNCHANGED startup /\ AddsWindow(a)
      BY <1>5, <2>2, <1>c, NewWindowType DEF NewWindow, AddsWindow
    <3> QED
      BY <1>5, <2>2, <3>1, <1>s, <1>c, GoesType DEF NewWindow
  <2> QED
    BY <2>1, <2>2
<1>6. CASE Pane(a)
  <2>1. \E h \in Heard : Hears(a, h)
    BY <1>6, <1>h DEF Pane, ReadPane, PaneOf, LastPids, Named, In, Open, TmuxTypeOK, Window
  <2> QED
    BY <1>6, <2>1, <1>s, <1>c, <1>t, GoesType DEF Pane
<1>7. CASE SendKeys(a)
  <2> DEFINE job == [by |-> a, name |-> call[a].name, cmd |-> call[a].cmd]
             target == At(call[a].session, heard[a].pane)
  <2>1. CASE target = {}
    BY <1>7, <2>1, <1>t, LeavesType DEF SendKeys
  <2>2. CASE target # {}
    <3>1. job \in Job
      BY <1>d DEF Job
    <3>2. \A p \in target : p \in Open /\ win[p] \in Window
      BY DEF At, In, Open, TmuxTypeOK
    <3>3. /\ win' = [p \in Pid |-> IF p \in target THEN Type(win[p], job) ELSE win[p]]
          /\ UNCHANGED <<front, startup>>
          /\ Goes(a, "capture") /\ Hears(a, [heard[a] EXCEPT !.pane = Nothing])
      BY <1>7, <2>2 DEF SendKeys
    <3> HIDE DEF job, target
    <3>4. \A p \in target : Type(win[p], job) \in Window /\ SamePlace(Type(win[p], job), win[p])
      BY <3>1, <3>2, TypeType
    <3>5. /\ win' \in [Pid -> Window \cup {Nothing}]
          /\ \A p \in Pid : win'[p] = win[p] \/ (p \in Open /\ SamePlace(win'[p], win[p]))
      BY <3>2, <3>3, <3>4 DEF TmuxTypeOK
    <3>6. TmuxTypeOK' /\ WindowsStay
      BY <3>3, <3>5, ChangedStays
    <3>7. ScriptsOK'
      BY <3>3, <1>s, <1>c, <1>h, GoesType
    <3> QED
      BY <3>3, <3>6, <3>7
  <2> QED
    BY <2>1, <2>2
<1>8. CASE Answer(a) \/ WaitOver(a)
  BY <1>8, <1>t, LeavesType DEF Answer, WaitOver
<1>9. CASE CaptureFails(a)
  BY <1>9, <1>t, LeavesType DEF CaptureFails
<1> QED
  BY <1>1, <1>2, <1>3, <1>4, <1>5, <1>6, <1>7, <1>8, <1>9 DEF ScreenStep

-------------------------------------------------------------------------------
(* The target by itself, and a reboot. *)

LEMMA OnTargetType ==
    ASSUME TypeOK, OnTarget
    PROVE  TypeOK' /\ WindowsStay
<1>1. TmuxTypeOK /\ UNCHANGED <<startup, call, pc, heard>>
  BY DEF TypeOK, OnTarget
<1> SUFFICES TmuxTypeOK' /\ WindowsStay
  BY <1>1 DEF TypeOK, ScriptsOK
<1>2. PICK p \in Pid : ShellStarts(p) \/ JobEnds(p) \/ ScrollsAway(p) \/ Reap(p)
  BY DEF OnTarget, TargetStep
<1>3. p \in Open /\ win[p] \in Window /\ win[p].session \in Session
  BY <1>1, <1>2 DEF ShellStarts, JobEnds, ScrollsAway, Reap, Busy, Open, TmuxTypeOK, Window
<1>4. ASSUME NEW w, win' = [win EXCEPT ![p] = w], UNCHANGED front,
             w \in Window, SamePlace(w, win[p])
      PROVE  TmuxTypeOK' /\ WindowsStay
  <2>1. /\ win' \in [Pid -> Window \cup {Nothing}]
        /\ \A q \in Pid : win'[q] = win[q] \/ (q \in Open /\ SamePlace(win'[q], win[q]))
    BY <1>1, <1>3, <1>4 DEF TmuxTypeOK
  <2> QED
    BY <1>1, <1>4, <2>1, ChangedStays
<1>5. CASE ShellStarts(p)
  BY <1>3, <1>4, <1>5, PromptType DEF ShellStarts
<1>6. CASE JobEnds(p)
  <2>1. PICK r \in {"ok", "error"} : win' = [win EXCEPT ![p] = Ended(win[p], r)]
    BY <1>6 DEF JobEnds
  <2> QED
    BY <1>3, <1>4, <1>6, <2>1, EndedType DEF JobEnds
<1>7. CASE ScrollsAway(p)
  <2>1. /\ [win[p] EXCEPT !.screen = Nothing] \in Window
        /\ SamePlace([win[p] EXCEPT !.screen = Nothing], win[p])
    BY <1>3 DEF Window, Screen, SamePlace
  <2>2. win' = [win EXCEPT ![p] = [win[p] EXCEPT !.screen = Nothing]] /\ UNCHANGED front
    BY <1>7 DEF ScrollsAway
  <2> QED
    BY <1>4, <2>1, <2>2
<1>8. CASE Reap(p)
  BY <1>1, <1>3, <1>8, ClosedStays DEF Reap
<1> QED
  BY <1>2, <1>5, <1>6, <1>7, <1>8

\* After a reboot each window is that of a line of the start-up script, the
\* window of the session itself (line 0) apart.
StartupWindow(i) ==
    [session |-> Main, index |-> i,
     name |-> IF i = 0 THEN Nothing ELSE startup[i][1], shell |-> "ready",
     run |-> IF i = 0 THEN Nothing
             ELSE [by |-> Nothing, name |-> startup[i][1], cmd |-> startup[i][2]],
     typed |-> << >>, screen |-> Nothing]

LEMMA RebootWindows ==
    ASSUME startup \in Seq(Name \X Cmd), Reboot
    PROVE  /\ front' \in [Session -> Pid \cup {Nothing}]
           /\ \E line \in [Pid -> 0..Len(startup)] :
                /\ \A p \in Pid : win'[p] \in {StartupWindow(line[p]), Nothing}
                /\ \A p, q \in Pid :
                     win'[p] # Nothing /\ win'[q] # Nothing /\ line[p] = line[q] => p = q
                /\ win' = [p \in Pid |-> win'[p]]
           /\ \A i \in DOMAIN startup : \E p \in Pid : win'[p] = StartupWindow(i)
<1> DEFINE n == Len(startup)
           pids == CHOOSE f \in PidsFor(n) : TRUE
<1>0. n \in Nat /\ 0 \in 0..n /\ n \in 0..n
  OBVIOUS
<1>1. CASE startup = << >>
  <2> DEFINE line == [p \in Pid |-> 0]
  <2>1. line \in [Pid -> 0..n]
    BY <1>0
  <2>2. win' = [p \in Pid |-> Nothing] /\ front' = [s \in Session |-> Nothing]
    BY <1>1 DEF Reboot
  <2>3. DOMAIN startup = {}
    BY <1>1
  <2> QED
    BY <2>1, <2>2, <2>3
<1>2. CASE startup # << >>
  <2>1. Restarted(pids) /\ PidsFor(n) # {}
    BY <1>2 DEF Reboot
  <2>2. pids \in PidsFor(n)
    BY <2>1
  <2>3. pids \in [0..n -> Pid] /\ \A i, k \in 0..n : pids[i] = pids[k] => i = k
    BY <2>2 DEF PidsFor
  <2> DEFINE held(p) == \E i \in DOMAIN pids : pids[i] = p
             of(p) == CHOOSE i \in DOMAIN pids : pids[i] = p
             line == [p \in Pid |-> IF held(p) THEN of(p) ELSE 0]
  <2>4. /\ win' = [p \in Pid |-> IF held(p) THEN StartupWindow(of(p)) ELSE Nothing]
        /\ front' = [s \in Session |-> IF s = Main THEN pids[n] ELSE Nothing]
    BY <2>1 DEF Restarted, StartupWindow
  <2> HIDE DEF n, pids
  <2>5. \A p \in Pid : held(p) => of(p) \in 0..n /\ pids[of(p)] = p
    BY <2>3
  <2>l. \A i \in 1..n : \E p \in Pid : win'[p] = StartupWindow(i)
    <3> TAKE i \in 1..n
    <3>1. i \in 0..n /\ pids[i] \in Pid
      BY <1>0, <2>3
    <3>2. held(pids[i]) /\ of(pids[i]) = i
      BY <2>3, <2>5, <3>1
    <3> QED
      BY <2>4, <3>1, <3>2
  <2> HIDE DEF held, of
  <2>6. line \in [Pid -> 0..n]
    BY <1>0, <2>5
  <2>7. \A p \in Pid : win'[p] # Nothing => held(p) /\ line[p] = of(p)
    BY <2>4
  <2>8. \A p \in Pid : win'[p] \in {StartupWindow(line[p]), Nothing}
    BY <2>4
  <2>9. \A p, q \in Pid :
          win'[p] # Nothing /\ win'[q] # Nothing /\ line[p] = line[q] => p = q
    BY <2>5, <2>7
  <2>10. front' \in [Session -> Pid \cup {Nothing}]
    BY <1>0, <2>3, <2>4
  <2>11. win' = [p \in Pid |-> win'[p]]
    BY <2>4
  <2> QED
    <3>1. n = Len(startup) /\ DOMAIN startup = 1..n
      BY DEF n
    <3> QED
      BY <2>6, <2>8, <2>9, <2>10, <2>11, <2>l, <3>1
<1> QED
  BY <1>1, <1>2

LEMMA StartupWindowType ==
    ASSUME startup \in Seq(Name \X Cmd), NEW i \in 0..Len(startup)
    PROVE  /\ StartupWindow(i) \in Window
           /\ StartupWindow(i).session = Main /\ StartupWindow(i).index = i
           /\ StartupWindow(i).name = IF i = 0 THEN Nothing ELSE startup[i][1]
           /\ i # 0 => i \in DOMAIN startup
<1>1. i \in Nat /\ (i # 0 => i \in DOMAIN startup)
  OBVIOUS
<1>2. StartupWindow(i) \in Window
  <2>1. CASE i = 0
    BY <2>1, TmuxecAssumption DEF StartupWindow, Window, Screen
  <2>2. CASE i # 0
    <3>1. startup[i][1] \in Name /\ startup[i][2] \in Cmd
      BY <1>1, <2>2
    <3>2. [by |-> Nothing, name |-> startup[i][1], cmd |-> startup[i][2]] \in Job
      BY <3>1 DEF Job
    <3> QED
      BY <1>1, <2>2, <3>1, <3>2, TmuxecAssumption DEF StartupWindow, Window, Screen
  <2> QED
    BY <2>1, <2>2
<1> QED
  BY <1>1, <1>2 DEF StartupWindow

LEMMA RebootType ==
    ASSUME TypeOK, Reboot
    PROVE  /\ TypeOK'
           /\ \A p, q \in Pid :
                win'[p] # Nothing /\ win'[q] # Nothing /\ p # q
                /\ win'[p].name = win'[q].name /\ win'[p].name # Nothing
                => \E i, k \in DOMAIN startup : i # k /\ startup[i][1] = startup[k][1]
<1>1. ScriptsOK' /\ UNCHANGED startup
  <2>1. Silence \in Heard
    BY DEF Silence, Heard
  <2> QED
    BY <2>1 DEF Reboot, ScriptsOK
<1>2. startup \in Seq(Name \X Cmd)
  BY DEF TypeOK
<1>3. PICK line \in [Pid -> 0..Len(startup)] :
        /\ \A p \in Pid : win'[p] \in {StartupWindow(line[p]), Nothing}
        /\ \A p, q \in Pid :
             win'[p] # Nothing /\ win'[q] # Nothing /\ line[p] = line[q] => p = q
        /\ win' = [p \in Pid |-> win'[p]]
  BY <1>2, RebootWindows
<1>4. TmuxTypeOK'
  <2>1. \A p \in Pid : win'[p] \in Window \cup {Nothing}
    BY <1>2, <1>3, StartupWindowType
  <2> QED
    BY <1>2, <1>3, <2>1, RebootWindows DEF TmuxTypeOK
<1>5. ASSUME NEW p \in Pid, NEW q \in Pid, win'[p] # Nothing, win'[q] # Nothing, p # q,
             win'[p].name = win'[q].name, win'[p].name # Nothing
      PROVE  \E i, k \in DOMAIN startup : i # k /\ startup[i][1] = startup[k][1]
  <2>1. line[p] # line[q] /\ line[p] \in 0..Len(startup) /\ line[q] \in 0..Len(startup)
    BY <1>3, <1>5
  <2>2. win'[p] = StartupWindow(line[p]) /\ win'[q] = StartupWindow(line[q])
    BY <1>3, <1>5
  <2>3. line[p] # 0 /\ line[q] # 0
    BY <1>2, <1>5, <2>1, <2>2, StartupWindowType
  <2>4. /\ line[p] \in DOMAIN startup /\ line[q] \in DOMAIN startup
        /\ startup[line[p]][1] = startup[line[q]][1]
    BY <1>2, <1>5, <2>1, <2>2, <2>3, StartupWindowType
  <2> QED
    BY <2>1, <2>4
<1> QED
  BY <1>1, <1>2, <1>4, <1>5 DEF TypeOK

-------------------------------------------------------------------------------
(* Types. *)

LEMMA InitType == Init => TypeOK
<1>1. Silence \in Heard
  BY DEF Silence, Heard
<1> QED
  BY <1>1 DEF Init, TmuxInit, TypeOK, TmuxTypeOK, ScriptsOK

LEMMA NextType == TypeOK /\ [Next]_vars => TypeOK'
<1> SUFFICES ASSUME TypeOK, [Next]_vars PROVE TypeOK'
  OBVIOUS
<1>1. ASSUME NEW a \in Agent, Begin(a) PROVE TypeOK'
  BY <1>1, BeginType DEF TypeOK, TmuxTypeOK, Begin, TargetStays
<1>2. ASSUME NEW a \in Agent, Crash(a) PROVE TypeOK'
  BY <1>2, LeavesType DEF TypeOK, TmuxTypeOK, Crash, TargetStays
<1>3. ASSUME NEW a \in Agent, Works(a) PROVE TypeOK'
  BY <1>3, StopStepType, StartupStepType, ScreenStepType DEF Works
<1>4. CASE OnTarget
  BY <1>4, OnTargetType
<1>5. CASE Reboot
  BY <1>5, RebootType
<1>6. CASE UNCHANGED vars
  BY <1>6 DEF vars, TypeOK, TmuxTypeOK, ScriptsOK
<1> QED
  BY <1>1, <1>2, <1>3, <1>4, <1>5, <1>6 DEF Next

\* Types, and no script has anything in mind between two calls: for any
\* scripts, windows and commands.
THEOREM TypeCorrect == Spec => []TypeOK
BY InitType, NextType, PTL DEF Spec

-------------------------------------------------------------------------------
(* One window for each service.  The two places where a call adds a name    *)
(* have looked for it two commands earlier; what they saw must still hold.  *)

\* A script is in one of its calls.
KnownCalls == \A a \in Agent : call[a] # Nothing => call[a] \in Calls[a]

\* The lines of the start-up script are those of calls.
StartupKnown ==
    \A i \in DOMAIN startup :
        \E a \in Agent : \E c \in Calls[a] : startup[i] = <<c.name, c.cmd>>

\* No window is in it twice.
StartupOnce ==
    \A i, k \in DOMAIN startup : startup[i][1] = startup[k][1] => i = k

\* A script is about to add a line, or a window, only if it is not there.
AppendsFirst ==
    \A a \in Agent :
        pc[a] = "appendStartup" => \A i \in DOMAIN startup : startup[i][1] # call[a].name
OpensFirst ==
    \A a \in Agent :
        pc[a] = "newWindow" =>
            \A p \in Pid : win[p] # Nothing =>
                ~(win[p].session = call[a].session /\ win[p].name = call[a].name)

WindowInv ==
    TypeOK /\ KnownCalls /\ StartupKnown /\ StartupOnce /\ AppendsFirst /\ OpensFirst /\ OneWindow

\* Where a step of a call leads to, and what the call has seen when it goes on
\* to add a line or a window.
Moves(a) ==
    \/ Leaves(a)
    \/ \E c \in Command :
         /\ Goes(a, c)
         /\ c = "appendStartup" =>
              UNCHANGED startup /\ \A i \in DOMAIN startup : startup[i][2] # call[a].cmd
         /\ c = "newWindow" =>
              pc[a] = "windows" /\ UNCHANGED win /\ Named(call[a].session, call[a].name) = {}

LEMMA WorksMoves ==
    ASSUME NEW a \in Agent, Works(a)
    PROVE  Moves(a) /\ pc[a] # "idle"
<1>s. Command = {"list", "getPid", "pgrep", "killChildren", "killShell", "doomedPane",
                 "killWindow", "find", "killFound", "readStartup", "appendStartup",
                 "sessions", "killSession", "newSession", "windows", "newWindow",
                 "pane", "sendKeys", "capture"}
  BY DEF Command, StopCommand, StartupCommand, ScreenCommand
<1>1. CASE StopStep(a)
  <2>1. Leaves(a) \/ \E c \in Command : Goes(a, c) /\ c # "appendStartup" /\ c # "newWindow"
    BY <1>1, <1>s DEF StopStep, List, GetPid, Pgrep, KillChildren, KillShell, DoomedPane,
                     KillWindow, Find, KillFound
  <2>2. pc[a] # "idle"
    BY <1>1 DEF StopStep, List, GetPid, Pgrep, KillChildren, KillShell, DoomedPane,
                KillWindow, Find, KillFound, Now
  <2> QED
    BY <2>1, <2>2 DEF Moves
<1>2. CASE ReadStartup(a)
  BY <1>2, <1>s DEF ReadStartup, Moves, TargetStays, Now
<1>3. CASE AppendStartup(a)
  BY <1>3, <1>s DEF AppendStartup, Moves, Now
<1>4. CASE Windows(a)
  BY <1>4, <1>s DEF Windows, Moves, TargetStays, Now
<1>5. CASE Sessions(a) \/ KillSession(a) \/ NewSession(a) \/ NewWindow(a) \/ Pane(a)
           \/ SendKeys(a) \/ Answer(a) \/ WaitOver(a) \/ CaptureFails(a)
  <2>1. Leaves(a) \/ \E c \in Command : Goes(a, c) /\ c # "appendStartup" /\ c # "newWindow"
    BY <1>5, <1>s DEF Sessions, KillSession, NewSession, NewWindow, Pane, SendKeys, Answer,
                     WaitOver, CaptureFails
  <2>2. pc[a] # "idle"
    BY <1>5 DEF Sessions, KillSession, NewSession, NewWindow, Pane, SendKeys, Answer,
                WaitOver, CaptureFails, Now
  <2> QED
    BY <2>1, <2>2 DEF Moves
<1> QED
  BY <1>1, <1>2, <1>3, <1>4, <1>5 DEF Works, StartupStep, ScreenStep

\* Before a call opens a window there is none of that name.
LEMMA AddsFirst ==
    ASSUME OpensFirst, NEW a \in Agent, AddsWindow(a)
    PROVE  \A p \in Pid : win[p] # Nothing =>
             ~(win[p].session = call[a].session /\ win[p].name = call[a].name)
<1>1. CASE pc[a] = "newWindow"
  BY <1>1 DEF OpensFirst
<1>2. CASE ~Exists(call[a].session)
  BY <1>2 DEF Exists, In, Open
<1> QED
  BY <1>1, <1>2 DEF AddsWindow

LEMMA WorksKeepsWindows ==
    ASSUME NamesApart, WindowInv, TypeOK', NEW a \in Agent, Works(a),
           WindowsStay \/ AddsWindow(a)
    PROVE  OneWindow' /\ OpensFirst'
<1>a. KnownCalls /\ OpensFirst /\ OneWindow /\ ScriptsOK /\ ScriptsOK'
  BY DEF WindowInv, TypeOK
<1>m. Moves(a) /\ pc[a] # "idle"
  BY WorksMoves
<1>b. \A b \in Agent : b # a => pc'[b] = pc[b] /\ call'[b] = call[b]
  BY <1>a, <1>m DEF Moves, Goes, Leaves, ScriptsOK
<1>n. call[a] \in Calls[a]
  BY <1>a, <1>m DEF KnownCalls, ScriptsOK
<1>1. CASE WindowsStay
  <2>1. OneWindow'
    BY <1>a, <1>1 DEF OneWindow, WindowsStay, Open
  <2>2. ASSUME NEW b \in Agent, pc'[b] = "newWindow", NEW p \in Pid, win'[p] # Nothing
        PROVE  ~(win'[p].session = call'[b].session /\ win'[p].name = call'[b].name)
    <3>1. CASE b # a
      BY <1>a, <1>b, <1>1, <2>2, <3>1 DEF OpensFirst, WindowsStay
    <3>2. CASE b = a
      <4>1. pc'[a] # "idle"
        BY <2>2, <3>2
      <4>2. UNCHANGED win /\ Named(call[a].session, call[a].name) = {} /\ call' = call
        BY <1>a, <1>m, <2>2, <3>2, <4>1 DEF Moves, Goes, Leaves, ScriptsOK
      <4> QED
        BY <2>2, <3>2, <4>2 DEF Named, In, Open
    <3> QED
      BY <3>1, <3>2
  <2> QED
    BY <2>1, <2>2 DEF OpensFirst
<1>2. CASE AddsWindow(a)
  <2>1. PICK p \in Pid : WindowAdded(p, call[a].session, call[a].name)
    BY <1>2 DEF AddsWindow
  <2>2. \A q \in Pid : win[q] # Nothing =>
          ~(win[q].session = call[a].session /\ win[q].name = call[a].name)
    BY <1>a, <1>2, AddsFirst
  <2>3. OneWindow'
    BY <1>a, <2>1, <2>2 DEF OneWindow, WindowAdded, Open
  <2>4. ASSUME NEW b \in Agent, pc'[b] = "newWindow", NEW q \in Pid, win'[q] # Nothing
        PROVE  ~(win'[q].session = call'[b].session /\ win'[q].name = call'[b].name)
    <3>1. CASE b # a
      <4>1. pc[b] = "newWindow" /\ call'[b] = call[b] /\ call[b] # Nothing
        BY <1>a, <1>b, <2>4, <3>1 DEF ScriptsOK
      <4>2. call[b].name # call[a].name
        BY <1>a, <1>n, <3>1, <4>1 DEF NamesApart, KnownCalls
      <4> QED
        BY <1>a, <2>1, <2>4, <4>1, <4>2 DEF OpensFirst, WindowAdded
    <3>2. CASE b = a
      <4>1. pc'[a] # "idle"
        BY <2>4, <3>2
      <4>2. pc[a] = "windows"
        BY <1>a, <1>m, <2>4, <3>2, <4>1 DEF Moves, Goes, Leaves, ScriptsOK
      <4> QED
        BY <1>2, <4>2 DEF AddsWindow
    <3> QED
      BY <3>1, <3>2
  <2> QED
    BY <2>3, <2>4 DEF OpensFirst
<1> QED
  BY <1>1, <1>2

LEMMA WorksKeepsScript ==
    ASSUME NamesApart, WindowInv, TypeOK', NEW a \in Agent, Works(a)
    PROVE  KnownCalls' /\ StartupKnown' /\ StartupOnce' /\ AppendsFirst'
<1>a. KnownCalls /\ StartupKnown /\ StartupOnce /\ AppendsFirst /\ ScriptsOK /\ ScriptsOK'
  BY DEF WindowInv, TypeOK
<1>m. Moves(a) /\ pc[a] # "idle"
  BY WorksMoves
<1>b. \A b \in Agent : b # a => pc'[b] = pc[b] /\ call'[b] = call[b]
  BY <1>a, <1>m DEF Moves, Goes, Leaves, ScriptsOK
<1>n. call[a] \in Calls[a]
  BY <1>a, <1>m DEF KnownCalls, ScriptsOK
<1>1. KnownCalls'
  BY <1>a, <1>m DEF KnownCalls, Moves, Goes, Leaves, ScriptsOK
<1>2. CASE UNCHANGED startup
  <2>1. StartupKnown' /\ StartupOnce'
    BY <1>a, <1>2 DEF StartupKnown, StartupOnce
  <2>2. ASSUME NEW b \in Agent, pc'[b] = "appendStartup", NEW i \in DOMAIN startup
        PROVE  startup[i][1] # call'[b].name
    <3>1. CASE b # a
      BY <1>a, <1>b, <2>2, <3>1 DEF AppendsFirst
    <3>2. CASE b = a
      <4>1. call' = call /\ startup[i][2] # call[a].cmd
        BY <1>a, <1>m, <2>2, <3>2 DEF Moves, Goes, Leaves, ScriptsOK
      <4>2. PICK d \in Agent : \E c \in Calls[d] : startup[i] = <<c.name, c.cmd>>
        BY <1>a DEF StartupKnown
      <4>3. \A c \in Calls[d] : c.name = call[a].name => c.cmd = call[a].cmd
        BY <1>n DEF NamesApart
      <4> QED
        BY <3>2, <4>1, <4>2, <4>3
    <3> QED
      BY <3>1, <3>2
  <2> QED
    BY <1>1, <1>2, <2>1, <2>2 DEF AppendsFirst
<1>3. CASE AppendStartup(a)
  <2> DEFINE line == <<call[a].name, call[a].cmd>>
             n == Len(startup)
  <2>1. pc[a] = "appendStartup" /\ startup \in Seq(Name \X Cmd) /\ line \in Name \X Cmd
    BY <1>3, <1>m, CallType DEF WindowInv, TypeOK, AppendStartup, Now
  <2>2. startup' = Append(startup, line)
    BY <1>3 DEF AppendStartup
  <2>3. /\ n \in Nat /\ DOMAIN startup = 1..n /\ DOMAIN startup' = 1..(n + 1)
        /\ \A i \in DOMAIN startup : startup'[i] = startup[i]
        /\ startup'[n + 1] = line
    BY <2>1, <2>2
  <2>4. \A i \in DOMAIN startup : startup[i][1] # call[a].name
    BY <1>a, <2>1 DEF AppendsFirst
  <2>5. line[1] = call[a].name
    OBVIOUS
  <2>6. StartupKnown'
    <3>1. ASSUME NEW i \in DOMAIN startup'
          PROVE  \E b \in Agent : \E c \in Calls[b] : startup'[i] = <<c.name, c.cmd>>
      <4>1. CASE i = n + 1
        BY <1>n, <2>3, <4>1
      <4>2. CASE i # n + 1
        <5>1. i \in DOMAIN startup
          BY <2>3, <4>2
        <5> QED
          BY <1>a, <2>3, <5>1 DEF StartupKnown
      <4> QED
        BY <4>1, <4>2
    <3> QED
      BY <3>1 DEF StartupKnown
  <2> HIDE DEF line, n
  <2>7. StartupOnce'
    <3>1. ASSUME NEW i \in DOMAIN startup', NEW k \in DOMAIN startup',
                 startup'[i][1] = startup'[k][1]
          PROVE  i = k
      <4>1. i \in DOMAIN startup \/ i = n + 1
        BY <2>3
      <4>2. k \in DOMAIN startup \/ k = n + 1
        BY <2>3
      <4> QED
        BY <1>a, <2>3, <2>4, <2>5, <3>1, <4>1, <4>2 DEF StartupOnce
    <3> QED
      BY <3>1 DEF StartupOnce
  <2>8. ASSUME NEW b \in Agent, pc'[b] = "appendStartup", NEW i \in DOMAIN startup'
        PROVE  startup'[i][1] # call'[b].name
    <3>0. b # a
      BY <1>a, <1>3, <2>8 DEF AppendStartup, Goes, ScriptsOK
    <3>1. pc[b] = "appendStartup" /\ call'[b] = call[b] /\ call[b] \in Calls[b]
      BY <1>a, <1>b, <2>8, <3>0 DEF KnownCalls, ScriptsOK
    <3>2. call[b].name # call[a].name
      BY <1>n, <3>0, <3>1 DEF NamesApart
    <3>3. i \in DOMAIN startup \/ i = n + 1
      BY <2>3
    <3> QED
      BY <1>a, <2>3, <2>5, <3>1, <3>2, <3>3 DEF AppendsFirst
  <2> QED
    BY <1>1, <2>6, <2>7, <2>8 DEF AppendsFirst
<1>4. UNCHANGED startup \/ AppendStartup(a)
  BY StopStepType, ScreenStepType DEF Works, StartupStep, ReadStartup, TargetStays, WindowInv
<1> QED
  BY <1>2, <1>3, <1>4

LEMMA WindowInvInit == Init => WindowInv
BY InitType DEF Init, TmuxInit, WindowInv, KnownCalls, StartupKnown, StartupOnce, AppendsFirst,
                OpensFirst, OneWindow, Open

LEMMA WindowInvNext ==
    ASSUME NamesApart, WindowInv, [Next]_vars
    PROVE  WindowInv'
<1>t. TypeOK'
  BY NextType DEF WindowInv
<1>u. TypeOK /\ KnownCalls /\ StartupKnown /\ StartupOnce /\ AppendsFirst /\ OpensFirst /\ OneWindow
  BY DEF WindowInv
<1>1. ASSUME NEW a \in Agent, Begin(a) \/ Crash(a) PROVE WindowInv'
  <2>1. UNCHANGED <<win, startup>>
    BY <1>1 DEF Begin, Crash, TargetStays
  <2>2. KnownCalls'
    BY <1>u, <1>1 DEF Begin, Crash, Leaves, KnownCalls, TypeOK, ScriptsOK
  <2>3. \A b \in Agent : pc'[b] \in {"appendStartup", "newWindow"} =>
          pc'[b] = pc[b] /\ call'[b] = call[b]
    BY <1>u, <1>1 DEF Begin, Crash, Leaves, TypeOK, ScriptsOK
  <2>4. AppendsFirst' /\ OpensFirst'
    BY <1>u, <2>1, <2>3 DEF AppendsFirst, OpensFirst
  <2> QED
    BY <1>t, <1>u, <2>1, <2>2, <2>4
       DEF WindowInv, StartupKnown, StartupOnce, OneWindow, Open
<1>2. ASSUME NEW a \in Agent, Works(a) PROVE WindowInv'
  <2>1. WindowsStay \/ AddsWindow(a)
    BY <1>u, <1>2, StopStepType, StartupStepType, ScreenStepType DEF Works
  <2> QED
    BY <1>t, <1>2, <2>1, WorksKeepsWindows, WorksKeepsScript DEF WindowInv
<1>3. CASE OnTarget
  <2>1. WindowsStay /\ UNCHANGED <<startup, call, pc>>
    BY <1>u, <1>3, OnTargetType DEF OnTarget
  <2>2. OneWindow' /\ OpensFirst'
    BY <1>u, <2>1 DEF OneWindow, OpensFirst, WindowsStay, Open
  <2> QED
    BY <1>t, <1>u, <2>1, <2>2
       DEF WindowInv, KnownCalls, StartupKnown, StartupOnce, AppendsFirst
<1>4. CASE Reboot
  <2>1. UNCHANGED startup /\ \A a \in Agent : pc'[a] = "idle" /\ call'[a] = Nothing
    BY <1>4 DEF Reboot
  <2>2. OneWindow'
    BY <1>u, <1>4, RebootType DEF OneWindow, Open, StartupOnce
  <2> QED
    BY <1>t, <1>u, <2>1, <2>2
       DEF WindowInv, KnownCalls, StartupKnown, StartupOnce, AppendsFirst, OpensFirst
<1>5. CASE UNCHANGED vars
  BY <1>t, <1>u, <1>5
     DEF vars, WindowInv, KnownCalls, StartupKnown, StartupOnce, AppendsFirst, OpensFirst,
         OneWindow, Open
<1> QED
  BY <1>1, <1>2, <1>3, <1>4, <1>5 DEF Next

\* A service has at most one window, whatever scripts are called, killed or cut
\* off by a reboot, if each service belongs to one script and has one command.
THEOREM OneWindowEach ==
    ASSUME NamesApart
    PROVE  Spec => []OneWindow
<1>1. WindowInv /\ [Next]_vars => WindowInv'
  BY WindowInvNext
<1>2. WindowInv => OneWindow
  BY DEF WindowInv
<1> QED
  BY <1>1, <1>2, WindowInvInit, PTL DEF Spec
-------------------------------------------------------------------------------
(* What is started with autostart is in the start-up script.  Lines are only *)
(* added to it, so that what a call has found or added stays until it ends.  *)

\* The line of call c is in the start-up script.
HasLine(c) == \E i \in DOMAIN startup : startup[i] = <<c.name, c.cmd>>

LEMMA WorksKeepsLines ==
    ASSUME WindowInv, NEW a \in Agent, Works(a)
    PROVE  \A c : HasLine(c) => HasLine(c)'
<1>1. CASE UNCHANGED startup
  BY <1>1 DEF HasLine
<1>2. CASE AppendStartup(a)
  <2> DEFINE line == <<call[a].name, call[a].cmd>>
  <2>1. startup \in Seq(Name \X Cmd) /\ startup' = Append(startup, line)
    BY <1>2 DEF WindowInv, TypeOK, AppendStartup
  <2>2. \A i \in DOMAIN startup : i \in DOMAIN startup' /\ startup'[i] = startup[i]
    BY <2>1
  <2> QED
    BY <2>2 DEF HasLine
<1>3. UNCHANGED startup \/ AppendStartup(a)
  BY StopStepType, ScreenStepType DEF Works, StartupStep, ReadStartup, TargetStays, WindowInv
<1> QED
  BY <1>1, <1>2, <1>3

\* The ways to executeInScreen: for a call with autostart it is the start-up
\* script, in which its command was found or has been added.
LEMMA WorksToScreen ==
    ASSUME CommandsApart, WindowInv, NEW a \in Agent, Works(a), pc'[a] \in ScreenCommand
    PROVE  /\ call'[a] = call[a]
           /\ pc[a] \in ScreenCommand \/ ~call[a].autostart \/ HasLine(call[a])'
<1>a. ScriptsOK /\ KnownCalls /\ StartupKnown /\ startup \in Seq(Name \X Cmd)
  BY DEF WindowInv, TypeOK
<1>m. Moves(a) /\ pc[a] # "idle"
  BY WorksMoves
<1>s. "idle" \notin ScreenCommand
  BY DEF ScreenCommand
<1>1. ~Leaves(a) /\ call' = call
  BY <1>a, <1>m, <1>s DEF Moves, Leaves, Goes, ScriptsOK
<1>n. call[a] \in Calls[a]
  BY <1>a, <1>m DEF KnownCalls, ScriptsOK
<1>2. CASE StopStep(a)
  <2>1. CASE KillFound(a)
    BY <1>a, <1>1, <2>1 DEF KillFound, Goes, ScriptsOK, ScreenCommand
  <2>2. CASE ~KillFound(a)
    <3>1. \E c \in StopCommand : Goes(a, c)
      BY <1>1, <1>2, <2>2
         DEF StopStep, List, GetPid, Pgrep, KillChildren, KillShell, DoomedPane, KillWindow,
             Find, StopCommand
    <3> QED
      BY <1>a, <3>1 DEF Goes, ScriptsOK, StopCommand, ScreenCommand
  <2> QED
    BY <1>1, <2>1, <2>2
<1>3. CASE ReadStartup(a)
  <2>1. PICK i \in DOMAIN startup : startup[i][2] = call[a].cmd
    BY <1>a, <1>3 DEF ReadStartup, Goes, ScriptsOK, ScreenCommand
  <2>2. PICK b \in Agent : \E c \in Calls[b] : startup[i] = <<c.name, c.cmd>>
    BY <1>a DEF StartupKnown
  <2>3. PICK c \in Calls[b] : startup[i] = <<c.name, c.cmd>>
    BY <2>2
  <2>4. c.cmd = call[a].cmd
    BY <2>1, <2>3
  <2>5. c.name = call[a].name
    BY <2>4, <1>n DEF CommandsApart
  <2> QED
    BY <1>1, <1>3, <2>3, <2>4, <2>5 DEF ReadStartup, TargetStays, HasLine
<1>4. CASE AppendStartup(a)
  <2> DEFINE line == <<call[a].name, call[a].cmd>>
  <2>1. startup' = Append(startup, line)
    BY <1>4 DEF AppendStartup
  <2>2. Len(startup) + 1 \in DOMAIN startup' /\ startup'[Len(startup) + 1] = line
    BY <1>a, <2>1
  <2> QED
    BY <1>1, <2>2 DEF HasLine
<1>5. CASE ScreenStep(a)
  BY <1>1, <1>5
     DEF ScreenStep, Sessions, KillSession, NewSession, Windows, NewWindow, Pane, SendKeys,
         Answer, WaitOver, CaptureFails, Now, ScreenCommand
<1> QED
  BY <1>2, <1>3, <1>4, <1>5 DEF Works, StartupStep

LEMMA StartsAgainNext ==
    ASSUME CommandsApart, WindowInv, StartsAgain, [Next]_vars
    PROVE  StartsAgain'
<1>a. ScriptsOK
  BY DEF WindowInv, TypeOK
<1>s. "idle" \notin ScreenCommand /\ "list" \notin ScreenCommand
  BY DEF ScreenCommand
<1>1. ASSUME NEW a \in Agent, Begin(a) \/ Crash(a) PROVE StartsAgain'
  <2>1. UNCHANGED startup /\ \A b \in Agent : b # a => pc'[b] = pc[b] /\ call'[b] = call[b]
    BY <1>a, <1>1 DEF Begin, Crash, Leaves, TargetStays, ScriptsOK
  <2>2. pc'[a] \in ScreenCommand => call'[a].op # "ensure"
    BY <1>a, <1>s, <1>1 DEF Begin, Crash, Leaves, ScriptsOK
  <2> QED
    BY <2>1, <2>2 DEF StartsAgain
<1>2. ASSUME NEW a \in Agent, Works(a) PROVE StartsAgain'
  <2>1. \A b \in Agent : b # a => pc'[b] = pc[b] /\ call'[b] = call[b]
    BY <1>a, <1>2, WorksMoves DEF Moves, Goes, Leaves, ScriptsOK
  <2>2. ASSUME NEW b \in Agent, pc'[b] \in ScreenCommand, call'[b].op = "ensure",
               call'[b].autostart
        PROVE  HasLine(call[b])'
    <3>1. CASE pc[b] \in ScreenCommand
      <4>1. call'[b] = call[b] /\ HasLine(call[b])
        BY <1>2, <2>1, <2>2, <3>1, WorksToScreen DEF StartsAgain, HasLine
      <4>2. \E i \in DOMAIN startup' : startup'[i] = <<call[b].name, call[b].cmd>>
        BY <1>2, <4>1, WorksKeepsLines DEF HasLine
      <4> QED
        BY <4>1, <4>2 DEF HasLine
    <3>2. CASE pc[b] \notin ScreenCommand
      <4>1. b = a
        BY <2>1, <2>2, <3>2
      <4> QED
        BY <1>2, <2>2, <3>2, <4>1, WorksToScreen
    <3> QED
      BY <3>1, <3>2
  <2> QED
    BY <2>2 DEF StartsAgain, HasLine
<1>3. CASE OnTarget
  BY <1>3 DEF OnTarget, StartsAgain
<1>4. CASE Reboot
  BY <1>4, <1>s DEF Reboot, StartsAgain
<1>5. CASE UNCHANGED vars
  BY <1>5 DEF vars, StartsAgain
<1> QED
  BY <1>1, <1>2, <1>3, <1>4, <1>5 DEF Next

\* A service that ensure starts with autostart (line 285 of ProcessManager.py)
\* is one that a reboot starts in its own window, whatever other scripts write to
\* the start-up script meanwhile, if no two services have the same command line.
THEOREM StartedAgain ==
    ASSUME NamesApart, CommandsApart
    PROVE  Spec => []StartsAgain
<1>1. Init => WindowInv /\ StartsAgain
  BY WindowInvInit DEF Init, StartsAgain, ScreenCommand
<1>2. WindowInv /\ StartsAgain /\ [Next]_vars => WindowInv' /\ StartsAgain'
  BY WindowInvNext, StartsAgainNext
<1> QED
  BY <1>1, <1>2, PTL DEF Spec
===============================================================================
