------------------------ MODULE PrefabTmuxecAlone_proofs ------------------------
(***************************************************************************)
(* One script that ensures, stops and removes services (ServicesAlone):    *)
(* whatever it has read and keeps in mind is about its own window, for any *)
(* services, commands and windows, with crashes and reboots at any command.*)
(* Its calls implement PrefabServices.                                     *)
(***************************************************************************)
EXTENDS PrefabTmuxec_proofs, SequenceTheorems

-------------------------------------------------------------------------------
(* The inductive invariant, beside WindowInv.                              *)

\* A command line of one of the calls, for the window of its service.
Mine(job, n) ==
    /\ job.name = n
    /\ \E b \in Agent : \E c \in Calls[b] : c.name = n /\ c.cmd = job.cmd
Tidy(w) ==
    /\ w.run # Nothing => Mine(w.run, w.name)
    /\ \A i \in DOMAIN w.typed : Mine(w.typed[i], w.name)

\* Windows hold the lines of their own service.
Tidied == \A p \in Pid : win[p] # Nothing => Tidy(win[p])

\* They are in the session of services, and an index is that of one window.
InMain == \A p \in Pid : win[p] # Nothing => win[p].session = Main
IndexOnce ==
    \A p, q \in Pid :
        win[p] # Nothing /\ win[q] # Nothing /\ win[p].index = win[q].index => p = q
Placed == InMain /\ IndexOnce

\* The pids that the script has in mind are those of its service.
MindsOwn(a) ==
    \A p \in Pid :
        /\ win[p] # Nothing
        /\ p = heard[a].pid \/ \E v \in heard[a].victims : v[1] = p
        => win[p].name = call[a].name

\* So is the index of the window that it closes.
ClosesOwn(a) ==
    pc[a] = "killWindow" =>
        \A p \in Pid :
            win[p] # Nothing => (win[p].name = call[a].name <=> win[p].index = heard[a].pane)

\* Between the commands that close the window of the service and those that
\* make it anew there is none.
Stopped == {"find", "killFound", "readStartup", "appendStartup", "sessions", "killSession",
            "newSession", "windows", "newWindow"}
ClosesFirst(a) ==
    pc[a] \in Stopped => \A p \in Pid : win[p] # Nothing => win[p].name # call[a].name
MakesFirst(a) == pc[a] \in {"killSession", "newSession"} => \A p \in Pid : win[p] = Nothing

\* The window that the script has made is the current one, and nothing is in it
\* but the line that the script has typed.
Fresh(w) == w.run = Nothing /\ w.typed = << >> /\ w.screen = Nothing
Answers(w) ==
    \/ w.typed = << >> /\ (w.run = Nothing \/ w.screen # {"error"})
    \/ w.run = Nothing /\ Len(w.typed) = 1 /\ w.screen = {} /\ w.shell = "starting"
MadeWindow(a, p) ==
    /\ win[p] # Nothing /\ front[Main] = p
    /\ win[p].name = call[a].name /\ win[p].shell # "dead"
    /\ pc[a] \in {"pane", "sendKeys"} => Fresh(win[p])
    /\ pc[a] = "sendKeys" => heard[a].pane = win[p].index
    /\ pc[a] = "capture" => Answers(win[p])
TypesInOwn(a) ==
    pc[a] \in {"pane", "sendKeys", "capture"} => \E p \in Pid : MadeWindow(a, p)

\* All of the script's mind but the window it types in.
Minds(a) == MindsOwn(a) /\ ClosesOwn(a) /\ ClosesFirst(a) /\ MakesFirst(a)

AloneInv ==
    /\ WindowInv
    /\ Tidied /\ Placed
    /\ \A a \in Agent : Minds(a) /\ TypesInOwn(a)

-------------------------------------------------------------------------------
(* What windows hold: the lines of their service stay so. *)

LEMMA PromptTidy ==
    ASSUME NEW w \in Window, Tidy(w)
    PROVE  Tidy(Prompt(w))
<1>0. w.typed \in Seq(Job) /\ DOMAIN w = {"session", "index", "name", "shell", "run", "typed", "screen"}
  BY DEF Window
<1>1. CASE w.typed = << >>
  BY <1>0, <1>1 DEF Prompt, Tidy, Window
<1>2. CASE w.typed # << >>
  <2>1. Mine(Head(w.typed), w.name)
    BY <1>0, <1>2 DEF Tidy
  <2>2. \A i \in DOMAIN Tail(w.typed) : Mine(Tail(w.typed)[i], w.name)
    BY <1>0, <1>2 DEF Tidy
  <2>3. /\ Prompt(w).name = w.name /\ Prompt(w).run = Head(w.typed)
        /\ Prompt(w).typed = Tail(w.typed)
    BY <1>0, <1>2 DEF Prompt, Window
  <2> QED
    BY <2>1, <2>2, <2>3 DEF Tidy
<1> QED
  BY <1>1, <1>2

LEMMA EndedTidy ==
    ASSUME NEW w \in Window, NEW r \in {"ok", "error"}, Tidy(w)
    PROVE  Tidy(Ended(w, r))
<1> DEFINE v == [w EXCEPT !.screen = IF w.run.by = Nothing THEN w.screen
                                     ELSE Shows(w.screen, r)]
<1>1. Shows(w.screen, r) \in Screen
  BY DEF Window, Screen, Shows
<1>2. v \in Window /\ v.run = w.run /\ v.typed = w.typed /\ v.name = w.name
  BY <1>1 DEF Window
<1>3. Tidy(v)
  BY <1>2 DEF Tidy
<1>4. Ended(w, r) = Prompt(v)
  BY DEF Ended
<1> HIDE DEF v
<1> QED
  BY <1>2, <1>3, <1>4, PromptTidy

LEMMA TypeTidy ==
    ASSUME NEW w \in Window, NEW job \in Job, Tidy(w), Mine(job, w.name)
    PROVE  Tidy(Type(w, job))
<1>1. CASE w.shell = "dead"
  BY <1>1 DEF Type
<1>2. CASE w.shell = "ready" /\ w.run = Nothing
  BY <1>2 DEF Type, Tidy, Window
<1>3. CASE w.shell # "dead" /\ ~(w.shell = "ready" /\ w.run = Nothing)
  <2>1. /\ Type(w, job).run = w.run /\ Type(w, job).name = w.name
        /\ Type(w, job).typed = Append(w.typed, job)
    BY <1>3 DEF Type, Window
  <2>2. w.typed \in Seq(Job)
    BY DEF Window
  <2>3. \A i \in DOMAIN Append(w.typed, job) : Mine(Append(w.typed, job)[i], w.name)
    BY <2>2 DEF Tidy
  <2> QED
    BY <2>1, <2>3 DEF Tidy
<1> QED
  BY <1>1, <1>2, <1>3

\* The window of a script that waits for the answer.
LEMMA PromptAnswers ==
    ASSUME NEW w \in Window, w.shell = "starting"
    PROVE  /\ Prompt(w).shell = "ready"
           /\ Fresh(w) => Fresh(Prompt(w))
           /\ Answers(w) => Answers(Prompt(w))
<1>1. CASE w.typed = << >>
  BY <1>1 DEF Prompt, Fresh, Answers, Window
<1>2. CASE w.typed # << >>
  <2>1. /\ Prompt(w).shell = "ready" /\ Prompt(w).run = Head(w.typed)
        /\ Prompt(w).typed = Tail(w.typed)
        /\ Prompt(w).screen = IF Reecho THEN Echo(w.screen) ELSE w.screen
    BY <1>2 DEF Prompt, Window
  <2>2. ASSUME Answers(w) PROVE Answers(Prompt(w))
    <3>1. Len(w.typed) = 1 /\ w.screen = {} /\ w.typed \in Seq(Job)
      BY <1>2, <2>2 DEF Answers, Window
    <3>2. Tail(w.typed) = << >>
      <4>1. Tail(w.typed) \in Seq(Job) /\ Len(Tail(w.typed)) = 0
        BY <1>2, <3>1
      <4> QED
        BY <4>1, EmptySeq
    <3>3. (IF Reecho THEN Echo(w.screen) ELSE w.screen) # {"error"}
      BY <3>1 DEF Echo
    <3> QED
      BY <2>1, <3>2, <3>3 DEF Answers
  <2> QED
    BY <1>2, <2>1, <2>2 DEF Fresh
<1> QED
  BY <1>1, <1>2

LEMMA EndedAnswers ==
    ASSUME NEW w \in Window, NEW r \in {"ok", "error"}, w.shell = "ready", w.run # Nothing,
           Answers(w)
    PROVE  Answers(Ended(w, r)) /\ Ended(w, r).shell = "ready"
<1>1. w.typed = << >>
  BY DEF Answers
<1> DEFINE v == [w EXCEPT !.screen = IF w.run.by = Nothing THEN w.screen
                                     ELSE Shows(w.screen, r)]
<1>2. v.typed = << >> /\ Ended(w, r) = [v EXCEPT !.shell = "ready", !.run = Nothing]
  BY <1>1 DEF Ended, Prompt, Window
<1>3. Ended(w, r).typed = << >> /\ Ended(w, r).run = Nothing /\ Ended(w, r).shell = "ready"
  BY <1>2 DEF Window
<1> QED
  BY <1>3 DEF Answers

LEMMA TypeAnswers ==
    ASSUME NEW w \in Window, NEW job \in Job, Fresh(w), w.shell # "dead"
    PROVE  Answers(Type(w, job)) /\ Type(w, job).shell = w.shell
<1>1. Echo(w.screen) = {}
  BY DEF Fresh, Echo
<1>2. CASE w.shell = "ready"
  BY <1>1, <1>2 DEF Type, Fresh, Answers, Window
<1>3. CASE w.shell = "starting"
  <2>1. /\ Type(w, job).run = Nothing /\ Type(w, job).screen = {}
        /\ Type(w, job).typed = Append(<< >>, job) /\ Type(w, job).shell = "starting"
    BY <1>1, <1>3 DEF Type, Fresh, Window
  <2>2. Len(Append(<< >>, job)) = 1
    OBVIOUS
  <2> QED
    BY <1>3, <2>1, <2>2 DEF Answers
<1> QED
  BY <1>2, <1>3 DEF Window

-------------------------------------------------------------------------------
(* Places and minds, when windows close at most. *)

\* Windows may close, and keep their places otherwise.
PlacesStay == \A p \in Pid : win'[p] # Nothing => win[p] # Nothing /\ SamePlace(win'[p], win[p])

LEMMA PlacedStays ==
    ASSUME Placed, PlacesStay
    PROVE  Placed'
BY DEF Placed, InMain, IndexOnce, PlacesStay, SamePlace

LEMMA MindsStay ==
    ASSUME PlacesStay, NEW a \in Agent, MindsOwn(a), call'[a] = call[a],
           heard'[a].pid \in {heard[a].pid, Nothing},
           heard'[a].victims \subseteq heard[a].victims,
           Nothing \notin Pid
    PROVE  MindsOwn(a)'
BY DEF MindsOwn, PlacesStay, SamePlace

LEMMA LeavesMinds ==
    ASSUME ScriptsOK, NEW a \in Agent, Leaves(a)
    PROVE  Minds(a)' /\ TypesInOwn(a)'
<1>1. pc'[a] = "idle" /\ heard'[a] = Silence
  BY DEF Leaves, ScriptsOK
<1>2. Nothing \notin Pid
  BY TmuxAssumption
<1> QED
  BY <1>1, <1>2 DEF Minds, MindsOwn, ClosesOwn, ClosesFirst, MakesFirst, TypesInOwn, Silence,
                    Stopped

\* The script goes on to a command before which nothing is asked of its mind.
LEMMA GoesMinds ==
    ASSUME ScriptsOK, PlacesStay, NEW a \in Agent, MindsOwn(a), NEW c \in Command, Goes(a, c),
           HearsNothing \/ \E h \in Heard : /\ Hears(a, h)
                                         /\ h.pid \in {heard[a].pid, Nothing}
                                         /\ h.victims \subseteq heard[a].victims
    PROVE  /\ MindsOwn(a)'
           /\ pc'[a] = c /\ call'[a] = call[a]
<1>1. pc'[a] = c /\ call'[a] = call[a]
  BY DEF Goes, ScriptsOK
<1>2. heard'[a].pid \in {heard[a].pid, Nothing} /\ heard'[a].victims \subseteq heard[a].victims
  BY DEF HearsNothing, Hears, ScriptsOK
<1> QED
  BY <1>1, <1>2, MindsStay, TmuxAssumption

\* How the steps of a call change windows.
LEMMA KilledStays ==
    ASSUME TmuxTypeOK, Tidied, NEW victims, win' = Killed(victims)
    PROVE  Tidied' /\ PlacesStay
<1>1. ASSUME NEW p \in Pid, win'[p] # Nothing
      PROVE  win[p] # Nothing /\ Tidy(win'[p]) /\ SamePlace(win'[p], win[p])
  <2>1. CASE Busy(p) /\ <<p, win[p].run>> \in victims
    <3>1. win[p] # Nothing /\ win[p] \in Window /\ win'[p] = Ended(win[p], "error")
      BY <2>1 DEF Busy, Open, TmuxTypeOK, Killed
    <3> QED
      BY <3>1, EndedTidy, EndedType DEF Tidied
  <2>2. CASE ~(Busy(p) /\ <<p, win[p].run>> \in victims)
    BY <1>1, <2>2 DEF Killed, Tidied, SamePlace
  <2> QED
    BY <2>1, <2>2
<1> QED
  BY <1>1 DEF Tidied, PlacesStay

LEMMA ClosedKeeps ==
    ASSUME TmuxTypeOK, Tidied, NEW s, NEW ps, Closed(s, ps)
    PROVE  /\ Tidied' /\ PlacesStay
           /\ \A p \in Pid : win'[p] = IF p \in ps THEN Nothing ELSE win[p]
<1>1. win' = [p \in Pid |-> IF p \in ps THEN Nothing ELSE win[p]]
  BY DEF Closed
<1> QED
  BY <1>1 DEF Tidied, PlacesStay, SamePlace

LEMMA SameKeeps ==
    ASSUME Tidied, UNCHANGED win
    PROVE  Tidied' /\ PlacesStay
BY DEF Tidied, PlacesStay, SamePlace

\* What the invariant says of a script in a call.
LEMMA InCall ==
    ASSUME ServicesAlone, WindowInv, NEW a \in Agent, pc[a] # "idle"
    PROVE  /\ call[a] \in Calls[a] /\ call[a].session = Main
           /\ call[a].name \in Name /\ call[a].name # Nothing /\ call[a].cmd \in Cmd
           /\ heard[a] \in Heard /\ heard[a].pid \in Pid \cup {Nothing}
           /\ Mine([by |-> a, name |-> call[a].name, cmd |-> call[a].cmd], call[a].name)
<1>1. ScriptsOK /\ KnownCalls
  BY DEF WindowInv, TypeOK
<1>2. call[a] \in Calls[a]
  BY <1>1 DEF KnownCalls, ScriptsOK
<1>3. call[a].session = Main
  BY <1>2, TmuxecAssumption DEF ServicesAlone
<1>4. Nothing \notin Name
  BY TmuxAssumption
<1> QED
  BY <1>1, <1>2, <1>3, <1>4, CallType DEF Heard, Mine

\* A window of the service is the only one of that name.
LEMMA OnlyWindow ==
    ASSUME ServicesAlone, WindowInv, Placed, NEW a \in Agent, pc[a] # "idle",
           NEW p \in Pid, win[p] # Nothing, win[p].name = call[a].name
    PROVE  /\ Named(Main, call[a].name) = {p} /\ LastPids(Main, call[a].name) = {p}
           /\ PaneOf(Main, call[a].name) = {win[p].index}
           /\ At(Main, win[p].index) = {p}
           /\ win[p].index \in Nat
<1>1. win[p] \in Window /\ win[p].index \in Nat
  BY DEF WindowInv, TypeOK, TmuxTypeOK, Window
<1>2. Named(Main, call[a].name) = {p}
  BY InCall DEF WindowInv, OneWindow, Placed, InMain, Named, In, Open
<1>3. LastPids(Main, call[a].name) = {p}
  BY <1>1, <1>2 DEF LastPids
<1>4. At(Main, win[p].index) = {p}
  BY DEF Placed, InMain, IndexOnce, At, In, Open
<1> QED
  BY <1>1, <1>2, <1>3, <1>4 DEF PaneOf

-------------------------------------------------------------------------------
(* Steps of a call. *)

LEMMA StopStepMinds ==
    ASSUME ServicesAlone, AloneInv, NEW a \in Agent, StopStep(a)
    PROVE  Tidied' /\ PlacesStay /\ Minds(a)' /\ TypesInOwn(a)'
<1>a. /\ WindowInv /\ TypeOK /\ ScriptsOK /\ TmuxTypeOK /\ Tidied /\ Placed
      /\ MindsOwn(a) /\ ClosesOwn(a) /\ ClosesFirst(a)
  BY DEF AloneInv, WindowInv, TypeOK, Minds
<1>b. pc[a] # "idle"
  BY DEF StopStep, List, GetPid, Pgrep, KillChildren, KillShell, DoomedPane, KillWindow, Find,
         KillFound, Now
<1>c. /\ call[a] \in Calls[a] /\ call[a].session = Main
      /\ call[a].name \in Name /\ call[a].name # Nothing
      /\ heard[a] \in Heard /\ heard[a].pid \in Pid \cup {Nothing}
  BY <1>a, <1>b, InCall
<1>s. /\ {"list", "getPid", "pgrep", "killChildren", "killShell", "doomedPane",
          "killWindow", "find", "killFound", "readStartup", "sessions"} \subseteq Command
      /\ "idle" \notin Command
  BY DEF Command, StopCommand, StartupCommand, ScreenCommand
<1>h. /\ \A p \in Pid \cup {Nothing} :
            /\ [heard[a] EXCEPT !.pid = p] \in Heard
            /\ [heard[a] EXCEPT !.pid = p].pid = p
            /\ [heard[a] EXCEPT !.pid = p].victims = heard[a].victims
      /\ \A v \in SUBSET (Pid \X Job) :
            /\ [heard[a] EXCEPT !.victims = v] \in Heard
            /\ [heard[a] EXCEPT !.victims = v].pid = heard[a].pid
            /\ [heard[a] EXCEPT !.victims = v].victims = v
      /\ \A i \in Nat \cup {Nothing} :
            /\ [heard[a] EXCEPT !.pane = i] \in Heard
            /\ [heard[a] EXCEPT !.pane = i].pid = heard[a].pid
            /\ [heard[a] EXCEPT !.pane = i].victims = heard[a].victims
            /\ [heard[a] EXCEPT !.pane = i].pane = i
  BY <1>c DEF Heard
<1>n. Nothing \notin Pid
  BY TmuxAssumption
<1>r. \A h \in {[heard[a] EXCEPT !.pid = Nothing], [heard[a] EXCEPT !.victims = {}],
              [heard[a] EXCEPT !.pane = Nothing]} :
        /\ h \in Heard /\ h.pid \in {heard[a].pid, Nothing} /\ h.victims \subseteq heard[a].victims
  <2> Nothing \in Pid \cup {Nothing} /\ {} \in SUBSET (Pid \X Job) /\ Nothing \in Nat \cup {Nothing}
    OBVIOUS
  <2>1. LET h == [heard[a] EXCEPT !.pid = Nothing]
        IN  h \in Heard /\ h.pid = Nothing /\ h.victims = heard[a].victims
    BY <1>h
  <2>2. LET h == [heard[a] EXCEPT !.victims = {}]
        IN  h \in Heard /\ h.pid = heard[a].pid /\ h.victims = {}
    BY <1>h
  <2>3. LET h == [heard[a] EXCEPT !.pane = Nothing]
        IN  h \in Heard /\ h.pid = heard[a].pid /\ h.victims = heard[a].victims
    BY <1>h
  <2> QED
    BY <2>1, <2>2, <2>3
<1>t. TargetStays => Tidied' /\ PlacesStay
  BY <1>a, SameKeeps DEF TargetStays
<1>l. Leaves(a) => Minds(a)' /\ TypesInOwn(a)'
  BY <1>a, LeavesMinds
\* Before most commands only MindsOwn matters.
<1>g. ASSUME NEW c \in Command \ (Stopped \cup {"killWindow", "pane", "sendKeys", "capture"}),
             MindsOwn(a)', pc'[a] = c
      PROVE  Minds(a)' /\ TypesInOwn(a)'
  BY <1>g DEF Minds, ClosesOwn, ClosesFirst, MakesFirst, TypesInOwn, Stopped
\* Before the others of stop the window of the service must be gone, too.
<1>f. ASSUME NEW c \in {"find", "killFound", "readStartup", "sessions"}, MindsOwn(a)',
             pc'[a] = c, call'[a] = call[a],
             \A p \in Pid : win'[p] # Nothing => win'[p].name # call[a].name
      PROVE  Minds(a)' /\ TypesInOwn(a)'
  BY <1>f DEF Minds, ClosesOwn, ClosesFirst, MakesFirst, TypesInOwn
<1>1. CASE List(a)
  <2>1. (TargetStays /\ HearsNothing /\ (Goes(a, "getPid") \/ Goes(a, "find"))) \/ Leaves(a)
    BY <1>1 DEF List
  <2>2. CASE Leaves(a)
    BY <1>1, <2>2, <1>t, <1>l DEF List
  <2>3. CASE Goes(a, "getPid") /\ HearsNothing
    BY <1>1, <2>3, <1>a, <1>s, <1>t, <1>g, GoesMinds DEF List, Stopped
  <2>4. CASE Goes(a, "find") /\ HearsNothing
    <3>1. \A p \in Pid : win'[p] # Nothing => win'[p].name # call[a].name
      <4>1. pc'[a] = "find"
        BY <2>4, <1>a DEF Goes, ScriptsOK
      <4>2. ~\E p \in Open : win[p].name = call[a].name
        BY <1>1, <4>1, <1>a DEF List, Goes, ScriptsOK
      <4> QED
        BY <1>1, <4>2 DEF List, TargetStays, Open
    <3> QED
      BY <1>1, <2>4, <3>1, <1>a, <1>s, <1>t, <1>f, GoesMinds DEF List
  <2> QED
    BY <1>1, <2>2, <2>3, <2>4 DEF List
<1>2. CASE GetPid(a)
  <2>1. PICK p \in FirstPids(call[a].name) \cup {Nothing} : Hears(a, [heard[a] EXCEPT !.pid = p])
    BY <1>2 DEF GetPid
  <2>2. p \in Pid \cup {Nothing} /\ (p # Nothing => win[p].name = call[a].name)
    BY <2>1 DEF FirstPids, Open
  <2>3. heard'[a].pid = p /\ heard'[a].victims = heard[a].victims
    BY <2>1, <2>2, <1>a, <1>h DEF Hears, ScriptsOK
  <2>4. call' = call /\ pc'[a] \in {"killShell", "pgrep"} /\ win' = win
    BY <1>2, <1>a DEF GetPid, Goes, TargetStays, ScriptsOK
  <2>5. MindsOwn(a)'
    BY <2>2, <2>3, <2>4, <1>a, <1>n DEF MindsOwn
  <2> QED
    BY <1>2, <2>4, <2>5, <1>s, <1>t, <1>g DEF GetPid, Stopped
<1>3. CASE Pgrep(a)
  <2>1. Children(heard[a].pid) \in SUBSET (Pid \X Job)
    BY <1>a, <1>c, VictimsType DEF Children
  <2>2. heard'[a].pid = heard[a].pid /\ heard'[a].victims = Children(heard[a].pid)
    BY <1>3, <2>1, <1>a, <1>h DEF Pgrep, Hears, ScriptsOK
  <2>3. \A v \in Children(heard[a].pid) : v[1] = heard[a].pid
    BY DEF Children
  <2>4. call' = call /\ pc'[a] = "killChildren" /\ win' = win
    BY <1>3, <1>a DEF Pgrep, Goes, TargetStays, ScriptsOK
  <2>5. MindsOwn(a)'
    BY <2>2, <2>3, <2>4, <1>a DEF MindsOwn
  <2> QED
    BY <1>3, <2>4, <2>5, <1>s, <1>t, <1>g DEF Pgrep, Stopped
<1>4. CASE KillChildren(a)
  <2>1. Tidied' /\ PlacesStay
    BY <1>4, <1>a, KilledStays DEF KillChildren
  <2>2. CASE Goes(a, "killShell") /\ Hears(a, [heard[a] EXCEPT !.victims = {}])
    <3>1. MindsOwn(a)' /\ pc'[a] = "killShell"
      BY <2>1, <2>2, <1>a, <1>r, <1>s, GoesMinds
    <3> QED
      BY <2>1, <3>1, <1>s, <1>g DEF Stopped
  <2> QED
    BY <1>4, <2>1, <2>2, <1>l DEF KillChildren
<1>5. CASE KillShell(a)
  <2>1. CASE heard[a].pid \in Open
    <3> DEFINE p == heard[a].pid
    <3>1. p \in Pid /\ win[p] \in Window /\ win' = [win EXCEPT ![p].shell = "dead"]
      BY <1>5, <2>1, <1>a DEF KillShell, Open, TmuxTypeOK
    <3>2. win'[p] = [win[p] EXCEPT !.shell = "dead"] /\ \A q \in Pid : q # p => win'[q] = win[q]
      BY <3>1, <1>a DEF TmuxTypeOK
    <3>3. Tidied' /\ PlacesStay
      <4>1. SamePlace(win'[p], win[p]) /\ win[p] # Nothing
        BY <2>1, <3>1, <3>2 DEF SamePlace, Window, Open
      <4>2. Tidy(win'[p])
        BY <3>1, <3>2, <4>1, <1>a DEF Tidied, Tidy, Window
      <4> QED
        BY <3>2, <4>1, <4>2, <1>a DEF Tidied, PlacesStay, SamePlace
    <3>4. Goes(a, "doomedPane") /\ Hears(a, [heard[a] EXCEPT !.pid = Nothing])
      BY <1>5, <2>1 DEF KillShell
    <3>5. MindsOwn(a)' /\ pc'[a] = "doomedPane"
      BY <3>3, <3>4, <1>a, <1>r, <1>s, GoesMinds
    <3> QED
      BY <3>3, <3>5, <1>s, <1>g DEF Stopped
  <2>2. CASE heard[a].pid \notin Open
    BY <1>5, <2>2, <1>t, <1>l DEF KillShell
  <2> QED
    BY <2>1, <2>2
<1>6. CASE DoomedPane(a)
  <2>1. PICK i \in PaneOf(Main, call[a].name) : Hears(a, [heard[a] EXCEPT !.pane = i])
    BY <1>6, <1>c DEF DoomedPane, ReadPane
  <2>2. /\ i \in Nat \cup {Nothing}
        /\ \A p \in Pid : win[p] # Nothing => (win[p].name = call[a].name <=> win[p].index = i)
    <3>1. CASE LastPids(Main, call[a].name) = {}
      <4>1. i = Nothing
        BY <2>1, <3>1 DEF PaneOf
      <4>2. \A p \in Pid : win[p] # Nothing => win[p].name # call[a].name
        BY <3>1, <1>a, <1>b, OnlyWindow
      <4>3. \A p \in Pid : win[p] # Nothing => win[p].index # Nothing
        BY <1>a, TmuxAssumption DEF TmuxTypeOK, Window
      <4> QED
        BY <4>1, <4>2, <4>3
    <3>2. CASE LastPids(Main, call[a].name) # {}
      <4>1. PICK q \in LastPids(Main, call[a].name) : TRUE
        BY <3>2
      <4>2. q \in Pid /\ win[q] # Nothing /\ win[q].name = call[a].name
        BY <4>1 DEF LastPids, Named, In, Open
      <4>3. i = win[q].index /\ i \in Nat
        BY <2>1, <4>2, <1>a, <1>b, OnlyWindow
      <4>4. \A p \in Pid : win[p] # Nothing /\ win[p].name = call[a].name => p = q
        BY <4>2, <1>a, <1>b, OnlyWindow DEF Named, In, Open, Placed, InMain
      <4>5. \A p \in Pid : win[p] # Nothing /\ win[p].index = i => p = q
        BY <4>2, <4>3, <1>a DEF Placed, IndexOnce
      <4> QED
        BY <4>2, <4>3, <4>4, <4>5
    <3> QED
      BY <3>1, <3>2
  <2>3. heard'[a].pane = i /\ heard'[a].pid = heard[a].pid /\ heard'[a].victims = heard[a].victims
    BY <2>1, <2>2, <1>a, <1>h DEF Hears, ScriptsOK
  <2>4. call' = call /\ pc'[a] = "killWindow" /\ win' = win
    BY <1>6, <1>a DEF DoomedPane, Goes, TargetStays, ScriptsOK
  <2>5. MindsOwn(a)'
    BY <2>3, <2>4, <1>a DEF MindsOwn
  <2>6. ClosesOwn(a)' /\ ClosesFirst(a)' /\ MakesFirst(a)' /\ TypesInOwn(a)'
    BY <2>2, <2>3, <2>4 DEF ClosesOwn, ClosesFirst, MakesFirst, TypesInOwn, Stopped
  <2> QED
    BY <1>6, <2>5, <2>6, <1>t DEF DoomedPane, Minds
<1>7. CASE KillWindow(a)
  <2>1. /\ Tidied' /\ PlacesStay
        /\ \A p \in Pid : win'[p] = IF p \in At(Main, heard[a].pane) THEN Nothing ELSE win[p]
    BY <1>7, <1>a, <1>c, ClosedKeeps DEF KillWindow
  <2>2. CASE Goes(a, "find") /\ Hears(a, [heard[a] EXCEPT !.pane = Nothing])
    <3>1. \A p \in Pid : win'[p] # Nothing => win'[p].name # call[a].name
      BY <1>7, <2>1, <1>a DEF KillWindow, Now, ClosesOwn, At, In, Open, Placed, InMain
    <3>2. MindsOwn(a)' /\ pc'[a] = "find" /\ call'[a] = call[a]
      BY <2>1, <2>2, <1>a, <1>r, <1>s, GoesMinds
    <3> QED
      BY <2>1, <3>1, <3>2, <1>f
  <2> QED
    BY <1>7, <2>1, <2>2, <1>l DEF KillWindow
<1>8. CASE Find(a)
  <2>1. \A v \in Matching(call[a].name) :
          v \in Pid \X Job /\ v[1] \in Pid /\ (win[v[1]] # Nothing => win[v[1]].name = call[a].name)
    <3> SUFFICES ASSUME NEW v \in Matching(call[a].name)
                 PROVE  /\ v \in Pid \X Job /\ v[1] \in Pid
                        /\ win[v[1]].name = call[a].name
      OBVIOUS
    <3>1. PICK p \in Pid : /\ Busy(p) /\ <<call[a].name, win[p].run.cmd>> \in Comm
                           /\ v = <<p, win[p].run>>
      BY DEF Matching
    <3>2. win[p] # Nothing /\ win[p].run \in Job /\ win[p].run # Nothing
      BY <3>1, <1>a, VictimsType DEF Busy, Open
    <3>3. PICK b \in Agent : \E c \in Calls[b] : c.name = win[p].name /\ c.cmd = win[p].run.cmd
      BY <3>2, <1>a DEF Tidied, Tidy, Mine
    <3>4. call[a].name = win[p].name
      BY <3>1, <3>3, <1>c DEF ServicesAlone
    <3> QED
      BY <3>1, <3>2, <3>4
  <2>2. Matching(call[a].name) \in SUBSET (Pid \X Job)
    BY <2>1
  <2>0. PICK found \in SUBSET Matching(call[a].name) :
           Hears(a, [heard[a] EXCEPT !.victims = found])
    BY <1>8 DEF Find
  <2>3. heard'[a].pid = heard[a].pid /\ heard'[a].victims \subseteq Matching(call[a].name)
    BY <2>0, <2>2, <1>a, <1>h DEF Hears, ScriptsOK
  <2>4. call' = call /\ pc'[a] = "killFound" /\ win' = win
    BY <1>8, <1>a DEF Find, Goes, TargetStays, ScriptsOK
  <2>5. MindsOwn(a)'
    BY <2>1, <2>3, <2>4, <1>a DEF MindsOwn
  <2>6. \A p \in Pid : win'[p] # Nothing => win'[p].name # call[a].name
    BY <1>8, <2>4, <1>a DEF Find, Now, ClosesFirst, Stopped
  <2> QED
    BY <1>8, <2>4, <2>5, <2>6, <1>t, <1>f DEF Find
<1>9. CASE KillFound(a)
  <2>1. Tidied' /\ PlacesStay
    BY <1>9, <1>a, KilledStays DEF KillFound
  <2>2. \A p \in Pid : win'[p] # Nothing => win'[p].name # call[a].name
    BY <1>9, <2>1, <1>a DEF KillFound, Now, ClosesFirst, Stopped, PlacesStay, SamePlace
  <2>3. CASE call[a].op # "stop"
    <3>1. PICK c \in {"readStartup", "sessions"} : Goes(a, c)
      BY <1>9, <2>3 DEF KillFound
    <3>2. Hears(a, [heard[a] EXCEPT !.victims = {}])
      BY <1>9, <2>3 DEF KillFound
    <3>3. MindsOwn(a)' /\ pc'[a] = c /\ call'[a] = call[a]
      BY <2>1, <3>1, <3>2, <1>a, <1>r, <1>s, GoesMinds
    <3> QED
      BY <2>1, <2>2, <3>3, <1>f
  <2> QED
    BY <1>9, <2>1, <2>3, <1>l DEF KillFound
<1> QED
  BY <1>1, <1>2, <1>3, <1>4, <1>5, <1>6, <1>7, <1>8, <1>9 DEF StopStep

LEMMA StartupStepMinds ==
    ASSUME AloneInv, NEW a \in Agent, StartupStep(a)
    PROVE  Tidied' /\ PlacesStay /\ Minds(a)' /\ TypesInOwn(a)'
<1>a. ScriptsOK /\ Tidied /\ Minds(a) /\ pc[a] \in Stopped
  BY DEF AloneInv, WindowInv, TypeOK, StartupStep, ReadStartup, AppendStartup, Now, Stopped
<1>1. UNCHANGED <<win, heard>> /\ (Goes(a, "sessions") \/ Goes(a, "appendStartup"))
  BY DEF StartupStep, ReadStartup, AppendStartup, TargetStays, HearsNothing, tmux
<1>2. call' = call /\ pc'[a] \in {"sessions", "appendStartup"}
  BY <1>a, <1>1 DEF Goes, ScriptsOK
<1> QED
  BY <1>a, <1>1, <1>2, SameKeeps
     DEF Minds, MindsOwn, ClosesOwn, ClosesFirst, MakesFirst, TypesInOwn, Stopped

LEMMA NewWindowMinds ==
    ASSUME ServicesAlone, AloneInv, NEW a \in Agent, pc[a] # "idle", NewWindowOf(a),
           Goes(a, "pane"), HearsNothing
    PROVE  Tidied' /\ Placed' /\ Minds(a)' /\ TypesInOwn(a)'
<1>a. ScriptsOK /\ TmuxTypeOK /\ Tidied /\ Placed /\ MindsOwn(a)
  BY DEF AloneInv, WindowInv, TypeOK, Minds
<1>c. call[a].session = Main /\ Main \in Session
  BY InCall, TmuxecAssumption DEF AloneInv
<1> DEFINE n == call[a].name
           fresh(i) == [session |-> Main, index |-> i, name |-> n, shell |-> "starting",
                        run |-> Nothing, typed |-> << >>, screen |-> Nothing]
<1>1. PICK p \in Pid : Opened(p, Main, n) /\ win[p] = Nothing
  BY <1>c DEF NewWindowOf, Opened, Open
<1>2. PICK i \in 0..Cardinality(Pid) : FreeIndex(Main, i) /\ win' = [win EXCEPT ![p] = fresh(i)]
  BY <1>1 DEF Opened
<1>3. /\ fresh(i).session = Main /\ fresh(i).index = i /\ fresh(i).name = n
      /\ fresh(i).shell = "starting" /\ fresh(i).run = Nothing /\ fresh(i).typed = << >>
      /\ fresh(i).screen = Nothing
  OBVIOUS
<1> HIDE DEF fresh
<1>4. win'[p] = fresh(i) /\ \A q \in Pid : q # p => win'[q] = win[q]
  BY <1>1, <1>2, <1>a DEF TmuxTypeOK
<1>5. front'[Main] = p
  BY <1>1, <1>a, <1>c DEF Opened, TmuxTypeOK
<1>6. \A q \in Pid : q # p /\ win'[q] # Nothing => win'[q].index # i
  BY <1>2, <1>4, <1>a DEF FreeIndex, At, In, Open, Placed, InMain
<1>7. call' = call /\ heard' = heard /\ pc'[a] = "pane"
  BY <1>a DEF Goes, HearsNothing, ScriptsOK
<1>8. Tidied'
  BY <1>3, <1>4, <1>a DEF Tidied, Tidy
<1>9. Placed'
  BY <1>3, <1>4, <1>6, <1>a DEF Placed, InMain, IndexOnce
<1>10. MindsOwn(a)'
  BY <1>3, <1>4, <1>7, <1>a DEF MindsOwn
<1>11. Minds(a)'
  BY <1>7, <1>10 DEF Minds, ClosesOwn, ClosesFirst, MakesFirst, Stopped
<1>12. win'[p] # Nothing
  <2>1. i \in Nat
    BY <1>2, FS_CardinalityType, TmuxAssumption
  <2>2. call[a].name \in Name
    BY InCall DEF AloneInv
  <2>3. fresh(i) \in Window
    BY <2>1, <2>2, <1>c DEF fresh, Window, Screen
  <2> QED
    BY <2>3, <1>4, TmuxecAssumption
<1>13. MadeWindow(a, p)'
  BY <1>3, <1>4, <1>5, <1>7, <1>12 DEF MadeWindow, Fresh
<1> QED
  BY <1>8, <1>9, <1>11, <1>13 DEF TypesInOwn

LEMMA ScreenStepMinds ==
    ASSUME ServicesAlone, AloneInv, NEW a \in Agent, ScreenStep(a)
    PROVE  Tidied' /\ Placed' /\ Minds(a)' /\ TypesInOwn(a)'
<1>a. /\ WindowInv /\ ScriptsOK /\ TmuxTypeOK /\ Tidied /\ Placed
      /\ MindsOwn(a) /\ ClosesFirst(a) /\ MakesFirst(a) /\ TypesInOwn(a)
  BY DEF AloneInv, WindowInv, TypeOK, Minds
<1>b. pc[a] # "idle"
  BY DEF ScreenStep, Sessions, KillSession, NewSession, Windows, NewWindow, Pane, SendKeys,
         Answer, WaitOver, CaptureFails, Now
<1>c. /\ call[a].session = Main /\ call[a].name # Nothing /\ heard[a] \in Heard
      /\ call[a].name \in Name /\ call[a].cmd \in Cmd
      /\ Mine([by |-> a, name |-> call[a].name, cmd |-> call[a].cmd], call[a].name)
  BY <1>a, <1>b, InCall
<1>l. Leaves(a) => Minds(a)' /\ TypesInOwn(a)'
  BY <1>a, LeavesMinds
<1>t. TargetStays => Tidied' /\ Placed' /\ PlacesStay
  BY <1>a, SameKeeps, PlacedStays DEF TargetStays
\* Before the window is made.
<1>f. ASSUME NEW c \in Command, Goes(a, c), HearsNothing, PlacesStay,
             c \in Stopped, c \in {"killSession", "newSession"} => \A p \in Pid : win'[p] = Nothing,
             \A p \in Pid : win[p] # Nothing => win[p].name # call[a].name
      PROVE  Minds(a)' /\ TypesInOwn(a)'
  <2>1. MindsOwn(a)' /\ pc'[a] = c /\ call'[a] = call[a]
    BY <1>f, <1>a, GoesMinds
  <2>2. \A p \in Pid : win'[p] # Nothing => win'[p].name # call[a].name
    BY <1>f DEF PlacesStay, SamePlace
  <2> QED
    BY <1>f, <2>1, <2>2 DEF Minds, ClosesOwn, ClosesFirst, MakesFirst, TypesInOwn, Stopped
<1>s. {"killSession", "newSession", "windows", "newWindow", "pane", "sendKeys", "capture"}
        \subseteq Command
  BY DEF Command, ScreenCommand
<1>1. CASE Sessions(a)
  <2>1. \A p \in Pid : win[p] # Nothing => win[p].name # call[a].name
    BY <1>1, <1>a DEF Sessions, Now, ClosesFirst, Stopped
  <2>2. CASE Exists(Main)
    BY <1>1, <2>1, <2>2, <1>c, <1>s, <1>t, <1>f DEF Sessions, Stopped
  <2>3. CASE ~Exists(Main)
    <3>1. \A p \in Pid : win'[p] = Nothing
      BY <1>1, <2>3, <1>a DEF Sessions, TargetStays, Exists, In, Open, Placed, InMain
    <3> QED
      BY <1>1, <2>1, <2>3, <3>1, <1>c, <1>s, <1>t, <1>f DEF Sessions, Stopped
  <2> QED
    BY <2>2, <2>3
<1>2. CASE KillSession(a)
  <2>1. Tidied' /\ PlacesStay
    BY <1>2, <1>a, ClosedKeeps DEF KillSession
  <2>2. \A p \in Pid : win[p] = Nothing /\ win'[p] = Nothing
    BY <1>2, <2>1, <1>a DEF KillSession, Now, MakesFirst, PlacesStay
  <2> QED
    BY <1>2, <2>1, <2>2, <1>a, <1>s, <1>f, PlacedStays DEF KillSession, Stopped
<1>3. CASE NewSession(a)
  BY <1>3, <1>b, <1>l, <1>t, NewWindowMinds DEF NewSession
<1>4. CASE Windows(a)
  <2>1. \A p \in Pid : win[p] # Nothing => win[p].name # call[a].name
    BY <1>4, <1>a DEF Windows, Now, ClosesFirst, Stopped
  <2>2. Named(Main, call[a].name) = {}
    BY <2>1 DEF Named, In, Open
  <2> QED
    BY <1>4, <2>1, <2>2, <1>c, <1>s, <1>t, <1>f DEF Windows, Stopped
<1>5. CASE NewWindow(a)
  BY <1>5, <1>b, <1>l, <1>t, NewWindowMinds DEF NewWindow
<1>6. CASE Pane(a)
  <2>1. PICK p \in Pid : MadeWindow(a, p)
    BY <1>6, <1>a DEF Pane, Now, TypesInOwn
  <2>2. PaneOf(Main, call[a].name) = {win[p].index} /\ win[p].index \in Nat
    BY <2>1, <1>a, <1>b, OnlyWindow DEF MadeWindow
  <2> DEFINE h == [heard[a] EXCEPT !.pane = win[p].index]
  <2>3. h.pane = win[p].index /\ h.pid = heard[a].pid /\ h.victims = heard[a].victims
    BY <1>c DEF Heard
  <2>4. heard'[a] = h
    BY <1>6, <2>2, <1>a, <1>c DEF Pane, ReadPane, Hears, ScriptsOK
  <2>5. call' = call /\ pc'[a] = "sendKeys" /\ win' = win /\ front' = front
    BY <1>6, <1>a DEF Pane, Goes, TargetStays, ScriptsOK
  <2>6. MindsOwn(a)'
    BY <2>3, <2>4, <2>5, <1>a DEF MindsOwn
  <2>7. Minds(a)'
    BY <2>5, <2>6 DEF Minds, ClosesOwn, ClosesFirst, MakesFirst, Stopped
  <2>8. MadeWindow(a, p)'
    BY <1>6, <2>1, <2>3, <2>4, <2>5 DEF Pane, Now, MadeWindow
  <2> QED
    BY <1>6, <2>7, <2>8, <1>t DEF Pane, TypesInOwn
<1>7. CASE SendKeys(a)
  <2> DEFINE job == [by |-> a, name |-> call[a].name, cmd |-> call[a].cmd]
  <2>1. PICK p \in Pid : MadeWindow(a, p) /\ heard[a].pane = win[p].index /\ Fresh(win[p])
    BY <1>7, <1>a DEF SendKeys, Now, TypesInOwn, MadeWindow
  <2>2. At(Main, heard[a].pane) = {p}
    BY <2>1, <1>a, <1>b, OnlyWindow DEF MadeWindow
  <2>3. job \in Job /\ win[p] \in Window
    BY <2>1, <1>a, <1>c DEF Job, MadeWindow, TmuxTypeOK
  <2>4. /\ win' = [q \in Pid |-> IF q \in {p} THEN Type(win[q], job) ELSE win[q]]
        /\ UNCHANGED front /\ Goes(a, "capture") /\ Hears(a, [heard[a] EXCEPT !.pane = Nothing])
    BY <1>7, <2>2, <1>c DEF SendKeys
  <2> HIDE DEF job
  <2>5. win'[p] = Type(win[p], job) /\ \A q \in Pid : q # p => win'[q] = win[q]
    BY <2>4
  <2>6. /\ SamePlace(win'[p], win[p]) /\ Tidy(win'[p])
        /\ Answers(win'[p]) /\ win'[p].shell # "dead" /\ win'[p] # Nothing
    <3>1. Tidy(win[p]) /\ Mine(job, win[p].name) /\ win[p].shell # "dead"
      BY <2>1, <1>a, <1>c DEF Tidied, MadeWindow, job
    <3>2. win'[p] \in Window /\ SamePlace(win'[p], win[p])
      BY <2>3, <2>5, TypeType
    <3>3. win'[p] # Nothing
      BY <3>2, TmuxecAssumption
    <3> QED
      BY <2>1, <2>3, <2>5, <3>1, <3>2, <3>3, TypeTidy, TypeAnswers
  <2>7. PlacesStay /\ Tidied'
    BY <2>1, <2>5, <2>6, <1>a DEF PlacesStay, Tidied, SamePlace, MadeWindow
  <2>8. MindsOwn(a)' /\ pc'[a] = "capture" /\ call'[a] = call[a]
    <3>1. LET h == [heard[a] EXCEPT !.pane = Nothing]
          IN  h \in Heard /\ h.pid = heard[a].pid /\ h.victims = heard[a].victims
      BY <1>c DEF Heard
    <3> QED
      BY <2>4, <2>7, <3>1, <1>a, <1>s, GoesMinds
  <2>9. Minds(a)'
    BY <2>8 DEF Minds, ClosesOwn, ClosesFirst, MakesFirst, Stopped
  <2>10. MadeWindow(a, p)'
    BY <2>1, <2>4, <2>6, <2>8 DEF MadeWindow, SamePlace
  <2> QED
    BY <2>7, <2>9, <2>10, <1>a, PlacedStays DEF TypesInOwn
<1>8. CASE Answer(a) \/ WaitOver(a) \/ CaptureFails(a)
  BY <1>8, <1>l, <1>t DEF Answer, WaitOver, CaptureFails
<1> QED
  BY <1>1, <1>2, <1>3, <1>4, <1>5, <1>6, <1>7, <1>8 DEF ScreenStep

-------------------------------------------------------------------------------
(* The target by itself, and a reboot. *)

LEMMA OnTargetMinds ==
    ASSUME ServicesAlone, AloneInv, OnTarget
    PROVE  /\ Tidied' /\ PlacesStay
           /\ \A a \in Agent : Minds(a)' /\ TypesInOwn(a)'
<1>a. /\ TmuxTypeOK /\ Tidied /\ Placed /\ \A a \in Agent : Minds(a) /\ TypesInOwn(a)
      /\ UNCHANGED <<startup, call, pc, heard>>
  BY DEF AloneInv, WindowInv, TypeOK, OnTarget
<1>1. PICK p \in Pid : ShellStarts(p) \/ JobEnds(p) \/ ScrollsAway(p) \/ Reap(p)
  BY DEF OnTarget, TargetStep
<1>2. win[p] # Nothing /\ win[p] \in Window /\ Tidy(win[p])
  BY <1>1, <1>a DEF ShellStarts, JobEnds, ScrollsAway, Reap, Busy, Open, TmuxTypeOK, Tidied
\* A window whose contents change stays where it is.
<1>3. ASSUME NEW w \in Window, SamePlace(w, win[p]), Tidy(w), w.shell = "ready",
             win' = [win EXCEPT ![p] = w], UNCHANGED front,
             Fresh(win[p]) => Fresh(w), Answers(win[p]) => Answers(w)
      PROVE  Tidied' /\ PlacesStay /\ \A a \in Agent : TypesInOwn(a)'
  <2>1. win'[p] = w /\ w # Nothing /\ \A q \in Pid : q # p => win'[q] = win[q]
    BY <1>3, <1>a, TmuxecAssumption DEF TmuxTypeOK
  <2>2. Tidied' /\ PlacesStay
    BY <2>1, <1>2, <1>3, <1>a DEF Tidied, PlacesStay, SamePlace
  <2>3. ASSUME NEW a \in Agent, pc'[a] \in {"pane", "sendKeys", "capture"}
        PROVE  \E q \in Pid : MadeWindow(a, q)'
    <3>1. PICK q \in Pid : MadeWindow(a, q)
      BY <2>3, <1>a DEF TypesInOwn
    <3>2. CASE q # p
      BY <2>1, <3>1, <3>2, <1>3, <1>a DEF MadeWindow
    <3>3. CASE q = p
      BY <2>1, <3>1, <3>3, <1>3, <1>a DEF MadeWindow, SamePlace
    <3> QED
      BY <3>2, <3>3
  <2> QED
    BY <2>2, <2>3 DEF TypesInOwn
<1>4. Tidied' /\ PlacesStay /\ \A a \in Agent : TypesInOwn(a)'
  <2>1. CASE ShellStarts(p)
    BY <2>1, <1>2, <1>3, PromptType, PromptTidy, PromptAnswers DEF ShellStarts
  <2>2. CASE JobEnds(p)
    <3>1. PICK r \in {"ok", "error"} : win' = [win EXCEPT ![p] = Ended(win[p], r)]
      BY <2>2 DEF JobEnds
    <3>2. win[p].shell = "ready" /\ win[p].run # Nothing /\ UNCHANGED front
      BY <2>2 DEF JobEnds, Busy
    <3>3. Ended(win[p], r).shell = "ready"
      BY DEF Ended, Prompt, Window
    <3>4. ~Fresh(win[p])
      BY <3>2 DEF Fresh
    <3> QED
      BY <3>1, <3>2, <3>3, <3>4, <1>2, <1>3, EndedType, EndedTidy, EndedAnswers
  <2>3. CASE ScrollsAway(p)
    <3> DEFINE w == [win[p] EXCEPT !.screen = Nothing]
    <3>1. win' = [win EXCEPT ![p] = w] /\ UNCHANGED front
      BY <2>3 DEF ScrollsAway
    <3>2. win[p].shell = "ready" /\ win[p].run # Nothing
      BY <2>3 DEF ScrollsAway, Busy
    <3>3. /\ w \in Window /\ w.shell = "ready" /\ SamePlace(w, win[p])
          /\ w.run = win[p].run /\ w.typed = win[p].typed /\ w.screen = Nothing
      BY <1>2, <3>2 DEF Window, Screen, SamePlace
    <3>4. Tidy(w)
      BY <1>2, <3>3 DEF Tidy, SamePlace
    <3>5. (Fresh(win[p]) => Fresh(w)) /\ (Answers(win[p]) => Answers(w))
      <4>1. Nothing # {"error"}
        BY TmuxecAssumption
      <4> QED
        BY <3>2, <3>3, <4>1 DEF Fresh, Answers
    <3> HIDE DEF w
    <3> QED
      BY <1>3, <3>1, <3>3, <3>4, <3>5
  <2>4. CASE Reap(p)
    <3>1. /\ Tidied' /\ PlacesStay
          /\ \A q \in Pid : win'[q] = IF q \in {p} THEN Nothing ELSE win[q]
      BY <2>4, <1>a, ClosedKeeps DEF Reap
    <3>2. front[Main] # p => front'[Main] = front[Main]
      BY <2>4, <1>2, <1>a, TmuxecAssumption DEF Reap, Closed, Placed, InMain, TmuxTypeOK
    <3>3. ASSUME NEW a \in Agent, pc'[a] \in {"pane", "sendKeys", "capture"}
          PROVE  \E q \in Pid : MadeWindow(a, q)'
      <4>1. PICK q \in Pid : MadeWindow(a, q)
        BY <3>3, <1>a DEF TypesInOwn
      <4>2. q # p
        BY <2>4, <4>1 DEF Reap, MadeWindow
      <4> QED
        BY <3>1, <3>2, <4>1, <4>2, <1>a DEF MadeWindow
    <3> QED
      BY <3>1, <3>3 DEF TypesInOwn
  <2> QED
    BY <1>1, <2>1, <2>2, <2>3, <2>4
<1>5. \A a \in Agent : Minds(a)'
  BY <1>4, <1>a
     DEF Minds, MindsOwn, ClosesOwn, ClosesFirst, MakesFirst, PlacesStay, SamePlace
<1> QED
  BY <1>4, <1>5

LEMMA RebootMinds ==
    ASSUME AloneInv, Reboot
    PROVE  /\ Tidied' /\ Placed'
           /\ \A a \in Agent : Minds(a)' /\ TypesInOwn(a)'
<1>1. startup \in Seq(Name \X Cmd) /\ StartupKnown
  BY DEF AloneInv, WindowInv, TypeOK
<1>2. PICK line \in [Pid -> 0..Len(startup)] :
        /\ \A p \in Pid : win'[p] \in {StartupWindow(line[p]), Nothing}
        /\ \A p, q \in Pid :
             win'[p] # Nothing /\ win'[q] # Nothing /\ line[p] = line[q] => p = q
  BY <1>1, RebootWindows
<1>3. Placed'
  BY <1>1, <1>2, StartupWindowType DEF Placed, InMain, IndexOnce
<1>4. ASSUME NEW p \in Pid, win'[p] # Nothing
      PROVE  Tidy(win'[p])
  <2> DEFINE i == line[p]
  <2>1. win'[p] = StartupWindow(i) /\ i \in 0..Len(startup)
    BY <1>2, <1>4
  <2>2. CASE i = 0
    BY <2>1, <2>2 DEF StartupWindow, Tidy
  <2>3. CASE i # 0
    <3>1. i \in DOMAIN startup
      BY <2>1, <2>3, <1>1
    <3>2. PICK b \in Agent : \E c \in Calls[b] : startup[i] = <<c.name, c.cmd>>
      BY <3>1, <1>1 DEF StartupKnown
    <3>3. PICK c \in Calls[b] : startup[i][1] = c.name /\ startup[i][2] = c.cmd
      BY <3>2
    <3>4. /\ win'[p].name = c.name /\ win'[p].typed = << >>
          /\ win'[p].run = [by |-> Nothing, name |-> c.name, cmd |-> c.cmd]
      BY <2>1, <2>3, <3>3 DEF StartupWindow
    <3> QED
      BY <3>4 DEF Tidy, Mine
  <2> QED
    BY <2>2, <2>3
<1>5. ASSUME NEW a \in Agent PROVE Minds(a)' /\ TypesInOwn(a)'
  <2>1. pc'[a] = "idle" /\ heard'[a].pid = Nothing /\ heard'[a].victims = {}
    BY DEF Reboot, Silence
  <2> QED
    BY <2>1, TmuxAssumption
       DEF Minds, MindsOwn, ClosesOwn, ClosesFirst, MakesFirst, TypesInOwn, Stopped
<1> QED
  BY <1>3, <1>4, <1>5 DEF Tidied

-------------------------------------------------------------------------------
(* The invariant. *)

LEMMA AloneInit ==
    ASSUME Init
    PROVE  AloneInv
<1>1. /\ \A p \in Pid : win[p] = Nothing
      /\ \A a \in Agent : pc[a] = "idle"
  BY DEF Init, TmuxInit
<1> QED
  BY <1>1, WindowInvInit
     DEF AloneInv, Tidied, Placed, InMain, IndexOnce, Minds, MindsOwn, ClosesOwn, ClosesFirst,
         MakesFirst, TypesInOwn, Stopped

LEMMA AloneNext ==
    ASSUME NamesApart, ServicesAlone, AloneInv, [Next]_vars
    PROVE  AloneInv'
<1>a. /\ WindowInv /\ ScriptsOK /\ Tidied /\ Placed
      /\ \A a \in Agent : Minds(a) /\ TypesInOwn(a)
  BY DEF AloneInv, WindowInv, TypeOK
<1>w. WindowInv'
  BY <1>a, WindowInvNext
<1>1. ASSUME NEW a \in Agent, Tidied', Placed', Minds(a)', TypesInOwn(a)'
      PROVE  AloneInv'
  BY <1>1, <1>w DEF AloneInv, ServicesAlone
<1>2. ASSUME NEW a \in Agent, Begin(a) PROVE AloneInv'
  <2>1. UNCHANGED <<win, heard>> /\ heard[a] = Silence
    BY <1>2, <1>a DEF Begin, HearsNothing, TargetStays, Now, ScriptsOK
  <2>2. PICK c \in Calls[a] : pc' = [pc EXCEPT ![a] = IF c.op = "execute" THEN "sessions" ELSE "list"]
    BY <1>2 DEF Begin
  <2>3. pc'[a] = "list"
    BY <2>2, <1>a DEF ServicesAlone, ScriptsOK
  <2>4. Tidied' /\ Placed'
    BY <2>1, <1>a, SameKeeps, PlacedStays
  <2>5. Minds(a)' /\ TypesInOwn(a)'
    BY <2>1, <2>3, TmuxAssumption
       DEF Minds, MindsOwn, ClosesOwn, ClosesFirst, MakesFirst, TypesInOwn, Stopped, Silence
  <2> QED
    BY <1>1, <2>4, <2>5
<1>3. ASSUME NEW a \in Agent, Crash(a) PROVE AloneInv'
  BY <1>1, <1>3, <1>a, SameKeeps, PlacedStays, LeavesMinds DEF Crash, TargetStays
<1>4. ASSUME NEW a \in Agent, Works(a) PROVE AloneInv'
  BY <1>1, <1>4, <1>a, StopStepMinds, StartupStepMinds, ScreenStepMinds, PlacedStays DEF Works
<1>5. CASE OnTarget
  BY <1>5, <1>a, <1>w, OnTargetMinds, PlacedStays DEF AloneInv
<1>6. CASE Reboot
  BY <1>6, <1>w, RebootMinds DEF AloneInv
<1>7. CASE UNCHANGED vars
  BY <1>7, <1>a, <1>w
     DEF vars, AloneInv, Tidied, Placed, InMain, IndexOnce, Minds, MindsOwn, ClosesOwn,
         ClosesFirst, MakesFirst, TypesInOwn, MadeWindow
<1> QED
  BY <1>2, <1>3, <1>4, <1>5, <1>6, <1>7 DEF Next

-------------------------------------------------------------------------------
(* What follows. *)

LEMMA AloneFailure ==
    ASSUME ServicesAlone, AloneInv
    PROVE  ErrorIsReal
<1> SUFFICES ASSUME NEW a \in Agent, Now(a, "capture"), {"error"} \in Seen, Pending(a)
             PROVE  FALSE
  BY DEF ErrorIsReal
<1>a. WindowInv /\ Tidied /\ Placed /\ TypesInOwn(a) /\ pc[a] = "capture" /\ pc[a] # "idle"
  BY DEF AloneInv, Now
<1>1. PICK p \in Pid : MadeWindow(a, p)
  BY <1>a DEF TypesInOwn
<1>2. win[p].screen = {"error"}
  BY <1>1, <1>a DEF Seen, Exists, In, Open, Placed, InMain, MadeWindow
<1>3. win[p].run = Nothing /\ win[p].typed = << >>
  <2>1. {"error"} # {}
    OBVIOUS
  <2> QED
    BY <1>1, <1>2, <1>a, <2>1 DEF MadeWindow, Answers
<1> DEFINE job == [by |-> a, name |-> call[a].name, cmd |-> call[a].cmd]
<1>4. PICK q \in Open : win[q].run = job \/ \E i \in DOMAIN win[q].typed : win[q].typed[i] = job
  BY DEF Pending
<1>5. job.name = call[a].name /\ job # Nothing
  <2>1. job \in Job
    BY <1>a, InCall DEF Job
  <2> QED
    BY <2>1, TmuxecAssumption
<1> HIDE DEF job
<1>6. q \in Pid /\ win[q] # Nothing /\ win[q].name = call[a].name
  BY <1>4, <1>5, <1>a DEF Open, Tidied, Tidy, Mine
<1>7. q = p
  BY <1>1, <1>6, <1>a, OnlyWindow DEF MadeWindow, Named, In, Open, Placed, InMain
<1> QED
  BY <1>3, <1>4, <1>5, <1>7

LEMMA AloneHarms ==
    ASSUME ServicesAlone, AloneInv, NEW a \in Agent, Works(a), NEW p \in Pid, Harms(p)
    PROVE  win[p].name = call[a].name
<1>a. /\ WindowInv /\ TmuxTypeOK /\ Tidied /\ Placed /\ Minds(a) /\ TypesInOwn(a)
      /\ win[p] # Nothing
  BY DEF AloneInv, WindowInv, TypeOK, Harms, Open
<1>1. CASE win'[p] = win[p]
  BY <1>1, <1>a DEF Harms
<1>2. CASE KillChildren(a) \/ KillFound(a)
  <2>1. <<p, win[p].run>> \in heard[a].victims \/ win'[p] = win[p]
    BY <1>2 DEF KillChildren, KillFound, Killed
  <2>2. <<p, win[p].run>>[1] = p
    OBVIOUS
  <2> QED
    BY <1>1, <2>1, <2>2, <1>a DEF Minds, MindsOwn
<1>3. CASE KillShell(a)
  <2>1. p = heard[a].pid \/ win'[p] = win[p]
    BY <1>3, <1>a DEF KillShell, TargetStays, TmuxTypeOK
  <2> QED
    BY <1>1, <2>1, <1>a DEF Minds, MindsOwn
<1>4. CASE KillWindow(a)
  <2>1. p \in At(call[a].session, heard[a].pane) \/ win'[p] = win[p]
    BY <1>4 DEF KillWindow, Closed
  <2> QED
    BY <1>1, <1>4, <2>1, <1>a DEF KillWindow, Now, Minds, ClosesOwn, At, In
<1>5. CASE KillSession(a)
  BY <1>5, <1>a DEF KillSession, Now, Minds, MakesFirst
<1>6. CASE NewSession(a) \/ NewWindow(a)
  <2>1. CASE NewWindowOf(a)
    <3>1. PICK q : /\ q \in Pid \ Open
                   /\ \E w : win' = [win EXCEPT ![q] = w]
      BY <2>1 DEF NewWindowOf, Opened
    <3>2. p # q
      BY <3>1, <1>a DEF Open
    <3> QED
      BY <3>1, <3>2, <1>1, <1>a DEF TmuxTypeOK
  <2> QED
    BY <1>1, <1>6, <2>1 DEF NewSession, NewWindow, TargetStays
<1>7. CASE SendKeys(a)
  <2>1. PICK q \in Pid : MadeWindow(a, q) /\ heard[a].pane = win[q].index
    BY <1>7, <1>a DEF SendKeys, Now, TypesInOwn, MadeWindow
  <2>2. pc[a] # "idle"
    BY <1>7 DEF SendKeys, Now
  <2>3. At(call[a].session, heard[a].pane) = {q} /\ win[q].name = call[a].name
    BY <2>1, <2>2, <1>a, OnlyWindow, InCall DEF MadeWindow
  <2>4. p = q \/ win'[p] = win[p]
    BY <1>7, <2>3 DEF SendKeys, TargetStays
  <2> QED
    BY <1>1, <2>3, <2>4
<1>8. CASE UNCHANGED win
  BY <1>1, <1>8
<1> QED
  BY <1>2, <1>3, <1>4, <1>5, <1>6, <1>7, <1>8
     DEF Works, StopStep, StartupStep, ScreenStep, List, GetPid, Pgrep, DoomedPane, Find,
         ReadStartup, AppendStartup, Sessions, Windows, Pane, Answer, WaitOver,
         CaptureFails, TargetStays, tmux

\* One script that starts its services with ensure reads no **ERROR** but that of
\* its own command, which has ended (lines 131 to 161 of PrefabTmux.py): the window
\* that it reads is the one it has made for this command.  (When its time is up it is
\* told of a failure as well, lines 163 to 180: of that nothing is said.)
THEOREM ErrorsAreReal ==
    ASSUME NamesApart, ServicesAlone
    PROVE  Spec => []ErrorIsReal
<1>1. AloneInv /\ [Next]_vars => AloneInv'
  BY AloneNext
<1>2. AloneInv => ErrorIsReal
  BY AloneFailure
<1>3. Init => AloneInv
  BY AloneInit
<1> QED
  BY <1>1, <1>2, <1>3, PTL DEF Spec

\* And its calls take away nothing but the window, the shell and the command of
\* the service they are for, although they go by pids, indexes and names that
\* were printed some commands, deaths of windows or failures earlier.
THEOREM OwnWindowsOnly ==
    ASSUME NamesApart, ServicesAlone
    PROVE  Spec => OnlyOwnWindows
<1>1. AloneInv /\ [Next]_vars => AloneInv'
  BY AloneNext
<1>2. AloneInv =>
        \A a \in Agent, p \in Pid : Works(a) /\ Harms(p) => win[p].name = call[a].name
  BY AloneHarms
<1>3. Init => AloneInv
  BY AloneInit
<1> QED
  BY <1>1, <1>2, <1>3, PTL DEF Spec, OnlyOwnWindows

-------------------------------------------------------------------------------
(* That PrefabServices is implemented.  Beside AloneInv this needs that no  *)
(* window has more than one command, and which calls start a service.       *)

Sole(w) == Lines(w) \in {0, 1} /\ (w.shell = "starting" => w.run = Nothing)
AllSole == \A p \in Pid : win[p] # Nothing => Sole(win[p])
Serves(a) ==
    /\ pc[a] \in StartupCommand \cup ScreenCommand => call[a].op = "ensure"
    /\ pc[a] \in StartupCommand => call[a].autostart
    /\ pc[a] \in {"find", "killFound"} => call[a].op # "remove"

ServiceInv ==
    /\ AloneInv /\ StartsAgain /\ AllSole
    /\ \A a \in Agent : Serves(a)

\* What the steps make of the status of one window.
LEMMA LinesAre ==
    ASSUME NEW w \in Window
    PROVE  /\ Lines(w) \in Nat
           /\ Lines(w) = 0 <=> w.typed = << >> /\ w.run = Nothing
           /\ Lines(w) = 1 /\ w.run # Nothing => w.typed = << >>
           /\ w.typed = << >> /\ w.run # Nothing => Lines(w) = 1
<1>1. w.typed \in Seq(Job) /\ Len(w.typed) \in Nat
  BY DEF Window
<1>2. Len(w.typed) = 0 <=> w.typed = << >>
  BY <1>1, EmptySeq
<1> DEFINE typed == Len(w.typed)
<1>3. Lines(w) = typed + (IF w.run = Nothing THEN 0 ELSE 1) /\ typed \in Nat
  BY <1>1 DEF Lines
<1>4. typed = 0 <=> w.typed = << >>
  BY <1>2
<1> HIDE DEF typed
<1>5. CASE w.run = Nothing
  BY <1>3, <1>4, <1>5
<1>6. CASE w.run # Nothing
  BY <1>3, <1>4, <1>6
<1> QED
  BY <1>5, <1>6

LEMMA StartsStatus ==
    ASSUME NEW w \in Window, Sole(w), w.shell = "starting"
    PROVE  Sole(Prompt(w)) /\ StatusOf(Prompt(w)) = StatusOf(w)
<1>0. w.run = Nothing /\ w.typed \in Seq(Job) /\ Prompt(w) \in Window
  BY PromptType DEF Sole, Window
<1>1. CASE w.typed = << >>
  <2>1. Prompt(w).shell = "ready" /\ Prompt(w).run = Nothing /\ Prompt(w).typed = << >>
    BY <1>1 DEF Prompt, Window
  <2>2. Lines(Prompt(w)) = 0 /\ Lines(w) = 0
    BY <1>0, <1>1, <2>1, LinesAre
  <2> QED
    BY <2>1, <2>2 DEF Sole, StatusOf
<1>2. CASE w.typed # << >>
  <2>1. /\ Prompt(w).shell = "ready" /\ Prompt(w).run = Head(w.typed)
        /\ Prompt(w).typed = Tail(w.typed)
    BY <1>2 DEF Prompt, Window
  <2>2. Head(w.typed) \in Job /\ Len(Tail(w.typed)) = Len(w.typed) - 1 /\ Len(w.typed) \in Nat
    BY <1>0, <1>2
  <2>3. Head(w.typed) # Nothing
    BY <2>2, TmuxecAssumption
  <2>4. Lines(Prompt(w)) = Lines(w)
    BY <1>0, <2>1, <2>2, <2>3 DEF Lines
  <2> QED
    BY <2>1, <2>4 DEF Sole, StatusOf
<1> QED
  BY <1>1, <1>2

LEMMA EndsStatus ==
    ASSUME NEW w \in Window, Sole(w), w.shell = "ready", w.run # Nothing, NEW r \in {"ok", "error"}
    PROVE  /\ Sole(Ended(w, r))
           /\ StatusOf(w) = "busy" /\ StatusOf(Ended(w, r)) = "idle"
<1>1. w.typed = << >> /\ Lines(w) = 1
  BY LinesAre DEF Sole
<1> DEFINE v == [w EXCEPT !.screen = IF w.run.by = Nothing THEN w.screen
                                     ELSE Shows(w.screen, r)]
<1>2. v.typed = << >> /\ Ended(w, r) = [v EXCEPT !.shell = "ready", !.run = Nothing]
  BY <1>1 DEF Ended, Prompt, Window
<1>3. Ended(w, r).typed = << >> /\ Ended(w, r).run = Nothing /\ Ended(w, r).shell = "ready"
  BY <1>2 DEF Window
<1>4. Lines(Ended(w, r)) = 0
  BY <1>3, EndedType, LinesAre
<1> QED
  BY <1>1, <1>3, <1>4 DEF Sole, StatusOf

LEMMA TypesStatus ==
    ASSUME NEW w \in Window, Sole(w), Fresh(w), w.shell # "dead", NEW job \in Job
    PROVE  /\ Sole(Type(w, job))
           /\ StatusOf(w) = "idle" /\ StatusOf(Type(w, job)) = "busy"
<1>1. Lines(w) = 0 /\ job # Nothing
  BY LinesAre, TmuxecAssumption DEF Fresh
<1>2. CASE w.shell = "ready"
  <2>1. /\ Type(w, job).run = job /\ Type(w, job).typed = << >>
        /\ Type(w, job).shell = "ready"
    BY <1>2 DEF Type, Fresh, Window
  <2>2. Lines(Type(w, job)) = 1
    BY <1>1, <2>1, TypeType, LinesAre
  <2> QED
    BY <1>1, <1>2, <2>1, <2>2 DEF Sole, StatusOf
<1>3. CASE w.shell = "starting"
  <2>1. /\ Type(w, job).run = Nothing /\ Type(w, job).shell = "starting"
        /\ Type(w, job).typed = Append(<< >>, job)
    BY <1>3 DEF Type, Fresh, Window
  <2>2. Len(Append(<< >>, job)) = 1
    OBVIOUS
  <2>3. Lines(Type(w, job)) = 1
    BY <2>1, <2>2 DEF Lines
  <2> QED
    BY <1>1, <1>3, <2>1, <2>3 DEF Sole, StatusOf
<1> QED
  BY <1>2, <1>3 DEF Window

\* The status of a service is that of its window.
LEMMA StatusNone ==
    ASSUME NEW w, NEW n, \A p \in Pid : w[p] # Nothing => w[p].name # n
    PROVE  StatusIn(w, n) = "none"
BY DEF StatusIn

LEMMA StatusOne ==
    ASSUME NEW w, NEW n, NEW p \in Pid, w[p] # Nothing, w[p].name = n,
           \A q \in Pid : w[q] # Nothing /\ w[q].name = n => q = p
    PROVE  StatusIn(w, n) = StatusOf(w[p])
<1> DEFINE mine == {q \in Pid : w[q] # Nothing /\ w[q].name = n}
<1>1. mine = {p}
  OBVIOUS
<1>2. (CHOOSE q \in mine : TRUE) = p /\ mine # {} /\ \E q \in mine : mine = {q}
  BY <1>1
<1>3. StatusIn(w, n) = IF mine = {} THEN "none"
                       ELSE IF \E q \in mine : mine = {q}
                            THEN StatusOf(w[CHOOSE q \in mine : TRUE]) ELSE "several"
  BY DEF StatusIn
<1> HIDE DEF mine
<1> QED
  BY <1>2, <1>3

LEMMA StatusSame ==
    ASSUME NEW w, NEW v, NEW n,
           \A p \in Pid : (w[p] # Nothing /\ w[p].name = n) \/ (v[p] # Nothing /\ v[p].name = n)
                          => v[p] = w[p]
    PROVE  StatusIn(v, n) = StatusIn(w, n)
<1> DEFINE mine(u) == {q \in Pid : u[q] # Nothing /\ u[q].name = n}
<1>1. mine(v) = mine(w) /\ \A p \in mine(w) : v[p] = w[p]
  OBVIOUS
<1>2. \A u : StatusIn(u, n) = IF mine(u) = {} THEN "none"
                              ELSE IF \E q \in mine(u) : mine(u) = {q}
                                   THEN StatusOf(u[CHOOSE q \in mine(u) : TRUE]) ELSE "several"
  BY DEF StatusIn
<1>3. mine(w) # {} => (CHOOSE q \in mine(w) : TRUE) \in mine(w)
  OBVIOUS
<1> HIDE DEF mine
<1>4. mine(w) # {} => v[CHOOSE q \in mine(w) : TRUE] = w[CHOOSE q \in mine(w) : TRUE]
  BY <1>1, <1>3
<1> QED
  BY <1>1, <1>2, <1>4

LEMMA StatusesNext ==
    /\ Statuses = [n \in Name |-> StatusIn(win, n)]
    /\ Statuses' = [n \in Name |-> StatusIn(win', n)]
BY DEF Statuses, StatusIn

\* A step that touches no window but one of service n.
LEMMA StatusesBecome ==
    ASSUME NEW n \in Name, NEW p \in Pid,
           win[p] # Nothing => win[p].name = n, win'[p] # Nothing => win'[p].name = n,
           \A q \in Pid : q # p => win'[q] = win[q]
    PROVE  Statuses' = [Statuses EXCEPT ![n] = StatusIn(win', n)]
<1>1. ASSUME NEW k \in Name, k # n
      PROVE  StatusIn(win', k) = StatusIn(win, k)
  <2>1. \A q \in Pid : (win[q] # Nothing /\ win[q].name = k) \/ (win'[q] # Nothing /\ win'[q].name = k)
                       => win'[q] = win[q]
    BY <1>1
  <2> QED
    BY <2>1, StatusSame
<1> QED
  BY <1>1, StatusesNext

\* A step that changes or closes one window, and what that is for its service.
LEMMA OneChanges ==
    ASSUME WindowInv, Placed, NEW p \in Pid, win[p] # Nothing,
           \A q \in Pid : q # p => win'[q] = win[q],
           win'[p] # Nothing => win'[p].name = win[p].name
    PROVE  /\ win[p].name \notin Name => Statuses' = Statuses
           /\ win[p].name \in Name =>
                /\ Statuses[win[p].name] = StatusOf(win[p])
                /\ Statuses' = [Statuses EXCEPT ![win[p].name] =
                                  IF win'[p] = Nothing THEN "none" ELSE StatusOf(win'[p])]
<1> DEFINE n == win[p].name
<1>1. CASE n \notin Name
  <2>1. ASSUME NEW k \in Name
        PROVE  StatusIn(win', k) = StatusIn(win, k)
    BY <1>1, StatusSame
  <2> QED
    BY <1>1, <2>1, StatusesNext
<1>2. CASE n \in Name
  <2>1. \A q \in Pid : win[q] # Nothing /\ win[q].name = n => q = p
    BY <1>2, TmuxAssumption DEF WindowInv, OneWindow, Placed, InMain, Open
  <2>2. StatusIn(win, n) = StatusOf(win[p])
    BY <2>1, StatusOne
  <2>3. CASE win'[p] = Nothing
    <3>1. \A q \in Pid : win'[q] # Nothing => win'[q].name # n
      BY <2>1, <2>3
    <3>2. StatusIn(win', n) = "none"
      BY <3>1, StatusNone
    <3> QED
      BY <1>2, <2>2, <2>3, <3>2, StatusesBecome, StatusesNext
  <2>4. CASE win'[p] # Nothing
    <3>1. win'[p].name = n /\ \A q \in Pid : win'[q] # Nothing /\ win'[q].name = n => q = p
      BY <2>1, <2>4
    <3>2. StatusIn(win', n) = StatusOf(win'[p])
      BY <2>4, <3>1, StatusOne
    <3> QED
      BY <1>2, <2>2, <2>4, <3>2, StatusesBecome, StatusesNext
  <2> QED
    BY <2>3, <2>4
<1> QED
  BY <1>1, <1>2

LEMMA StatusesStay ==
    ASSUME \A p \in Pid : win'[p] = win[p]
    PROVE  Statuses' = Statuses
<1>1. \A n : StatusIn(win', n) = StatusIn(win, n)
  BY StatusSame
<1> QED
  BY <1>1, StatusesNext

LEMMA RegisteredStays ==
    ASSUME UNCHANGED startup
    PROVE  Registered' = Registered
BY DEF Registered

\* A step that callers see nothing of but the end of a call.
LEMMA QuietStep ==
    ASSUME \A p \in Pid : win'[p] = win[p], UNCHANGED startup,
           NEW a \in Agent, call[a] # Nothing, call' \in {call, [call EXCEPT ![a] = Nothing]}
    PROVE  [Services!Next]_(Services!vars)
<1>1. Statuses' = Statuses /\ Registered' = Registered
  BY StatusesStay, RegisteredStays
<1>2. CASE call' = call
  BY <1>1, <1>2 DEF Services!vars
<1>3. CASE call' = [call EXCEPT ![a] = Nothing]
  <2>1. Services!Leave(a)
    BY <1>1, <1>3 DEF Services!Leave, Services!InCall, Services!Ended
  <2> QED
    BY <2>1 DEF Services!Next, Services!Act
<1> QED
  BY <1>2, <1>3

-------------------------------------------------------------------------------
(* Steps that take something away: only from the service of the call. *)

TakesOwn(a) ==
    \/ \A p \in Pid : win'[p] = win[p]
    \/ \E p \in Pid :
         /\ win[p] # Nothing /\ win[p].name = call[a].name
         /\ \A q \in Pid : q # p => win'[q] = win[q]
         /\ \/ win'[p] = Nothing
            \/ /\ win'[p] # Nothing /\ win'[p].name = win[p].name /\ Sole(win'[p])
               /\ \/ StatusOf(win'[p]) = "dead"
                  \/ StatusOf(win[p]) = "busy" /\ StatusOf(win'[p]) = "idle"

LEMMA OwnOnce ==
    ASSUME ServicesAlone, WindowInv, Placed, NEW a \in Agent, pc[a] # "idle",
           NEW p \in Pid, win[p] # Nothing, win[p].name = call[a].name,
           NEW q \in Pid, win[q] # Nothing, win[q].name = call[a].name
    PROVE  p = q
<1>1. Named(Main, call[a].name) = {p}
  BY OnlyWindow
<1>2. q \in Named(Main, call[a].name)
  BY DEF Named, In, Open, Placed, InMain
<1> QED
  BY <1>1, <1>2

LEMMA KillsOwn ==
    ASSUME ServicesAlone, ServiceInv, NEW a \in Agent, pc[a] # "idle",
           win' = Killed(heard[a].victims)
    PROVE  TakesOwn(a)
<1>a. WindowInv /\ TmuxTypeOK /\ Placed /\ MindsOwn(a) /\ AllSole
  BY DEF ServiceInv, AloneInv, WindowInv, TypeOK, Minds
<1> DEFINE hit(p) == Busy(p) /\ <<p, win[p].run>> \in heard[a].victims
<1>1. \A p \in Pid : win'[p] = IF hit(p) THEN Ended(win[p], "error") ELSE win[p]
  BY DEF Killed
<1>2. ASSUME NEW p \in Pid, hit(p)
      PROVE  /\ win[p] # Nothing /\ win[p].name = call[a].name
             /\ win[p].shell = "ready" /\ win[p].run # Nothing /\ win[p] \in Window
  <2>1. <<p, win[p].run>>[1] = p
    OBVIOUS
  <2> QED
    BY <1>2, <1>a, <2>1 DEF MindsOwn, Busy, Open, TmuxTypeOK
<1> HIDE DEF hit
<1>3. CASE \A p \in Pid : ~hit(p)
  BY <1>1, <1>3 DEF TakesOwn
<1>4. ASSUME NEW p \in Pid, hit(p) PROVE TakesOwn(a)
  <2>1. \A q \in Pid : q # p => ~hit(q)
    BY <1>2, <1>4, <1>a, OwnOnce
  <2>2. \A q \in Pid : q # p => win'[q] = win[q]
    BY <1>1, <2>1
  <2>3. win'[p] = Ended(win[p], "error") /\ Sole(win[p])
    BY <1>1, <1>2, <1>4, <1>a DEF AllSole
  <2>4. win'[p] \in Window /\ win'[p].name = win[p].name
    BY <1>2, <1>4, <2>3, EndedType DEF SamePlace
  <2>5. win'[p] # Nothing
    BY <2>4, TmuxecAssumption
  <2>6. Sole(win'[p]) /\ StatusOf(win[p]) = "busy" /\ StatusOf(win'[p]) = "idle"
    BY <1>2, <1>4, <2>3, EndsStatus
  <2> QED
    BY <1>2, <1>4, <2>2, <2>4, <2>5, <2>6 DEF TakesOwn
<1> QED
  BY <1>3, <1>4

LEMMA StopTakesOwn ==
    ASSUME ServicesAlone, ServiceInv, NEW a \in Agent, StopStep(a)
    PROVE  TakesOwn(a)
<1>a. /\ WindowInv /\ TmuxTypeOK /\ ScriptsOK /\ Placed /\ MindsOwn(a) /\ ClosesOwn(a)
      /\ AllSole
  BY DEF ServiceInv, AloneInv, WindowInv, TypeOK, Minds
<1>b. pc[a] # "idle"
  BY DEF StopStep, List, GetPid, Pgrep, KillChildren, KillShell, DoomedPane, KillWindow, Find,
         KillFound, Now
<1>1. CASE UNCHANGED win
  BY <1>1 DEF TakesOwn
<1>2. CASE KillChildren(a) \/ KillFound(a)
  BY <1>2, <1>b, KillsOwn DEF KillChildren, KillFound
<1>3. CASE KillShell(a)
  <2> DEFINE p == heard[a].pid
  <2>1. CASE p \in Open
    <3>1. /\ p \in Pid /\ win[p] # Nothing /\ win[p] \in Window
          /\ win' = [win EXCEPT ![p].shell = "dead"]
      BY <1>3, <2>1, <1>a DEF KillShell, Open, TmuxTypeOK
    <3>2. win[p].name = call[a].name
      BY <3>1, <1>a DEF MindsOwn
    <3>3. win'[p] = [win[p] EXCEPT !.shell = "dead"] /\ \A q \in Pid : q # p => win'[q] = win[q]
      BY <3>1, <1>a DEF TmuxTypeOK
    <3>4. /\ win'[p] \in Window /\ win'[p].name = win[p].name /\ win'[p].shell = "dead"
          /\ win'[p].run = win[p].run /\ win'[p].typed = win[p].typed
      BY <3>1, <3>3 DEF Window
    <3>5. Sole(win'[p]) /\ StatusOf(win'[p]) = "dead" /\ win'[p] # Nothing
      BY <3>1, <3>4, <1>a, TmuxecAssumption DEF AllSole, Sole, Lines, StatusOf
    <3> QED
      BY <3>1, <3>2, <3>3, <3>4, <3>5 DEF TakesOwn
  <2>2. CASE p \notin Open
    BY <1>1, <1>3, <2>2 DEF KillShell, TargetStays
  <2> QED
    BY <2>1, <2>2
<1>4. CASE KillWindow(a)
  <2> DEFINE ps == At(call[a].session, heard[a].pane)
  <2>1. \A p \in Pid : win'[p] = IF p \in ps THEN Nothing ELSE win[p]
    BY <1>4 DEF KillWindow, Closed
  <2>2. \A p \in ps : p \in Pid /\ win[p] # Nothing /\ win[p].name = call[a].name
    BY <1>4, <1>a DEF KillWindow, Now, ClosesOwn, At, In, Open
  <2>3. CASE ps = {}
    BY <2>1, <2>3 DEF TakesOwn
  <2>4. ASSUME NEW p \in ps PROVE TakesOwn(a)
    <3>1. \A q \in Pid : q # p => q \notin ps
      BY <2>2, <2>4, <1>a, <1>b, OwnOnce
    <3>2. win'[p] = Nothing /\ \A q \in Pid : q # p => win'[q] = win[q]
      BY <2>1, <2>2, <2>4, <3>1
    <3> QED
      BY <2>2, <2>4, <3>2 DEF TakesOwn
  <2> QED
    BY <2>3, <2>4
<1> QED
  BY <1>1, <1>2, <1>3, <1>4
     DEF StopStep, List, GetPid, Pgrep, DoomedPane, Find, TargetStays

LEMMA TakesStep ==
    ASSUME ServicesAlone, ServiceInv, NEW a \in Agent, pc[a] # "idle", TakesOwn(a),
           call' \in {call, [call EXCEPT ![a] = Nothing]}, UNCHANGED startup
    PROVE  AllSole' /\ [Services!Next]_(Services!vars)
<1>a. WindowInv /\ ScriptsOK /\ Placed /\ AllSole
  BY DEF ServiceInv, AloneInv, WindowInv, TypeOK
<1>c. call[a] # Nothing /\ call[a].name \in Name
  BY <1>a, InCall DEF ScriptsOK
<1> DEFINE n == call[a].name
<1>1. CASE \A p \in Pid : win'[p] = win[p]
  BY <1>1, <1>a, <1>c, QuietStep DEF AllSole
<1>2. ASSUME NEW p \in Pid, win[p] # Nothing, win[p].name = n,
             \A q \in Pid : q # p => win'[q] = win[q],
             \/ win'[p] = Nothing
             \/ /\ win'[p] # Nothing /\ win'[p].name = win[p].name /\ Sole(win'[p])
                /\ \/ StatusOf(win'[p]) = "dead"
                   \/ StatusOf(win[p]) = "busy" /\ StatusOf(win'[p]) = "idle"
      PROVE  AllSole' /\ [Services!Next]_(Services!vars)
  <2>1. AllSole'
    BY <1>2, <1>a DEF AllSole
  <2> DEFINE was == StatusOf(win[p])
             is == IF win'[p] = Nothing THEN "none" ELSE StatusOf(win'[p])
  <2>2. Statuses[n] = was /\ Statuses' = [Statuses EXCEPT ![n] = is]
    BY <1>2, <1>a, <1>c, OneChanges
  <2>3. was \in {"idle", "busy", "dead"}
    <3>1. Sole(win[p])
      BY <1>2, <1>a DEF AllSole
    <3> QED
      BY <3>1 DEF Sole, StatusOf
  <2>6. Registered' = Registered
    BY RegisteredStays
  <2>7. \/ was = "busy" /\ is = "idle"
        \/ was \in {"idle", "busy"} /\ is = "dead"
        \/ was # "none" /\ is = "none"
        \/ was = "dead" /\ is = "dead"
    BY <1>2, <2>3
  <2> HIDE DEF was, is, n
  <2>9. CASE was = "dead" /\ is = "dead"
    <3>1. Statuses' = Statuses
      BY <2>2, <2>9, StatusesNext
    <3>2. CASE call' = call
      BY <2>1, <2>6, <3>1, <3>2 DEF Services!vars
    <3>3. CASE call' = [call EXCEPT ![a] = Nothing]
      <4>1. Services!Leave(a)
        BY <1>c, <2>6, <3>1, <3>3 DEF Services!Leave, Services!InCall, Services!Ended
      <4> QED
        BY <2>1, <4>1 DEF Services!Next, Services!Act
    <3> QED
      BY <2>1, <3>2, <3>3
  <2>10. CASE ~(was = "dead" /\ is = "dead")
    <3>1. Services!TakeAway(a)
      BY <1>c, <2>2, <2>6, <2>7, <2>10
         DEF Services!TakeAway, Services!InCall, Services!Mine, Services!Becomes, Services!Ended, n
    <3> QED
      BY <2>1, <3>1 DEF Services!Next, Services!Act
  <2> QED
    BY <2>1, <2>9, <2>10
<1> QED
  BY <1>1, <1>2 DEF TakesOwn

-------------------------------------------------------------------------------
(* Steps that start a service. *)

LEMMA RegisterStep ==
    ASSUME ServicesAlone, ServiceInv, NEW a \in Agent, AppendStartup(a)
    PROVE  AllSole' /\ [Services!Next]_(Services!vars)
<1>a. WindowInv /\ ScriptsOK /\ startup \in Seq(Name \X Cmd) /\ AllSole /\ Serves(a)
  BY DEF ServiceInv, AloneInv, WindowInv, TypeOK
<1>b. pc[a] = "appendStartup" /\ pc[a] \in StartupCommand /\ call[a] # Nothing
  BY <1>a DEF AppendStartup, Now, StartupCommand, ScriptsOK
<1> DEFINE line == <<call[a].name, call[a].cmd>>
<1>1. startup' = Append(startup, line) /\ UNCHANGED <<win, front, call>>
  BY DEF AppendStartup, Goes, tmux
<1>2. Registered' = Registered \cup {call[a].name}
  <2> DEFINE n == Len(startup)
  <2>1. /\ n \in Nat /\ DOMAIN startup = 1..n /\ DOMAIN startup' = 1..(n + 1)
        /\ \A i \in DOMAIN startup : startup'[i] = startup[i]
        /\ startup'[n + 1] = line
    BY <1>a, <1>1
  <2>2. line[1] = call[a].name
    OBVIOUS
  <2> HIDE DEF line, n
  <2>3. DOMAIN startup' = DOMAIN startup \cup {n + 1}
    BY <2>1
  <2> QED
    BY <2>1, <2>2, <2>3 DEF Registered
<1>3. Statuses' = Statuses
  BY <1>1, StatusesStay
<1>4. Services!Register(a)
  BY <1>1, <1>2, <1>3, <1>a, <1>b
     DEF Services!Register, Services!Ensures, Services!InCall, Services!Mine, Serves
<1> QED
  BY <1>1, <1>4, <1>a DEF Services!Next, Services!Act, AllSole

LEMMA OpenStep ==
    ASSUME ServicesAlone, ServiceInv, NEW a \in Agent, pc[a] \in {"newSession", "newWindow"},
           NewWindowOf(a), UNCHANGED call
    PROVE  AllSole' /\ [Services!Next]_(Services!vars)
<1>a. /\ WindowInv /\ ScriptsOK /\ TmuxTypeOK /\ AllSole /\ Serves(a) /\ ClosesFirst(a)
      /\ StartsAgain
  BY DEF ServiceInv, AloneInv, WindowInv, TypeOK, Minds
<1>b. pc[a] # "idle" /\ pc[a] \in ScreenCommand /\ pc[a] \in Stopped
  BY DEF ScreenCommand, Stopped
<1>c. call[a] # Nothing /\ call[a].name \in Name /\ call[a].session \in Session
  BY <1>a, <1>b, CallType
<1> DEFINE n == call[a].name
           fresh(i) == [session |-> call[a].session, index |-> i, name |-> n, shell |-> "starting",
                        run |-> Nothing, typed |-> << >>, screen |-> Nothing]
<1>1. PICK p \in Pid : Opened(p, call[a].session, n) /\ win[p] = Nothing
  BY DEF NewWindowOf, Opened, Open
<1>2. PICK i \in 0..Cardinality(Pid) : win' = [win EXCEPT ![p] = fresh(i)]
  BY <1>1 DEF Opened
<1>3. i \in Nat
  BY <1>2, FS_CardinalityType, TmuxAssumption
<1>4. fresh(i) \in Window
  BY <1>3, <1>c DEF Window, Screen
<1>5. /\ fresh(i).name = n /\ fresh(i).shell = "starting" /\ fresh(i).run = Nothing
      /\ fresh(i).typed = << >>
  OBVIOUS
<1> HIDE DEF fresh
<1>6. /\ win'[p] = fresh(i) /\ win'[p] # Nothing
      /\ \A q \in Pid : q # p => win'[q] = win[q]
  BY <1>2, <1>4, <1>a, TmuxecAssumption DEF TmuxTypeOK
<1>7. Lines(fresh(i)) = 0
  BY <1>4, <1>5, LinesAre
<1>8. AllSole'
  BY <1>5, <1>6, <1>7, <1>a DEF AllSole, Sole
<1>9. \A q \in Pid : win[q] # Nothing => win[q].name # n
  BY <1>a, <1>b DEF ClosesFirst
<1>10. Statuses[n] = "none"
  BY <1>9, <1>c, StatusNone, StatusesNext
<1>11. StatusIn(win', n) = "idle"
  <2>1. \A q \in Pid : win'[q] # Nothing /\ win'[q].name = n => q = p
    BY <1>6, <1>9
  <2>2. StatusOf(win'[p]) = "idle"
    BY <1>5, <1>6, <1>7 DEF StatusOf
  <2> QED
    BY <1>5, <1>6, <2>1, <2>2, StatusOne
<1>12. Statuses' = [Statuses EXCEPT ![n] = "idle"]
  BY <1>1, <1>5, <1>6, <1>11, <1>c, StatusesBecome
<1>13. call[a].op = "ensure" /\ (call[a].autostart => n \in Registered)
  <2>1. call[a].op = "ensure"
    BY <1>a, <1>b DEF Serves
  <2>2. ASSUME call[a].autostart PROVE n \in Registered
    <3>1. PICK k \in DOMAIN startup : startup[k] = <<n, call[a].cmd>>
      BY <1>a, <1>b, <2>1, <2>2 DEF StartsAgain
    <3>2. startup[k][1] = n
      BY <3>1
    <3> QED
      BY <3>2 DEF Registered
  <2> QED
    BY <2>1, <2>2
<1>14. Registered' = Registered
  BY RegisteredStays DEF NewWindowOf
<1>15. Services!Open(a)
  BY <1>c, <1>10, <1>12, <1>13, <1>14
     DEF Services!Open, Services!Ensures, Services!InCall, Services!Mine, Services!Becomes
<1> QED
  BY <1>8, <1>15 DEF Services!Next, Services!Act

LEMMA RunStep ==
    ASSUME ServicesAlone, ServiceInv, NEW a \in Agent, SendKeys(a)
    PROVE  AllSole' /\ [Services!Next]_(Services!vars)
<1>a. /\ WindowInv /\ ScriptsOK /\ TmuxTypeOK /\ Placed /\ AllSole /\ Serves(a)
      /\ TypesInOwn(a)
  BY DEF ServiceInv, AloneInv, WindowInv, TypeOK
<1>b. pc[a] = "sendKeys" /\ pc[a] # "idle" /\ pc[a] \in ScreenCommand
  BY DEF SendKeys, Now, ScreenCommand
<1>c. /\ call[a] # Nothing /\ call[a].name \in Name /\ call[a].cmd \in Cmd
      /\ call[a].session = Main
  BY <1>a, <1>b, InCall DEF ScriptsOK
<1> DEFINE n == call[a].name
           job == [by |-> a, name |-> call[a].name, cmd |-> call[a].cmd]
<1>1. PICK p \in Pid : MadeWindow(a, p)
  BY <1>a, <1>b DEF TypesInOwn
<1>2. /\ win[p] # Nothing /\ win[p].name = n /\ win[p].shell # "dead" /\ Fresh(win[p])
      /\ heard[a].pane = win[p].index /\ win[p] \in Window /\ Sole(win[p])
  BY <1>1, <1>a, <1>b DEF MadeWindow, TmuxTypeOK, AllSole
<1>3. At(Main, heard[a].pane) = {p}
  BY <1>2, <1>a, <1>b, OnlyWindow
<1>4. job \in Job
  BY <1>c DEF Job
<1>5. /\ win' = [q \in Pid |-> IF q \in {p} THEN Type(win[q], job) ELSE win[q]]
      /\ UNCHANGED <<startup, call>>
  BY <1>3, <1>c DEF SendKeys, Goes
<1> HIDE DEF job
<1>6. win'[p] = Type(win[p], job) /\ \A q \in Pid : q # p => win'[q] = win[q]
  BY <1>5
<1>7. win'[p] # Nothing /\ win'[p].name = n
  <2>1. win'[p] \in Window /\ SamePlace(win'[p], win[p])
    BY <1>2, <1>4, <1>6, TypeType
  <2> QED
    BY <1>2, <2>1, TmuxecAssumption DEF SamePlace
<1>8. Sole(win'[p]) /\ StatusOf(win[p]) = "idle" /\ StatusOf(win'[p]) = "busy"
  BY <1>2, <1>4, <1>6, TypesStatus
<1>9. Statuses[n] = "idle" /\ Statuses' = [Statuses EXCEPT ![n] = "busy"]
  BY <1>2, <1>6, <1>7, <1>8, <1>a, <1>c, OneChanges
<1>13. Registered' = Registered
  BY <1>5, RegisteredStays
<1>14. Services!Run(a)
  BY <1>5, <1>9, <1>13, <1>a, <1>b, <1>c
     DEF Services!Run, Services!Ensures, Services!InCall, Services!Mine, Services!Becomes, Serves
<1>15. AllSole'
  BY <1>6, <1>8, <1>a DEF AllSole
<1> QED
  BY <1>14, <1>15 DEF Services!Next, Services!Act

-------------------------------------------------------------------------------
(* All steps. *)

LEMMA WorksStep ==
    ASSUME ServicesAlone, ServiceInv, NEW a \in Agent, Works(a)
    PROVE  AllSole' /\ [Services!Next]_(Services!vars)
<1>a. WindowInv /\ ScriptsOK /\ AllSole /\ MakesFirst(a)
  BY DEF ServiceInv, AloneInv, WindowInv, TypeOK, Minds
<1>m. pc[a] # "idle" /\ call[a] # Nothing /\ call' \in {call, [call EXCEPT ![a] = Nothing]}
  BY <1>a, WorksMoves DEF Moves, Goes, Leaves, ScriptsOK
<1>q. ASSUME \A p \in Pid : win'[p] = win[p], UNCHANGED startup
      PROVE  AllSole' /\ [Services!Next]_(Services!vars)
  BY <1>q, <1>a, <1>m, QuietStep DEF AllSole
<1>1. CASE StopStep(a)
  BY <1>1, <1>a, <1>m, StopTakesOwn, TakesStep, StopStepType DEF WindowInv
<1>2. CASE ReadStartup(a)
  BY <1>2, <1>q DEF ReadStartup, TargetStays
<1>3. CASE AppendStartup(a)
  BY <1>3, RegisterStep
<1>4. CASE Sessions(a) \/ Windows(a) \/ Pane(a) \/ Answer(a) \/ WaitOver(a) \/ CaptureFails(a)
  BY <1>4, <1>q DEF Sessions, Windows, Pane, Answer, WaitOver, CaptureFails, TargetStays
<1>5. CASE KillSession(a)
  <2>1. \A p \in Pid : win[p] = Nothing /\ win'[p] = win[p]
    BY <1>5, <1>a DEF KillSession, Now, MakesFirst, Closed
  <2> QED
    BY <1>5, <2>1, <1>q DEF KillSession
<1>6. CASE NewSession(a) \/ NewWindow(a)
  <2>1. pc[a] \in {"newSession", "newWindow"}
    BY <1>6 DEF NewSession, NewWindow, Now
  <2>2. CASE TargetStays
    BY <2>2, <1>q DEF TargetStays
  <2>3. CASE NewWindowOf(a) /\ Goes(a, "pane")
    BY <2>1, <2>3, OpenStep DEF Goes
  <2> QED
    BY <1>6, <2>2, <2>3 DEF NewSession, NewWindow
<1>7. CASE SendKeys(a)
  BY <1>7, RunStep
<1> QED
  BY <1>1, <1>2, <1>3, <1>4, <1>5, <1>6, <1>7 DEF Works, StartupStep, ScreenStep

LEMMA WorksServes ==
    ASSUME ServicesAlone, ServiceInv, NEW a \in Agent, Works(a)
    PROVE  Serves(a)'
<1>a. WindowInv /\ ScriptsOK /\ Serves(a) /\ pc[a] # "idle"
  BY WorksMoves DEF ServiceInv, AloneInv, WindowInv, TypeOK
<1>b. call[a].op \in {"ensure", "stop", "remove"}
  <2>1. call[a] \in Calls[a] /\ call[a].op \in Op
    BY <1>a, InCall, CallType DEF Request
  <2> QED
    BY <2>1 DEF ServicesAlone, Op
<1>s. /\ StartupCommand = {"readStartup", "appendStartup"}
      /\ ScreenCommand = {"sessions", "killSession", "newSession", "windows", "newWindow",
                          "pane", "sendKeys", "capture"}
  BY DEF StartupCommand, ScreenCommand
<1>1. CASE Leaves(a)
  <2>1. pc'[a] = "idle"
    BY <1>1, <1>a DEF Leaves, ScriptsOK
  <2> QED
    BY <2>1, <1>s DEF Serves
<1>g. ASSUME NEW c, Goes(a, c),
             c \in StartupCommand \cup ScreenCommand => call[a].op = "ensure",
             c \in StartupCommand => call[a].autostart,
             c \in {"find", "killFound"} => call[a].op # "remove"
      PROVE  Serves(a)'
  <2>1. call' = call /\ pc'[a] = c
    BY <1>g, <1>a DEF Goes, ScriptsOK
  <2> QED
    BY <1>g, <2>1 DEF Serves
<1>2. CASE List(a) \/ KillWindow(a)
  BY <1>1, <1>2, <1>g, <1>s DEF List, KillWindow, Removes
<1>3. CASE GetPid(a) \/ Pgrep(a) \/ KillChildren(a) \/ KillShell(a) \/ DoomedPane(a)
  BY <1>1, <1>3, <1>g, <1>s DEF GetPid, Pgrep, KillChildren, KillShell, DoomedPane
<1>4. CASE Find(a)
  BY <1>4, <1>a, <1>g, <1>s DEF Find, Now, Serves
<1>5. CASE KillFound(a)
  <2>1. call[a].op # "stop" => call[a].op = "ensure"
    BY <1>5, <1>a, <1>b DEF KillFound, Now, Serves
  <2> QED
    BY <1>1, <1>5, <2>1, <1>g, <1>s DEF KillFound
<1>6. CASE StartupStep(a)
  BY <1>6, <1>a, <1>g, <1>s DEF StartupStep, ReadStartup, AppendStartup, Now, Serves
<1>7. CASE ScreenStep(a)
  <2>1. call[a].op = "ensure"
    BY <1>7, <1>a, <1>s
       DEF ScreenStep, Sessions, KillSession, NewSession, Windows, NewWindow, Pane, SendKeys,
           Answer, WaitOver, CaptureFails, Now, Serves
  <2>2. Leaves(a) \/ \E c \in ScreenCommand : Goes(a, c)
    BY <1>7, <1>s
       DEF ScreenStep, Sessions, KillSession, NewSession, Windows, NewWindow, Pane, SendKeys,
           Answer, WaitOver, CaptureFails
  <2> QED
    BY <1>1, <2>1, <2>2, <1>g, <1>s
<1> QED
  BY <1>2, <1>3, <1>4, <1>5, <1>6, <1>7 DEF Works, StopStep

LEMMA OnTargetStep ==
    ASSUME ServiceInv, OnTarget
    PROVE  AllSole' /\ [Services!Next]_(Services!vars)
<1>a. WindowInv /\ TmuxTypeOK /\ Placed /\ AllSole
  BY DEF ServiceInv, AloneInv, WindowInv, TypeOK
<1>1. PICK p \in Pid : ShellStarts(p) \/ JobEnds(p) \/ ScrollsAway(p) \/ Reap(p)
  BY DEF OnTarget, TargetStep
<1>2. win[p] # Nothing /\ win[p] \in Window /\ Sole(win[p])
  BY <1>1, <1>a DEF ShellStarts, JobEnds, ScrollsAway, Reap, Busy, Open, TmuxTypeOK, AllSole
<1>3. call' = call /\ Registered' = Registered
  BY RegisteredStays DEF OnTarget
<1> DEFINE n == win[p].name
           was == StatusOf(win[p])
           is == IF win'[p] = Nothing THEN "none" ELSE StatusOf(win'[p])
\* What such a step does to one window, in terms of the status of its service.
<1>4. ASSUME \A q \in Pid : q # p => win'[q] = win[q],
             win'[p] # Nothing => win'[p].name = n /\ Sole(win'[p]),
             \/ is = was
             \/ was = "busy" /\ is = "idle"
             \/ was = "dead" /\ is = "none"
      PROVE  AllSole' /\ [Services!Next]_(Services!vars)
  <2>1. AllSole'
    BY <1>4, <1>a DEF AllSole
  <2>2. /\ n \notin Name => Statuses' = Statuses
        /\ n \in Name => Statuses[n] = was /\ Statuses' = [Statuses EXCEPT ![n] = is]
    BY <1>2, <1>4, <1>a, OneChanges
  <2> HIDE DEF n, was, is
  <2>3. CASE n \notin Name \/ is = was
    <3>1. Statuses' = Statuses
      BY <2>2, <2>3, StatusesNext
    <3> QED
      BY <1>3, <2>1, <3>1 DEF Services!vars
  <2>4. CASE n \in Name /\ is # was
    <3>1. Services!OfItself(n)
      BY <1>3, <1>4, <2>2, <2>4 DEF Services!OfItself, Services!Becomes
    <3> QED
      BY <2>1, <2>4, <3>1 DEF Services!Next
  <2> QED
    BY <2>3, <2>4
<1>5. ASSUME NEW w \in Window, SamePlace(w, win[p]), win' = [win EXCEPT ![p] = w], Sole(w),
             StatusOf(w) = was \/ (was = "busy" /\ StatusOf(w) = "idle")
      PROVE  AllSole' /\ [Services!Next]_(Services!vars)
  <2>1. win'[p] = w /\ w # Nothing /\ \A q \in Pid : q # p => win'[q] = win[q]
    BY <1>5, <1>a, TmuxecAssumption DEF TmuxTypeOK
  <2> QED
    BY <1>4, <1>5, <2>1 DEF SamePlace
<1> HIDE DEF n, was, is
<1>6. CASE ShellStarts(p)
  BY <1>2, <1>5, <1>6, PromptType, StartsStatus DEF ShellStarts, was
<1>7. CASE JobEnds(p)
  <2>1. PICK r \in {"ok", "error"} : win' = [win EXCEPT ![p] = Ended(win[p], r)]
    BY <1>7 DEF JobEnds
  <2>2. win[p].shell = "ready" /\ win[p].run # Nothing
    BY <1>7 DEF JobEnds, Busy
  <2> QED
    BY <1>2, <1>5, <2>1, <2>2, EndedType, EndsStatus DEF was
<1>8. CASE ScrollsAway(p)
  <2> DEFINE w == [win[p] EXCEPT !.screen = Nothing]
  <2>1. /\ w \in Window /\ SamePlace(w, win[p])
        /\ w.run = win[p].run /\ w.typed = win[p].typed /\ w.shell = win[p].shell
    BY <1>2 DEF Window, Screen, SamePlace
  <2>2. Sole(w) /\ StatusOf(w) = was
    BY <1>2, <2>1 DEF Sole, Lines, StatusOf, was
  <2>3. win' = [win EXCEPT ![p] = w]
    BY <1>8 DEF ScrollsAway
  <2> HIDE DEF w
  <2> QED
    BY <1>5, <2>1, <2>2, <2>3
<1>9. CASE Reap(p)
  <2>1. \A q \in Pid : win'[q] = IF q \in {p} THEN Nothing ELSE win[q]
    BY <1>9 DEF Reap, Closed
  <2>2. was = "dead" /\ is = "none"
    BY <1>9, <2>1 DEF Reap, StatusOf, was, is
  <2> QED
    BY <1>4, <2>1, <2>2
<1> QED
  BY <1>1, <1>6, <1>7, <1>8, <1>9

LEMMA RebootStep ==
    ASSUME ServiceInv, Reboot, WindowInv', Placed'
    PROVE  AllSole' /\ Services!Reboot
<1>1. startup \in Seq(Name \X Cmd) /\ UNCHANGED startup
  BY DEF ServiceInv, AloneInv, WindowInv, TypeOK, Reboot
<1>2. PICK line \in [Pid -> 0..Len(startup)] :
        \A p \in Pid : win'[p] \in {StartupWindow(line[p]), Nothing}
  BY <1>1, RebootWindows
<1>3. \A i \in DOMAIN startup : \E p \in Pid : win'[p] = StartupWindow(i)
  BY <1>1, RebootWindows
\* Each window runs the command of its line, and the first runs nothing.
<1>4. ASSUME NEW i \in 0..Len(startup)
      PROVE  /\ StartupWindow(i) \in Window /\ StartupWindow(i) # Nothing
             /\ Sole(StartupWindow(i))
             /\ i = 0 => StartupWindow(i).name = Nothing
             /\ i # 0 => /\ i \in DOMAIN startup /\ StartupWindow(i).name = startup[i][1]
                         /\ StatusOf(StartupWindow(i)) = "busy"
  <2> DEFINE w == StartupWindow(i)
  <2>1. /\ w \in Window /\ w # Nothing
        /\ w.name = (IF i = 0 THEN Nothing ELSE startup[i][1])
        /\ i # 0 => i \in DOMAIN startup
    BY <1>1, StartupWindowType, TmuxecAssumption
  <2>2. w.shell = "ready" /\ w.typed = << >> /\ (i = 0 => w.run = Nothing)
    BY DEF StartupWindow
  <2>3. ASSUME i # 0 PROVE w.run # Nothing
    <3>1. w.run = [by |-> Nothing, name |-> startup[i][1], cmd |-> startup[i][2]]
      BY <2>3 DEF StartupWindow
    <3>2. startup[i][1] \in Name /\ startup[i][2] \in Cmd
      BY <1>1, <2>1, <2>3
    <3>3. w.run \in Job
      BY <3>1, <3>2 DEF Job
    <3> QED
      BY <3>3, TmuxecAssumption
  <2> HIDE DEF w
  <2>4. Lines(w) = IF i = 0 THEN 0 ELSE 1
    BY <2>1, <2>2, <2>3, LinesAre
  <2> QED
    BY <2>1, <2>2, <2>4 DEF Sole, StatusOf, w
<1>5. AllSole'
  BY <1>2, <1>4 DEF AllSole
<1>6. ASSUME NEW n \in Name
      PROVE  StatusIn(win', n) = IF n \in Registered THEN "busy" ELSE "none"
  <2>1. CASE n \in Registered
    <3>1. PICK i \in DOMAIN startup : startup[i][1] = n
      BY <2>1 DEF Registered
    <3>2. i \in 0..Len(startup) /\ i # 0
      BY <1>1, <3>1
    <3>3. PICK p \in Pid : win'[p] = StartupWindow(i)
      BY <1>3, <3>1
    <3>4. win'[p] # Nothing /\ win'[p].name = n /\ StatusOf(win'[p]) = "busy"
      BY <1>4, <3>1, <3>2, <3>3
    <3>5. \A q \in Pid : win'[q] # Nothing /\ win'[q].name = n => q = p
      BY <1>6, <3>4, TmuxAssumption DEF WindowInv, OneWindow, Placed, InMain, Open
    <3> QED
      BY <2>1, <3>4, <3>5, StatusOne
  <2>2. CASE n \notin Registered
    <3>1. ASSUME NEW p \in Pid, win'[p] # Nothing
          PROVE  win'[p].name # n
      <4>1. line[p] \in 0..Len(startup) /\ win'[p] = StartupWindow(line[p])
        BY <1>2, <3>1
      <4>2. CASE line[p] = 0
        BY <1>4, <1>6, <4>1, <4>2, TmuxAssumption
      <4>3. CASE line[p] # 0
        <5>1. line[p] \in DOMAIN startup /\ win'[p].name = startup[line[p]][1]
          BY <1>4, <4>1, <4>3
        <5> QED
          BY <2>2, <5>1 DEF Registered
      <4> QED
        BY <4>2, <4>3
    <3> QED
      BY <2>2, <3>1, StatusNone
  <2> QED
    BY <2>1, <2>2
<1>7. Statuses' = [n \in Name |-> IF n \in Registered THEN "busy" ELSE "none"]
  BY <1>6, StatusesNext
<1>8. Registered' = Registered
  BY <1>1, RegisteredStays
<1>9. Services!Reboot
  BY <1>7, <1>8 DEF Services!Reboot, Reboot
<1> QED
  BY <1>5, <1>9

LEMMA ServiceInit ==
    ASSUME Init
    PROVE  ServiceInv /\ Services!Init
<1>1. /\ \A p \in Pid : win[p] = Nothing
      /\ \A a \in Agent : pc[a] = "idle"
      /\ startup = << >> /\ call = [a \in Agent |-> Nothing]
  BY DEF Init, TmuxInit
<1>2. ServiceInv
  BY <1>1, AloneInit
     DEF ServiceInv, StartsAgain, AllSole, Serves, StartupCommand, ScreenCommand
<1>3. Statuses = [n \in Name |-> "none"]
  BY <1>1, StatusNone, StatusesNext
<1>4. Registered = {}
  BY <1>1 DEF Registered
<1> QED
  BY <1>1, <1>2, <1>3, <1>4 DEF Services!Init

LEMMA ServiceNext ==
    ASSUME NamesApart, ServicesAlone, CommandsApart, ServiceInv, [Next]_vars
    PROVE  ServiceInv' /\ [Services!Next]_(Services!vars)
<1>a. /\ AloneInv /\ WindowInv /\ ScriptsOK /\ StartsAgain /\ AllSole
      /\ \A a \in Agent : Serves(a)
  BY DEF ServiceInv, AloneInv, WindowInv, TypeOK
<1>b. AloneInv' /\ StartsAgain'
  BY <1>a, AloneNext, StartsAgainNext
<1>s. /\ StartupCommand = {"readStartup", "appendStartup"}
      /\ ScreenCommand = {"sessions", "killSession", "newSession", "windows", "newWindow",
                          "pane", "sendKeys", "capture"}
  BY DEF StartupCommand, ScreenCommand
<1>i. ASSUME NEW a \in Agent, AllSole', Serves(a)' PROVE ServiceInv'
  BY <1>i, <1>b DEF ServiceInv, ServicesAlone
<1>1. ASSUME NEW a \in Agent, Begin(a)
      PROVE  ServiceInv' /\ [Services!Next]_(Services!vars)
  <2>1. /\ UNCHANGED <<win, startup>> /\ call[a] = Nothing
        /\ \E c \in Calls[a] : call' = [call EXCEPT ![a] = c]
    BY <1>1, <1>a DEF Begin, TargetStays, Now, ScriptsOK
  <2>2. pc'[a] = "list"
    BY <1>1, <1>a DEF Begin, ServicesAlone, ScriptsOK
  <2>3. Serves(a)' /\ AllSole'
    BY <2>1, <2>2, <1>a, <1>s DEF Serves, AllSole
  <2>4. Statuses' = Statuses /\ Registered' = Registered
    BY <2>1, StatusesStay, RegisteredStays
  <2>5. Services!Ask(a)
    BY <2>1, <2>4 DEF Services!Ask, Services!InCall
  <2> QED
    BY <1>i, <2>3, <2>5 DEF Services!Next, Services!Act
<1>2. ASSUME NEW a \in Agent, Crash(a)
      PROVE  ServiceInv' /\ [Services!Next]_(Services!vars)
  <2>1. /\ UNCHANGED <<win, startup>> /\ call[a] # Nothing
        /\ call' = [call EXCEPT ![a] = Nothing] /\ pc'[a] = "idle"
    BY <1>2, <1>a DEF Crash, Leaves, TargetStays, Now, ScriptsOK
  <2>2. Serves(a)' /\ AllSole'
    BY <2>1, <1>a, <1>s DEF Serves, AllSole
  <2> QED
    BY <1>i, <2>1, <2>2, QuietStep
<1>3. ASSUME NEW a \in Agent, Works(a)
      PROVE  ServiceInv' /\ [Services!Next]_(Services!vars)
  BY <1>3, <1>i, WorksStep, WorksServes
<1>4. CASE OnTarget
  <2>1. \A a \in Agent : Serves(a)'
    BY <1>4, <1>a DEF OnTarget, Serves
  <2> QED
    BY <1>4, <1>b, <2>1, OnTargetStep DEF ServiceInv
<1>5. CASE Reboot
  <2>1. \A a \in Agent : Serves(a)'
    BY <1>5, <1>s DEF Reboot, Serves
  <2>2. AllSole' /\ Services!Reboot
    BY <1>5, <1>b, RebootStep DEF AloneInv
  <2> QED
    BY <1>b, <2>1, <2>2 DEF ServiceInv, Services!Next
<1>6. CASE UNCHANGED vars
  <2>1. AllSole' /\ \A a \in Agent : Serves(a)'
    BY <1>6, <1>a DEF vars, AllSole, Serves
  <2>2. Statuses' = Statuses /\ Registered' = Registered /\ call' = call
    BY <1>6, StatusesStay, RegisteredStays DEF vars
  <2> QED
    BY <1>b, <2>1, <2>2 DEF ServiceInv, Services!vars
<1> QED
  BY <1>1, <1>2, <1>3, <1>4, <1>5, <1>6 DEF Next

\* ensure, stop and remove of one script implement PrefabServices: each of their
\* commands changes the service of the call or nothing that callers see, a command
\* is started only in a new window, a window with autostart is opened only for a
\* service that a reboot brings back, and a reboot brings back just these.
THEOREM KeepsServices ==
    ASSUME NamesApart, ServicesAlone, CommandsApart
    PROVE  Spec => ServicesSpec
<1>1. Init => ServiceInv /\ Services!Init
  BY ServiceInit
<1>2. ServiceInv /\ [Next]_vars => ServiceInv' /\ [Services!Next]_(Services!vars)
  BY ServiceNext
<1> QED
  BY <1>1, <1>2, PTL DEF Spec, ServicesSpec, Services!Spec
===============================================================================
