------------------------- MODULE PrefabPromise_proofs -------------------------
(***************************************************************************)
(* The flags of prefab are reliable whenever the recipes keep the          *)
(* discipline of PrefabPromise: for any catalogue, any number of agents    *)
(* and any number of failures, crashes and reboots.                        *)
(*                                                                         *)
(* The inductive invariant is TypeOK, FlagSound and CallsSound together:   *)
(* flags are truthful because the calls that set them have done their      *)
(* work, and calls have done their work because the flags that made them   *)
(* skip a part of it are truthful.  On it rest the refinement of           *)
(* PrefabLedger and that a return leaves its flag behind.                  *)
(***************************************************************************)
EXTENDS PrefabPromise, PrefabDone_proofs, SequenceTheorems, TLAPS

-------------------------------------------------------------------------------
(* Recipes. *)

\* Past its first steps a call has behind it what those steps yield, and that
\* is never anything that can be taken away.
LEMMA BeforeFacts ==
    ASSUME NEW m \in Method
    PROVE  /\ Before(m, 1) = {}
           /\ \A i \in Nat : Before(m, i) \subseteq Kept
           /\ \A i \in Nat \ {0} : Before(m, i + 1) = Before(m, i) \cup Yield(Body[m][i])
<1>1. \A s : Yield(s) \subseteq Kept
  BY DEF Yield
<1>2. Before(m, 1) = {}
  BY DEF Before
<1>3. ASSUME NEW i \in Nat PROVE Before(m, i) \subseteq Kept
  <2> SUFFICES ASSUME NEW x \in Before(m, i) PROVE x \in Kept
    OBVIOUS
  <2>1. PICK j \in 1 .. (i - 1) : x \in Yield(Body[m][j])
    BY DEF Before
  <2> QED
    BY <1>1, <2>1
<1>4. ASSUME NEW i \in Nat \ {0} PROVE Before(m, i + 1) = Before(m, i) \cup Yield(Body[m][i])
  <2>1. 1 .. ((i + 1) - 1) = (1 .. (i - 1)) \cup {i}
    OBVIOUS
  <2> QED
    BY <2>1 DEF Before
<1> QED
  BY <1>2, <1>3, <1>4

\* The steps of a method are its own, and disciplined.
LEMMA StepFacts ==
    ASSUME NEW m \in Method
    PROVE  /\ Len(Body[m]) \in Nat
           /\ Gained[m] \subseteq Before(m, Len(Body[m]) + 1)
           /\ Gained[m] \subseteq Kept
           /\ \A i \in 1 .. Len(Body[m]) :
                /\ WellFormed(Body[m][i]) /\ Sound(m, i)
                /\ Body[m][i].gone \cap Kept = {}
<1>1. \A i \in 1 .. Len(Body[m]) : Body[m][i] \in Steps(m)
  BY PromiseAssumption DEF Steps
<1>2. ASSUME NEW i \in 1 .. Len(Body[m]) PROVE Body[m][i].gone \cap Kept = {}
  <2>1. Body[m][i] \in UNION {Steps(n) : n \in Method}
    BY <1>1
  <2>2. Body[m][i].gone \subseteq UNION {s.gone : s \in UNION {Steps(n) : n \in Method}}
    BY <2>1
  <2> QED
    BY <2>2, KeptAssumption
<1>3. /\ Len(Body[m]) \in Nat
      /\ DOMAIN Body[m] = 1 .. Len(Body[m])
      /\ Gained[m] \subseteq Kept
  BY PromiseAssumption
<1> QED
  BY <1>2, <1>3, Discipline

-------------------------------------------------------------------------------
(* Stacks of calls. *)

\* What a stack of calls and the calls on it are.
LEMMA StackFacts ==
    ASSUME NEW stk \in Seq(Frame)
    PROVE  /\ Len(stk) \in Nat /\ DOMAIN stk = 1 .. Len(stk)
           /\ \A i \in 1 .. Len(stk) :
                stk[i] \in Frame /\ stk[i].m \in Method /\ stk[i].pc \in Nat \ {0}
           /\ stk # <<>> <=> Len(stk) # 0
<1>1. Len(stk) \in Nat /\ DOMAIN stk = 1 .. Len(stk)
  OBVIOUS
<1>2. ASSUME NEW i \in 1 .. Len(stk)
      PROVE  stk[i] \in Frame /\ stk[i].m \in Method /\ stk[i].pc \in Nat \ {0}
  <2>1. stk[i] \in Frame
    BY ElementOfSeq
  <2> QED
    BY <2>1 DEF Frame
<1>3. stk # <<>> <=> Len(stk) # 0
  BY EmptySeq
<1> QED
  BY <1>1, <1>2, <1>3

\* What calls have behind them is not taken away by a change of the target that
\* keeps what can be kept.
LEMMA BehindStays ==
    ASSUME NEW stk \in Seq(Frame), NEW world, NEW next,
           Behind(stk, world), world \cap Kept \subseteq next
    PROVE  Behind(stk, next)
<1> SUFFICES ASSUME NEW i \in DOMAIN stk PROVE Stands(stk, i, next)
  BY DEF Behind
<1>1. Before(stk[i].m, stk[i].pc) \subseteq Kept
  <2>1. stk[i].m \in Method /\ stk[i].pc \in Nat
    BY StackFacts
  <2> QED
    BY <2>1, BeforeFacts
<1>2. Stands(stk, i, world)
  BY DEF Behind
<1> QED
  BY <1>1, <1>2 DEF Stands

\* The running call moves to a step that it may have come to.
LEMMA BehindGoto ==
    ASSUME NEW stk \in Seq(Frame), NEW world, NEW pc \in Nat \ {0},
           stk # <<>>, Behind(stk, world),
           Before(stk[Len(stk)].m, pc) \subseteq world,
           pc <= Len(Body[stk[Len(stk)].m]) + 1
    PROVE  LET new == [stk EXCEPT ![Len(stk)].pc = pc] IN
             /\ new \in Seq(Frame)
             /\ Len(new) = Len(stk)
             /\ Behind(new, world)
<1> DEFINE n == Len(stk)
           fr == [stk[n] EXCEPT !.pc = pc]
           new == [stk EXCEPT ![n] = fr]
<1>1. n \in Nat \ {0} /\ DOMAIN stk = 1 .. n /\ stk[n] \in Frame /\ n \in 1 .. n
  BY StackFacts
<1>2. fr \in Frame /\ fr.m = stk[n].m /\ fr.pc = pc
  BY <1>1 DEF Frame
<1>3. /\ new \in Seq(Frame) /\ Len(new) = n
      /\ \A i \in 1 .. n : new[i] = IF i = n THEN fr ELSE stk[i]
  BY <1>1, <1>2, ExceptSeq
<1>4. ASSUME NEW i \in 1 .. n PROVE Stands(new, i, world)
  <2>1. CASE i = n
    <3>1. new[i] = fr /\ ~(i < Len(new))
      BY <1>1, <1>3, <2>1
    <3> QED
      BY <1>2, <3>1 DEF Stands
  <2>2. CASE i # n
    <3>1. i \in DOMAIN stk /\ i + 1 \in 1 .. n /\ i < n
      <4> HIDE DEF n
      <4>1. n \in Nat /\ i \in Nat /\ i >= 1 /\ i <= n /\ i # n
        BY <1>1, <1>4, <2>2
      <4>2. i \in DOMAIN stk
        BY <1>1, <1>4
      <4> QED
        BY <4>1, <4>2
    <3>2. new[i] = stk[i] /\ new[i + 1].m = stk[i + 1].m
      BY <1>2, <1>3, <2>2, <3>1
    <3>3. Stands(stk, i, world)
      BY <3>1 DEF Behind
    <3> QED
      BY <1>3, <3>1, <3>2, <3>3 DEF Stands
  <2> QED
    BY <2>1, <2>2
<1>5. DOMAIN new = 1 .. n
  BY <1>3, StackFacts
<1>6. Behind(new, world)
  BY <1>4, <1>5 DEF Behind
<1> QED
  BY <1>3, <1>6

\* The running call returns with its method's work done: the caller has done
\* its call step.
LEMMA BehindBack ==
    ASSUME NEW stk \in Seq(Frame), NEW world,
           stk # <<>>, Behind(stk, world),
           Gained[stk[Len(stk)].m] \subseteq world
    PROVE  Back(stk) \in Seq(Frame) /\ Behind(Back(stk), world)
<1> DEFINE n == Len(stk)
           rest == SubSeq(stk, 1, n - 1)
           caller == stk[n - 1]
<1>1. n \in Nat \ {0} /\ DOMAIN stk = 1 .. n
  BY StackFacts
<1>2. CASE n = 1
  <2>1. Back(stk) = <<>>
    BY <1>2 DEF Back
  <2>2. <<>> \in Seq(Frame) /\ DOMAIN <<>> = {}
    OBVIOUS
  <2> QED
    BY <2>1, <2>2 DEF Behind
<1>3. CASE n # 1
  <2>1. n - 1 \in 1 .. n /\ n - 1 # 0 /\ n - 1 \in Nat /\ n - 1 < n /\ (n - 1) + 1 = n
    BY <1>1, <1>3
  <2>2. caller \in Frame /\ caller.m \in Method /\ caller.pc \in Nat \ {0}
    BY <2>1, StackFacts
  <2>3. /\ Before(caller.m, caller.pc) \subseteq world
        /\ caller.pc <= Len(Body[caller.m])
        /\ Body[caller.m][caller.pc].op = "call"
        /\ Body[caller.m][caller.pc].arg = stk[n].m
    <3>1. Stands(stk, n - 1, world)
      BY <1>1, <2>1 DEF Behind
    <3> QED
      BY <2>1, <3>1 DEF Stands
  <2>4. Yield(Body[caller.m][caller.pc]) \subseteq world
    <3>1. Gain(Body[caller.m][caller.pc]) = Gained[stk[n].m]
      BY <2>3 DEF Gain
    <3> QED
      BY <3>1 DEF Yield
  <2>5. Before(caller.m, caller.pc + 1) \subseteq world
    BY <2>2, <2>3, <2>4, BeforeFacts
  <2>6. /\ rest \in Seq(Frame) /\ Len(rest) = n - 1 /\ rest # <<>>
        /\ \A i \in 1 .. (n - 1) : rest[i] = stk[i]
    <3>1. \A i \in 1 .. (n - 1) : stk[i] \in Frame
      BY <1>1, StackFacts
    <3>2. 1 \in Int /\ n - 1 \in Int /\ 1 <= n - 1 /\ (n - 1) - 1 + 1 = n - 1
      BY <2>1
    <3>3. /\ rest \in Seq(Frame) /\ Len(rest) = n - 1
          /\ \A i \in 1 .. (n - 1) : rest[i] = stk[1 + i - 1]
      BY <3>1, <3>2, SubSeqProperties
    <3>4. \A i \in 1 .. (n - 1) : 1 + i - 1 = i
      OBVIOUS
    <3> QED
      BY <2>1, <3>3, <3>4, StackFacts
  <2>7. Behind(rest, world)
    <3>1. ASSUME NEW i \in 1 .. (n - 1) PROVE Stands(rest, i, world)
      <4>1. i \in DOMAIN stk /\ i < n /\ (i < n - 1 => i + 1 \in 1 .. (n - 1))
        BY <1>1, <2>1
      <4>2. rest[i] = stk[i] /\ (i < n - 1 => rest[i + 1] = stk[i + 1])
        BY <2>6, <4>1
      <4>3. Stands(stk, i, world)
        BY <4>1 DEF Behind
      <4> QED
        BY <2>6, <4>1, <4>2, <4>3 DEF Stands
    <3>2. DOMAIN rest = 1 .. (n - 1)
      BY <2>6, StackFacts
    <3> QED
      BY <3>1, <3>2 DEF Behind
  <2>8. /\ caller.pc + 1 \in Nat \ {0}
        /\ caller.pc + 1 <= Len(Body[caller.m]) + 1
    BY <2>2, <2>3, StepFacts
  <2>9. rest[Len(rest)] = caller
    BY <2>1, <2>6
  <2>10. /\ [rest EXCEPT ![Len(rest)].pc = caller.pc + 1] \in Seq(Frame)
         /\ Behind([rest EXCEPT ![Len(rest)].pc = caller.pc + 1], world)
    BY <2>5, <2>6, <2>7, <2>8, <2>9, BehindGoto
  <2>11. Back(stk) = [rest EXCEPT ![Len(rest)].pc = caller.pc + 1]
    BY <1>3, <2>6, <2>9 DEF Back
  <2> QED
    BY <2>10, <2>11
<1> QED
  BY <1>2, <1>3

\* The running call calls another method.
LEMMA BehindPush ==
    ASSUME NEW stk \in Seq(Frame), NEW world, NEW fr \in Frame, fr.pc = 1,
           stk # <<>>, Behind(stk, world),
           stk[Len(stk)].pc <= Len(Body[stk[Len(stk)].m]),
           Body[stk[Len(stk)].m][stk[Len(stk)].pc].op = "call",
           Body[stk[Len(stk)].m][stk[Len(stk)].pc].arg = fr.m
    PROVE  Append(stk, fr) \in Seq(Frame) /\ Behind(Append(stk, fr), world)
<1> DEFINE n == Len(stk)
           new == Append(stk, fr)
<1>1. n \in Nat \ {0} /\ DOMAIN stk = 1 .. n
  BY StackFacts
<1>2. new \in Seq(Frame) /\ Len(new) = n + 1 /\ new[n + 1] = fr
      /\ \A i \in 1 .. n : new[i] = stk[i]
  BY <1>1
<1>3. fr.m \in Method /\ Before(fr.m, 1) = {} /\ Len(Body[fr.m]) \in Nat
  BY BeforeFacts, StepFacts DEF Frame
<1>4. ASSUME NEW i \in 1 .. (n + 1) PROVE Stands(new, i, world)
  <2>1. CASE i = n + 1
    <3>1. new[i] = fr /\ ~(i < Len(new)) /\ 1 <= Len(Body[fr.m]) + 1
      BY <1>1, <1>2, <1>3, <2>1
    <3> QED
      BY <1>3, <3>1 DEF Stands
  <2>2. CASE i # n + 1
    <3>1. i \in DOMAIN stk /\ i + 1 \in 1 .. (n + 1)
      BY <1>1, <2>2
    <3>2. Stands(stk, i, world)
      BY <3>1 DEF Behind
    <3>3. new[i] = stk[i]
      BY <1>1, <1>2, <3>1
    <3>4. CASE i = n
      BY <1>2, <3>2, <3>3, <3>4 DEF Stands
    <3>5. CASE i # n
      <4>1. i < n /\ new[i + 1] = stk[i + 1]
        BY <1>1, <1>2, <3>1, <3>5
      <4> QED
        BY <3>2, <3>3, <4>1 DEF Stands
    <3> QED
      BY <3>4, <3>5
  <2> QED
    BY <2>1, <2>2
<1>5. DOMAIN new = 1 .. (n + 1)
  BY <1>2, StackFacts
<1>6. Behind(new, world)
  BY <1>4, <1>5 DEF Behind
<1> QED
  BY <1>2, <1>6

-------------------------------------------------------------------------------
(* The inductive invariant, and what it says of a running call. *)

Reliable == TypeOK /\ FlagSound /\ CallsSound

\* The running call of an agent: what it is and what it has behind it.
LEMMA RunningFacts ==
    ASSUME Reliable, NEW a \in Agent, ~Idle(a)
    PROVE  /\ stack[a] \in Seq(Frame) /\ stack[a] # <<>>
           /\ Loaded(a) /\ mem[a] \subseteq Flag
           /\ Top(a) = stack[a][Len(stack[a])]
           /\ Top(a).m \in Method /\ Top(a).pc \in Nat \ {0} /\ Top(a).args \subseteq Arg
           /\ Behind(stack[a], applied)
           /\ Before(Top(a).m, Top(a).pc) \subseteq applied
           /\ Top(a).pc <= Len(Body[Top(a).m]) + 1
<1>1. stack[a] \in Seq(Frame) /\ stack[a] # <<>>
  BY DEF Reliable, TypeOK, Idle
<1>2. Loaded(a) /\ mem[a] \subseteq Flag
  BY DEF Reliable, TypeOK, DoneTypeOK, Loaded
<1>3. Top(a) = stack[a][Len(stack[a])]
  BY DEF Top
<1>4. Len(stack[a]) \in 1 .. Len(stack[a]) /\ DOMAIN stack[a] = 1 .. Len(stack[a])
  BY <1>1, StackFacts
<1>5. Top(a) \in Frame
  BY <1>1, <1>3, <1>4, StackFacts
<1>6. Behind(stack[a], applied)
  BY DEF Reliable, CallsSound
<1>7. Stands(stack[a], Len(stack[a]), applied)
  BY <1>4, <1>6 DEF Behind
<1>8. /\ Before(Top(a).m, Top(a).pc) \subseteq applied
      /\ Top(a).pc <= Len(Body[Top(a).m]) + 1
  BY <1>3, <1>7 DEF Stands
<1> QED
  BY <1>1, <1>2, <1>3, <1>5, <1>6, <1>8 DEF Frame

\* The step that it stands at.
LEMMA NowFacts ==
    ASSUME Reliable, NEW a \in Agent, ~Idle(a), ~Ended(Top(a))
    PROVE  LET s == Now(Top(a)) IN
             /\ s = Body[Top(a).m][Top(a).pc]
             /\ Top(a).pc \in 1 .. Len(Body[Top(a).m])
             /\ WellFormed(s) /\ Sound(Top(a).m, Top(a).pc)
             /\ s.gone \cap Kept = {}
             /\ Runs(a, Top(a)) => May(s)
<1>1. /\ Top(a).m \in Method /\ Top(a).pc \in Nat \ {0} /\ Top(a).args \subseteq Arg
      /\ Len(Body[Top(a).m]) \in Nat
  BY RunningFacts, StepFacts
<1>2. Top(a).pc \in 1 .. Len(Body[Top(a).m])
  BY <1>1 DEF Ended, Code
<1>3. Now(Top(a)) = Body[Top(a).m][Top(a).pc]
  BY DEF Now, Code
<1>4. Runs(a, Top(a)) => May(Now(Top(a)))
  BY <1>1 DEF Runs, Allows, May, Tags
<1> QED
  BY <1>1, <1>2, <1>3, <1>4, StepFacts

\* A step that must be executed is only skipped when what it yields is there:
\* the flags that make Python skip it are truthful.
LEMMA MustPass ==
    ASSUME Reliable, NEW a \in Agent, ~Idle(a), ~Ended(Top(a)), ~Runs(a, Top(a))
    PROVE  Yield(Now(Top(a))) \subseteq applied
<1> DEFINE s == Now(Top(a))
<1> SUFFICES ASSUME NEW x \in Yield(s) PROVE x \in applied
  OBVIOUS
<1>1. /\ Must(s)
      /\ s.lacks \in {NoFact, x}
      /\ \A k \in s.undone \cup s.unmarked : x \in Promised[k]
  BY DEF Yield
<1>2. Top(a).args \subseteq Arg /\ Loaded(a) /\ mem[a] \subseteq Flag
  BY RunningFacts
<1>3. s.when \subseteq Tags(Top(a)) /\ s.not \cap Tags(Top(a)) = {}
  BY <1>1, <1>2 DEF Must, Tags
<1>4. NoFact \notin applied
  BY PromiseAssumption DEF Reliable, TypeOK
<1>5. \/ \E f \in s.undone : DoneCheck(a, f, WithReset(Top(a)))
      \/ \E f \in s.unmarked : DoneGet(a, f)
      \/ s.lacks \in applied
  BY <1>1, <1>3 DEF Runs, Allows, Must
<1>6. ASSUME NEW f \in s.undone \cup s.unmarked, f \in mem[a] PROVE x \in applied
  <2>1. Promised[f] \subseteq applied
    BY <1>2, <1>6 DEF Reliable, FlagSound
  <2> QED
    BY <1>1, <2>1
<1> QED
  BY <1>1, <1>4, <1>5, <1>6 DEF DoneCheck, DoneGet

\* A call that returns, at its end, because its flag is set or early, has done
\* what its method vouches for.
LEMMA ReturnsSound ==
    ASSUME Reliable, NEW a \in Agent,
           \/ EndOfMethod(a)
           \/ CheckStep(a) /\ DoneCheck(a, Now(Top(a)).arg, WithReset(Top(a)))
           \/ ReturnStep(a)
    PROVE  Gained[Top(a).m] \subseteq applied
<1> DEFINE fr == Top(a)
           s == Now(fr)
<1>1. ~Idle(a)
  BY DEF EndOfMethod, CheckStep, ReturnStep, At
<1>2. /\ fr.m \in Method /\ fr.pc \in Nat \ {0} /\ Loaded(a)
      /\ Before(fr.m, fr.pc) \subseteq applied
      /\ fr.pc <= Len(Body[fr.m]) + 1
  BY <1>1, RunningFacts
<1>3. CASE EndOfMethod(a)
  <2>1. Len(Body[fr.m]) \in Nat /\ Gained[fr.m] \subseteq Before(fr.m, Len(Body[fr.m]) + 1)
    BY <1>2, StepFacts
  <2>2. fr.pc > Len(Body[fr.m])
    BY <1>3 DEF EndOfMethod, Ended, Code
  <2>3. fr.pc = Len(Body[fr.m]) + 1
    BY <1>2, <2>1, <2>2
  <2> QED
    BY <1>2, <2>1, <2>3
<1>4. CASE CheckStep(a) /\ DoneCheck(a, s.arg, WithReset(fr))
  <2>1. ~Ended(fr) /\ Runs(a, fr) /\ s.op = "check"
    BY <1>4 DEF CheckStep, At
  <2>2. May(s) /\ Sound(fr.m, fr.pc) /\ s = Body[fr.m][fr.pc]
    BY <1>1, <2>1, NowFacts
  <2>3. Gained[fr.m] \subseteq Before(fr.m, fr.pc) \cup Promised[s.arg]
    BY <2>1, <2>2 DEF Sound
  <2>4. s.arg \in mem[a]
    BY <1>4 DEF DoneCheck, DoneGet
  <2>5. Promised[s.arg] \subseteq applied
    BY <1>2, <2>4 DEF Reliable, FlagSound
  <2> QED
    BY <1>2, <2>3, <2>5
<1>5. CASE ReturnStep(a)
  <2>1. ~Ended(fr) /\ Runs(a, fr) /\ s.op = "stop"
    BY <1>5 DEF ReturnStep, At
  <2>2. May(s) /\ Sound(fr.m, fr.pc) /\ s = Body[fr.m][fr.pc]
    BY <1>1, <2>1, NowFacts
  <2>3. Gained[fr.m] \subseteq Before(fr.m, fr.pc) \cup {s.there}
    BY <2>1, <2>2 DEF Sound
  <2>4. s.there \in applied \cup {NoFact}
    BY <2>1 DEF Runs, Allows
  <2>5. Gained[fr.m] \subseteq Fact /\ NoFact \notin Fact
    BY <1>2, PromiseAssumption, KeptAssumption
  <2> QED
    BY <1>2, <2>3, <2>4, <2>5
<1> QED
  BY <1>3, <1>4, <1>5

\* Moving on from a step that has yielded what it must.
LEMMA AdvanceSound ==
    ASSUME Reliable, NEW a \in Agent, ~Idle(a), ~Ended(Top(a)), Advance(a), NEW world,
           applied \cap Kept \subseteq world, Yield(Now(Top(a))) \subseteq world
    PROVE  \E stk \in Seq(Frame) :
             /\ stack' = [stack EXCEPT ![a] = stk]
             /\ Behind(stk, world)
<1> DEFINE n == Len(stack[a])
           pc == Top(a).pc + 1
           stk == [stack[a] EXCEPT ![n].pc = pc]
<1>1. /\ stack[a] \in Seq(Frame) /\ stack[a] # <<>>
      /\ Top(a) = stack[a][n] /\ Top(a).m \in Method /\ Top(a).pc \in Nat \ {0}
      /\ Behind(stack[a], applied) /\ Before(Top(a).m, Top(a).pc) \subseteq applied
  BY RunningFacts
<1>2. /\ Top(a).pc \in 1 .. Len(Body[Top(a).m])
      /\ Now(Top(a)) = Body[Top(a).m][Top(a).pc]
      /\ Len(Body[Top(a).m]) \in Nat
  BY <1>1, NowFacts, StepFacts
<1>3. Behind(stack[a], world)
  BY <1>1, BehindStays
<1>4. Before(Top(a).m, pc) \subseteq world
  <2>1. Before(Top(a).m, Top(a).pc) \subseteq Kept
    BY <1>1, BeforeFacts
  <2>2. Before(Top(a).m, pc) = Before(Top(a).m, Top(a).pc) \cup Yield(Now(Top(a)))
    BY <1>1, <1>2, BeforeFacts
  <2> QED
    BY <1>1, <2>1, <2>2
<1>5. pc \in Nat \ {0} /\ pc <= Len(Body[Top(a).m]) + 1
  BY <1>1, <1>2
<1>6. stk \in Seq(Frame) /\ Behind(stk, world)
  BY <1>1, <1>3, <1>4, <1>5, BehindGoto
<1>7. stack' = [stack EXCEPT ![a] = stk]
  BY DEF Advance, Goto
<1> QED
  BY <1>6, <1>7

-------------------------------------------------------------------------------
(* Steps. *)

\* Flags stay truthful while nothing that can be kept goes away.
LEMMA FlagsStay ==
    ASSUME Reliable, applied \cap Kept \subseteq applied', UNCHANGED <<mem, disk, unsaved>>
    PROVE  DoneTypeOK' /\ FlagSound'
<1>1. DoneTypeOK'
  BY DEF Reliable, TypeOK, DoneTypeOK
<1>2. ASSUME NEW k \in Flag, Promised[k] \subseteq applied PROVE Promised[k] \subseteq applied'
  BY <1>2, PromiseAssumption
<1>3. disk \subseteq Flag /\ \A a \in Agent : Loaded(a) => mem[a] \subseteq Flag
  BY DEF Reliable, TypeOK, DoneTypeOK, Loaded
<1>4. \A k \in disk' : Promised[k] \subseteq applied'
  BY <1>2, <1>3 DEF Reliable, FlagSound
<1>5. ASSUME NEW a \in Agent, Loaded(a)', NEW k \in mem'[a] PROVE Promised[k] \subseteq applied'
  BY <1>2, <1>3, <1>5 DEF Reliable, FlagSound, Loaded
<1> QED
  BY <1>1, <1>4, <1>5 DEF FlagSound

\* A step that moves one agent to a stack with its work behind it.
LEMMA Settles ==
    ASSUME Reliable, NEW a \in Agent, NEW stk \in Seq(Frame),
           stack' = [stack EXCEPT ![a] = stk], Behind(stk, applied'),
           applied \cap Kept \subseteq applied', applied' \subseteq Fact,
           DoneTypeOK', FlagSound',
           \A b \in Agent : stack'[b] # <<>> => mem'[b] # NoCopy,
           UNCHANGED wanted, faults' \in 0..MaxFaults
    PROVE  Reliable'
<1>1. stack' \in [Agent -> Seq(Frame)]
  BY DEF Reliable, TypeOK
<1>2. TypeOK'
  BY <1>1 DEF Reliable, TypeOK, Idle, Loaded
<1>3. ASSUME NEW b \in Agent PROVE Behind(stack'[b], applied')
  <2>1. CASE b = a
    BY <2>1 DEF Reliable, TypeOK
  <2>2. CASE b # a
    <3>1. stack'[b] = stack[b] /\ stack[b] \in Seq(Frame) /\ Behind(stack[b], applied)
      BY <2>2 DEF Reliable, TypeOK, CallsSound
    <3> QED
      BY <3>1, BehindStays
  <2> QED
    BY <2>1, <2>2
<1>4. CallsSound'
  BY <1>3 DEF CallsSound
<1> QED
  BY <1>2, <1>4 DEF Reliable

\* The steps that neither mark anything nor end the agent: they end with the
\* flags as they were.
LEMMA QuietStep ==
    ASSUME Reliable, NEW a \in Agent, NEW stk \in Seq(Frame),
           stack' = [stack EXCEPT ![a] = stk], Behind(stk, applied'),
           stk # <<>> => Loaded(a),
           applied \cap Kept \subseteq applied', applied' \subseteq Fact,
           UNCHANGED <<mem, disk, unsaved, wanted>>, faults' \in 0..MaxFaults
    PROVE  Reliable'
<1>1. DoneTypeOK' /\ FlagSound'
  BY FlagsStay
<1>2. ASSUME NEW b \in Agent, stack'[b] # <<>> PROVE mem'[b] # NoCopy
  BY <1>2 DEF Reliable, TypeOK, Idle, Loaded
<1> QED
  BY <1>1, <1>2, Settles

\* An agent without calls has nothing behind it.
LEMMA EmptyBehind ==
    ASSUME NEW world
    PROVE  <<>> \in Seq(Frame) /\ Behind(<<>>, world)
<1>1. <<>> \in Seq(Frame) /\ DOMAIN <<>> = {}
  OBVIOUS
<1> QED
  BY <1>1 DEF Behind

\* Returning with the method's work done.
LEMMA ReturnStays ==
    ASSUME Reliable, NEW a \in Agent, ~Idle(a), Return(a),
           Gained[Top(a).m] \subseteq applied,
           UNCHANGED <<mem, disk, unsaved, applied, wanted, faults>>
    PROVE  Reliable'
<1>1. /\ stack[a] \in Seq(Frame) /\ stack[a] # <<>> /\ Loaded(a)
      /\ Top(a) = stack[a][Len(stack[a])]
      /\ Behind(stack[a], applied)
  BY RunningFacts
<1>2. Back(stack[a]) \in Seq(Frame) /\ Behind(Back(stack[a]), applied)
  BY <1>1, BehindBack
<1>3. stack' = [stack EXCEPT ![a] = Back(stack[a])]
  BY DEF Return
<1>4. applied \subseteq Fact /\ faults \in 0..MaxFaults
  BY DEF Reliable, TypeOK
<1> QED
  BY <1>1, <1>2, <1>3, <1>4, QuietStep

\* Going on to the next step.
LEMMA AdvanceStays ==
    ASSUME Reliable, NEW a \in Agent, ~Idle(a), ~Ended(Top(a)), Advance(a),
           Yield(Now(Top(a))) \subseteq applied',
           applied \cap Kept \subseteq applied', applied' \subseteq Fact,
           UNCHANGED <<mem, disk, unsaved, wanted>>, faults' \in 0..MaxFaults
    PROVE  Reliable'
<1>1. Loaded(a)
  BY RunningFacts
<1>2. PICK stk \in Seq(Frame) : stack' = [stack EXCEPT ![a] = stk] /\ Behind(stk, applied')
  BY AdvanceSound
<1> QED
  BY <1>1, <1>2, QuietStep

\* An exception.
LEMMA UnwindStays ==
    ASSUME Reliable, NEW a \in Agent, Unwind(a),
           UNCHANGED <<mem, disk, unsaved, applied, wanted>>, faults' \in 0..MaxFaults
    PROVE  Reliable'
<1>1. stack' = [stack EXCEPT ![a] = <<>>] /\ applied' \subseteq Fact
  BY DEF Unwind, Reliable, TypeOK
<1>2. <<>> \in Seq(Frame) /\ Behind(<<>>, applied')
  BY EmptyBehind
<1>3. applied \cap Kept \subseteq applied'
  OBVIOUS
<1> QED
  BY <1>1, <1>2, <1>3, QuietStep

-------------------------------------------------------------------------------
(* The actions. *)

\* Everything that an agent executes, except for marks.
LEMMA ExecuteStays ==
    ASSUME Reliable, NEW a \in Agent,
           \/ SkipStep(a) \/ EndOfMethod(a) \/ CheckStep(a) \/ ReturnStep(a)
           \/ RaiseStep(a) \/ CallStep(a) \/ DoStep(a) \/ UndoStep(a)
    PROVE  Reliable'
<1> DEFINE s == Now(Top(a))
<1>1. applied \subseteq Fact /\ faults \in 0..MaxFaults /\ MaxFaults \in Nat
  BY PromiseAssumption DEF Reliable, TypeOK
<1>2. CASE SkipStep(a)
  <2>1. ~Idle(a) /\ ~Ended(Top(a)) /\ ~Runs(a, Top(a)) /\ Advance(a)
        /\ UNCHANGED <<mem, disk, unsaved, applied, wanted, faults>>
    BY <1>2 DEF SkipStep
  <2>2. Yield(s) \subseteq applied
    BY <2>1, MustPass
  <2> QED
    BY <1>1, <2>1, <2>2, AdvanceStays
<1>3. CASE EndOfMethod(a)
  <2>1. ~Idle(a) /\ Return(a) /\ UNCHANGED <<mem, disk, unsaved, applied, wanted, faults>>
    BY <1>3 DEF EndOfMethod
  <2> QED
    BY <1>3, <2>1, ReturnsSound, ReturnStays
<1>4. CASE CheckStep(a)
  <2>1. At(a, {"check"}) /\ UNCHANGED <<mem, disk, unsaved, applied, wanted, faults>>
    BY <1>4 DEF CheckStep
  <2>2. ~Idle(a) /\ ~Ended(Top(a)) /\ s.op = "check"
    BY <2>1 DEF At
  <2>3. CASE DoneCheck(a, s.arg, WithReset(Top(a)))
    <3>1. Return(a)
      BY <1>4, <2>3 DEF CheckStep
    <3>2. Gained[Top(a).m] \subseteq applied
      BY <1>4, <2>3, ReturnsSound
    <3> QED
      BY <2>1, <2>2, <3>1, <3>2, ReturnStays
  <2>4. CASE ~DoneCheck(a, s.arg, WithReset(Top(a)))
    <3>1. Advance(a)
      BY <1>4, <2>4 DEF CheckStep
    <3>2. Yield(s) = {}
      BY <2>2 DEF Yield, Gain
    <3> QED
      BY <1>1, <2>1, <2>2, <3>1, <3>2, AdvanceStays
  <2> QED
    BY <2>3, <2>4
<1>5. CASE ReturnStep(a)
  <2>1. ~Idle(a) /\ Return(a) /\ UNCHANGED <<mem, disk, unsaved, applied, wanted, faults>>
    BY <1>5 DEF ReturnStep, At
  <2> QED
    BY <1>5, <2>1, ReturnsSound, ReturnStays
<1>6. CASE RaiseStep(a)
  <2>1. Unwind(a) /\ UNCHANGED <<mem, disk, unsaved, applied, wanted, faults>>
    BY <1>6 DEF RaiseStep
  <2> QED
    BY <1>1, <2>1, UnwindStays
<1>7. CASE CallStep(a)
  <2> DEFINE fr == [m |-> s.arg, pc |-> 1, args |-> (Top(a).args \cap s.pass) \cup s.give]
  <2>1. /\ ~Idle(a) /\ ~Ended(Top(a)) /\ s.op = "call"
        /\ stack' = [stack EXCEPT ![a] = Append(stack[a], fr)]
        /\ UNCHANGED <<mem, disk, unsaved, applied, wanted, faults>>
    BY <1>7 DEF CallStep, Callee, At
  <2>2. /\ stack[a] \in Seq(Frame) /\ stack[a] # <<>> /\ Loaded(a)
        /\ Top(a) = stack[a][Len(stack[a])] /\ Top(a).args \subseteq Arg
        /\ Behind(stack[a], applied)
    BY <2>1, RunningFacts
  <2>3. /\ s = Body[Top(a).m][Top(a).pc]
        /\ Top(a).pc \in 1 .. Len(Body[Top(a).m])
        /\ s.arg \in Method /\ s.give \subseteq Arg
    BY <2>1, NowFacts DEF WellFormed
  <2>4. fr \in Frame /\ fr.pc = 1 /\ fr.m = s.arg
    <3> DEFINE args == (Top(a).args \cap s.pass) \cup s.give
    <3>1. args \in SUBSET Arg
      BY <2>2, <2>3
    <3>2. s.arg \in Method
      BY <2>3
    <3> HIDE DEF args, s
    <3>3. [m |-> s.arg, pc |-> 1, args |-> args] \in Frame
      BY <3>1, <3>2 DEF Frame
    <3> QED
      BY <3>3 DEF args
  <2>5. Top(a).pc <= Len(Body[Top(a).m])
    BY <2>3
  <2> DEFINE stk == stack[a]
  <2> HIDE DEF fr
  <2>6. /\ stk \in Seq(Frame) /\ stk # <<>> /\ Behind(stk, applied)
        /\ stk[Len(stk)].pc <= Len(Body[stk[Len(stk)].m])
    BY <2>2, <2>5
  <2>7. /\ Body[stk[Len(stk)].m][stk[Len(stk)].pc].op = "call"
        /\ Body[stk[Len(stk)].m][stk[Len(stk)].pc].arg = fr.m
    BY <2>1, <2>2, <2>3, <2>4
  <2> HIDE DEF stk
  <2>8. Append(stk, fr) \in Seq(Frame) /\ Behind(Append(stk, fr), applied)
    BY <2>4, <2>6, <2>7, BehindPush
  <2>9. Append(stack[a], fr) \in Seq(Frame) /\ Behind(Append(stack[a], fr), applied)
    BY <2>8 DEF stk
  <2> QED
    BY <1>1, <2>1, <2>2, <2>9, QuietStep
<1>8. CASE DoStep(a)
  <2>1. /\ ~Idle(a) /\ ~Ended(Top(a)) /\ s.op \in {"do", "try"}
        /\ applied' = applied \cup {s.arg} /\ Advance(a)
        /\ UNCHANGED <<mem, disk, unsaved, wanted, faults>>
    BY <1>8 DEF DoStep, At
  <2>2. s.arg \in Fact
    BY <2>1, NowFacts DEF WellFormed
  <2>3. Yield(s) \subseteq {s.arg}
    BY <2>1 DEF Yield, Gain
  <2> QED
    BY <1>1, <2>1, <2>2, <2>3, AdvanceStays
<1>9. CASE UndoStep(a)
  <2>1. /\ ~Idle(a) /\ ~Ended(Top(a)) /\ s.op = "undo"
        /\ applied' = applied \ s.gone /\ Advance(a)
        /\ UNCHANGED <<mem, disk, unsaved, wanted, faults>>
    BY <1>9 DEF UndoStep, At
  <2>2. s.gone \cap Kept = {}
    BY <2>1, NowFacts
  <2>3. Yield(s) = {}
    BY <2>1 DEF Yield, Gain
  <2> QED
    BY <1>1, <2>1, <2>2, <2>3, AdvanceStays
<1> QED
  BY <1>2, <1>3, <1>4, <1>5, <1>6, <1>7, <1>8, <1>9

\* Writing truthful flags into the agent's copy, and on the target or not.
LEMMA CopyStays ==
    ASSUME Reliable, NEW a \in Agent, NEW flags \in SUBSET Flag,
           \A k \in flags : Promised[k] \subseteq applied,
           NEW stk \in Seq(Frame), stack' = [stack EXCEPT ![a] = stk], Behind(stk, applied'),
           SaveAll(a, flags) \/ SaveLost(a, flags),
           UNCHANGED <<applied, wanted>>, faults' \in 0..MaxFaults
    PROVE  Reliable'
<1>2. flags # NoCopy
  BY DoneAssumption
<1>3. /\ mem \in [Agent -> (SUBSET Flag) \cup {NoCopy}] /\ disk \subseteq Flag
      /\ mem' = [mem EXCEPT ![a] = flags] /\ (disk' = flags \/ disk' = disk)
      /\ unsaved' \subseteq Agent
  BY DEF Reliable, TypeOK, DoneTypeOK, SaveAll, SaveLost
<1>4. DoneTypeOK'
  BY <1>3 DEF DoneTypeOK
<1>5. FlagSound'
  <2>1. ASSUME NEW b \in Agent, Loaded(b)', NEW k \in mem'[b]
        PROVE  Promised[k] \subseteq applied'
    <3>1. CASE b = a
      BY <1>3, <2>1, <3>1
    <3>2. CASE b # a
      <4>1. mem'[b] = mem[b]
        BY <1>3, <3>2
      <4> QED
        BY <2>1, <4>1 DEF Reliable, FlagSound, Loaded
    <3> QED
      BY <3>1, <3>2
  <2>2. \A k \in disk' : Promised[k] \subseteq applied'
    BY <1>3 DEF Reliable, FlagSound
  <2> QED
    BY <2>1, <2>2 DEF FlagSound
<1>6. ASSUME NEW b \in Agent, stack'[b] # <<>> PROVE mem'[b] # NoCopy
  <2>1. CASE b = a
    BY <1>2, <1>3, <2>1
  <2>2. CASE b # a
    <3>1. stack'[b] = stack[b] /\ mem'[b] = mem[b]
      BY <1>3, <2>2 DEF Reliable, TypeOK
    <3> QED
      BY <1>6, <3>1 DEF Reliable, TypeOK, Idle, Loaded
  <2> QED
    BY <2>1, <2>2
<1>7. applied' \subseteq Fact /\ applied \cap Kept \subseteq applied'
  BY DEF Reliable, TypeOK
<1> QED
  BY <1>4, <1>5, <1>6, <1>7, Settles

\* Saving flags whose facts are there.
LEMMA SaveStays ==
    ASSUME Reliable, NEW a \in Agent, NEW flags \in SUBSET Flag,
           \A k \in flags : Promised[k] \subseteq applied,
           ~Idle(a), ~Ended(Top(a)), Advance(a), Yield(Now(Top(a))) = {},
           SaveAll(a, flags), UNCHANGED <<applied, wanted, faults>>
    PROVE  Reliable'
<1>1. applied' \subseteq Fact /\ faults' \in 0..MaxFaults /\ applied \cap Kept \subseteq applied'
  BY DEF Reliable, TypeOK
<1>2. PICK stk \in Seq(Frame) : stack' = [stack EXCEPT ![a] = stk] /\ Behind(stk, applied')
  BY <1>1, AdvanceSound
<1> QED
  BY <1>1, <1>2, CopyStays

\* A save that raises ends the call, whatever it has written.
LEMMA SaveFailStays ==
    ASSUME Reliable, NEW a \in Agent, NEW flags \in SUBSET Flag,
           \A k \in flags : Promised[k] \subseteq applied,
           Unwind(a), SaveFails(a, flags),
           UNCHANGED <<applied, wanted>>, faults' \in 0..MaxFaults
    PROVE  Reliable'
<1>1. CASE UNCHANGED doneVars
  BY <1>1, UnwindStays DEF doneVars
<1>2. CASE SaveAll(a, flags) \/ SaveLost(a, flags)
  <2>1. <<>> \in Seq(Frame) /\ Behind(<<>>, applied')
    BY EmptyBehind
  <2>2. stack' = [stack EXCEPT ![a] = <<>>]
    BY DEF Unwind
  <2> QED
    BY <1>2, <2>1, <2>2, CopyStays
<1> QED
  BY <1>1, <1>2 DEF SaveFails

\* Setting and deleting flags: a flag is set when what it stands for is there,
\* in an agent whose other flags are truthful.
LEMMA MarkSound ==
    ASSUME Reliable, NEW a \in Agent, At(a, {"done", "unset", "forget", "wipe"})
    PROVE  /\ mem[a] \subseteq Flag
           /\ \A k \in mem[a] : Promised[k] \subseteq applied
           /\ Now(Top(a)).op = "done" =>
                /\ mem[a] \cup {Now(Top(a)).arg} \subseteq Flag
                /\ \A k \in mem[a] \cup {Now(Top(a)).arg} : Promised[k] \subseteq applied
<1> DEFINE s == Now(Top(a))
<1>1. ~Idle(a) /\ ~Ended(Top(a)) /\ Runs(a, Top(a))
  BY DEF At
<1>2. Loaded(a) /\ mem[a] \subseteq Flag /\ Before(Top(a).m, Top(a).pc) \subseteq applied
  BY <1>1, RunningFacts
<1>3. \A k \in mem[a] : Promised[k] \subseteq applied
  BY <1>2 DEF Reliable, FlagSound
<1>4. CASE s.op = "done"
  <2>1. s = Body[Top(a).m][Top(a).pc] /\ Sound(Top(a).m, Top(a).pc) /\ May(s)
    BY <1>1, NowFacts
  <2>2. s.arg \in Flag
    BY <1>1, <1>4, NowFacts DEF WellFormed
  <2>3. Promised[s.arg] \subseteq applied
    BY <1>2, <1>4, <2>1 DEF Sound
  <2> QED
    BY <1>2, <1>3, <2>2, <2>3
<1> QED
  BY <1>2, <1>3, <1>4

LEMMA MarkStays ==
    ASSUME Reliable, NEW a \in Agent, MarkStep(a)
    PROVE  Reliable'
<1> DEFINE s == Now(Top(a))
<1>1. /\ ~Idle(a) /\ ~Ended(Top(a)) /\ Advance(a)
      /\ At(a, {"done", "unset", "forget", "wipe"})
      /\ s.op \in {"done", "unset", "forget", "wipe"}
      /\ UNCHANGED <<applied, wanted, faults>>
  BY DEF MarkStep, At
<1>2. /\ mem[a] \subseteq Flag /\ \A k \in mem[a] : Promised[k] \subseteq applied
      /\ s.op = "done" =>
           /\ mem[a] \cup {s.arg} \subseteq Flag
           /\ \A k \in mem[a] \cup {s.arg} : Promised[k] \subseteq applied
  BY <1>1, MarkSound
<1>4. Yield(s) = {}
  BY <1>1 DEF Yield, Gain
<1>5. applied' \subseteq Fact /\ faults' \in 0..MaxFaults /\ applied \cap Kept \subseteq applied'
  BY <1>1 DEF Reliable, TypeOK
<1>6. CASE UNCHANGED doneVars
  BY <1>1, <1>4, <1>5, <1>6, AdvanceStays DEF doneVars
<1>7. CASE \E flags \in SUBSET mem[a] : SaveAll(a, flags)
  <2>1. PICK flags \in SUBSET mem[a] : SaveAll(a, flags)
    BY <1>7
  <2> QED
    BY <1>1, <1>2, <1>4, <2>1, SaveStays
<1>8. CASE s.op = "done" /\ SaveAll(a, mem[a] \cup {s.arg})
  BY <1>1, <1>2, <1>4, <1>8, SaveStays
<1>9. \/ UNCHANGED doneVars
      \/ \E flags \in SUBSET mem[a] : SaveAll(a, flags)
      \/ s.op = "done" /\ SaveAll(a, mem[a] \cup {s.arg})
  <2>1. CASE At(a, {"done"}) /\ DoneSet(a, {s.arg})
    BY <2>1 DEF At, DoneSet
  <2>2. CASE At(a, {"unset"}) /\ DoneDelete(a, s.arg)
    BY <2>2 DEF DoneDelete
  <2>3. CASE At(a, {"forget"}) /\ SaveAll(a, mem[a] \ OfClass(s.arg[1]))
    BY <2>3
  <2>4. CASE At(a, {"wipe"}) /\ (ResetState(a) \/ UNCHANGED doneVars)
    BY <2>4 DEF ResetState
  <2> QED
    BY <2>1, <2>2, <2>3, <2>4 DEF MarkStep
<1> QED
  BY <1>6, <1>7, <1>8, <1>9

\* A command, a check or a save fails: what the flags left in the copy stand for is
\* there, as the flag is set last.
LEMMA FailStays ==
    ASSUME Reliable, NEW a \in Agent, FailStep(a)
    PROVE  Reliable'
<1> DEFINE s == Now(Top(a))
<1>1. UNCHANGED <<applied, wanted>> /\ faults' \in 0..MaxFaults
  BY PromiseAssumption DEF FailStep, Reliable, TypeOK
<1>2. CASE Unwind(a) /\ UNCHANGED doneVars
  BY <1>1, <1>2, UnwindStays DEF doneVars
<1>3. CASE At(a, {"try"}) /\ Advance(a) /\ UNCHANGED doneVars
  <2>1. ~Idle(a) /\ ~Ended(Top(a)) /\ s.op = "try"
    BY <1>3 DEF At
  <2>2. Yield(s) = {}
    BY <2>1 DEF Yield, Gain
  <2>3. applied' \subseteq Fact /\ applied \cap Kept \subseteq applied'
    BY <1>1 DEF Reliable, TypeOK
  <2> QED
    BY <1>1, <1>3, <2>1, <2>2, <2>3, AdvanceStays DEF doneVars
<1>4. CASE MarkFails(a) /\ Unwind(a)
  <2>1. At(a, {"done", "unset", "forget", "wipe"})
    BY <1>4 DEF MarkFails, At
  <2>2. /\ mem[a] \subseteq Flag /\ \A k \in mem[a] : Promised[k] \subseteq applied
        /\ s.op = "done" =>
             /\ mem[a] \cup {s.arg} \subseteq Flag
             /\ \A k \in mem[a] \cup {s.arg} : Promised[k] \subseteq applied
    BY <2>1, MarkSound
  <2>3. \/ \E flags \in SUBSET mem[a] : SaveFails(a, flags)
        \/ s.op = "done" /\ SaveFails(a, mem[a] \cup {s.arg})
    BY <1>4 DEF MarkFails, DoneSetFails, DoneDeleteFails, ResetFails, ResetStateFails, At
  <2>4. ASSUME NEW flags \in SUBSET mem[a], SaveFails(a, flags) PROVE Reliable'
    BY <1>1, <1>4, <2>2, <2>4, SaveFailStays
  <2>5. CASE s.op = "done" /\ SaveFails(a, mem[a] \cup {s.arg})
    BY <1>1, <1>4, <2>2, <2>5, SaveFailStays
  <2> QED
    BY <2>3, <2>4, <2>5
<1> QED
  BY <1>2, <1>3, <1>4 DEF FailStep

\* An operator calls a method.
LEMMA BeginStays ==
    ASSUME Reliable, NEW a \in Agent, NEW m \in wanted[a], NEW args \in Asked,
           Begin(a, m, args)
    PROVE  Reliable'
<1> DEFINE fr == [m |-> m, pc |-> 1, args |-> args]
           stk == <<fr>>
<1>1. /\ Loaded(a) /\ stack' = [stack EXCEPT ![a] = stk]
      /\ UNCHANGED <<mem, disk, unsaved, applied, wanted, faults>>
  BY DEF Begin
<1>2. m \in Method /\ args \subseteq Arg
  <2>1. wanted[a] \in Playbook
    BY DEF Reliable, TypeOK
  <2> QED
    BY <2>1, PromiseAssumption
<1>3. fr \in Frame /\ fr.m = m /\ fr.pc = 1
  BY <1>2 DEF Frame
<1> HIDE DEF fr
<1>4. stk \in Seq(Frame) /\ DOMAIN stk = {1} /\ stk[1] = fr /\ Len(stk) = 1
  BY <1>3
<1>5. Stands(stk, 1, applied)
  <2>1. Before(m, 1) = {} /\ Len(Body[m]) \in Nat
    BY <1>2, BeforeFacts, StepFacts
  <2> QED
    BY <1>3, <1>4, <2>1 DEF Stands
<1>6. Behind(stk, applied)
  BY <1>4, <1>5 DEF Behind
<1>7. applied' \subseteq Fact /\ faults' \in 0..MaxFaults
  BY <1>1 DEF Reliable, TypeOK
<1> QED
  BY <1>1, <1>4, <1>6, <1>7, QuietStep

\* What happens between calls, and to them: reading the state, resets, dying
\* agents and reboots.
LEMMA SurroundingsStay ==
    ASSUME Reliable,
           \/ \E a \in Agent : \/ LoadState(a) \/ Crash(a)
                               \/ \E m \in wanted[a] : \/ ResetClass(a, m[1])
                                                      \/ ResetClassFails(a, m[1])
           \/ Reboot
    PROVE  Reliable'
<1>1. /\ mem \in [Agent -> (SUBSET Flag) \cup {NoCopy}] /\ disk \subseteq Flag
      /\ stack \in [Agent -> Seq(Frame)] /\ applied \subseteq Fact
      /\ faults \in 0..MaxFaults /\ MaxFaults \in Nat
  BY PromiseAssumption DEF Reliable, TypeOK, DoneTypeOK
<1>2. \A S \in SUBSET Flag : S # NoCopy
  BY DoneAssumption
<1>3. ASSUME NEW a \in Agent, LoadState(a) PROVE Reliable'
  <2>1. /\ mem' = [mem EXCEPT ![a] = disk] /\ UNCHANGED <<disk, applied, stack, wanted, faults>>
        /\ unsaved' \subseteq Agent
    BY <1>3 DEF LoadState, Load, callVars, Reliable, TypeOK, DoneTypeOK
  <2>2. DoneTypeOK'
    BY <1>1, <2>1 DEF DoneTypeOK
  <2>3. FlagSound'
    BY <1>1, <2>1 DEF Reliable, FlagSound, Loaded
  <2>4. stack[a] \in Seq(Frame) /\ stack' = [stack EXCEPT ![a] = stack[a]]
    BY <1>1, <2>1
  <2>5. Behind(stack[a], applied')
    BY <2>1 DEF Reliable, CallsSound
  <2>6. ASSUME NEW b \in Agent, stack'[b] # <<>> PROVE mem'[b] # NoCopy
    BY <1>1, <1>2, <2>1, <2>6 DEF Reliable, TypeOK, Idle, Loaded
  <2> QED
    BY <1>1, <2>1, <2>2, <2>3, <2>4, <2>5, <2>6, Settles
<1>4. ASSUME NEW a \in Agent, NEW c, ResetClass(a, c) PROVE Reliable'
  <2> DEFINE kept == mem[a] \ OfClass(c)
  <2>1. PICK copy \in {kept, NoCopy} :
          mem' = [mem EXCEPT ![a] = copy] /\ disk' = kept /\ unsaved' \subseteq Agent
    BY <1>4 DEF ResetClass, Reset, Reliable, TypeOK, DoneTypeOK
  <2>9. kept \subseteq mem[a]
    OBVIOUS
  <2> HIDE DEF kept
  <2>2. stack[a] = <<>> /\ Loaded(a) /\ UNCHANGED <<applied, stack, wanted, faults>>
    BY <1>4 DEF ResetClass, Reset, callVars, Idle
  <2>3. mem[a] \subseteq Flag /\ \A k \in mem[a] : Promised[k] \subseteq applied
    BY <1>1, <2>2 DEF Reliable, FlagSound, Loaded
  <2>4. DoneTypeOK'
    BY <1>1, <2>9, <2>1, <2>3 DEF DoneTypeOK
  <2>5. FlagSound'
    <3>1. ASSUME NEW b \in Agent, Loaded(b)', NEW k \in mem'[b]
          PROVE  Promised[k] \subseteq applied'
      BY <1>1, <2>9, <2>1, <2>2, <2>3, <3>1 DEF Reliable, FlagSound, Loaded
    <3> QED
      BY <2>9, <2>1, <2>2, <2>3, <3>1 DEF FlagSound
  <2>6. stack[a] \in Seq(Frame) /\ stack' = [stack EXCEPT ![a] = stack[a]]
    BY <1>1, <2>2
  <2>7. Behind(stack[a], applied')
    BY <2>2 DEF Reliable, CallsSound
  <2>8. ASSUME NEW b \in Agent, stack'[b] # <<>> PROVE mem'[b] # NoCopy
    <3>1. b # a /\ stack[b] # <<>>
      BY <2>2, <2>8
    <3> QED
      BY <1>1, <2>1, <3>1 DEF Reliable, TypeOK, Idle, Loaded
  <2> QED
    BY <1>1, <2>2, <2>4, <2>5, <2>6, <2>7, <2>8, Settles
<1>5. ASSUME NEW a \in Agent, Crash(a) PROVE Reliable'
  <2>1. /\ mem' = [mem EXCEPT ![a] = NoCopy] /\ stack' = [stack EXCEPT ![a] = <<>>]
        /\ UNCHANGED <<disk, applied, wanted>> /\ faults' = faults + 1 /\ faults < MaxFaults
        /\ unsaved' \subseteq Agent
    BY <1>5 DEF Crash, Restart, DropCopy, Unwind, Reliable, TypeOK, DoneTypeOK
  <2>2. DoneTypeOK' /\ faults' \in 0..MaxFaults
    BY <1>1, <2>1 DEF DoneTypeOK
  <2>3. FlagSound'
    BY <1>1, <2>1 DEF Reliable, FlagSound, Loaded
  <2>4. <<>> \in Seq(Frame) /\ Behind(<<>>, applied')
    BY EmptyBehind
  <2>5. ASSUME NEW b \in Agent, stack'[b] # <<>> PROVE mem'[b] # NoCopy
    <3>1. b # a
      BY <1>1, <2>1, <2>5
    <3> QED
      BY <1>1, <2>1, <2>5, <3>1 DEF Reliable, TypeOK, Idle, Loaded
  <2> QED
    BY <1>1, <2>1, <2>2, <2>3, <2>4, <2>5, Settles
<1>6. CASE Reboot
  <2>1. /\ applied' = applied \ Volatile /\ stack' = [a \in Agent |-> <<>>]
        /\ UNCHANGED <<mem, disk, unsaved, wanted>> /\ faults' = faults + 1 /\ faults < MaxFaults
    BY <1>6 DEF Reboot
  <2>2. applied \cap Kept \subseteq applied' /\ applied' \subseteq Fact
    BY <1>1, <2>1, KeptAssumption
  <2>3. DoneTypeOK' /\ FlagSound'
    BY <2>1, <2>2, FlagsStay
  <2>4. <<>> \in Seq(Frame) /\ Behind(<<>>, applied')
    BY EmptyBehind
  <2>5. TypeOK'
    BY <1>1, <2>1, <2>2, <2>3, <2>4 DEF Reliable, TypeOK, Idle
  <2>6. CallsSound'
    BY <2>1, <2>4 DEF CallsSound
  <2> QED
    BY <2>3, <2>5, <2>6 DEF Reliable
<1>7. ASSUME NEW a \in Agent, NEW c, ResetClassFails(a, c) PROVE Reliable'
  <2>1. /\ Loaded(a) /\ stack[a] = <<>> /\ UNCHANGED <<applied, stack, wanted>>
        /\ SaveFails(a, mem[a] \ OfClass(c)) /\ faults' = faults + 1 /\ faults < MaxFaults
    BY <1>7 DEF ResetClassFails, ResetFails, Idle
  <2>2. Unwind(a) /\ faults' \in 0..MaxFaults
    BY <1>1, <2>1 DEF Unwind
  <2>3. mem[a] \ OfClass(c) \in SUBSET Flag
    BY <1>1, <2>1 DEF Loaded
  <2>4. \A k \in mem[a] \ OfClass(c) : Promised[k] \subseteq applied
    BY <2>1 DEF Reliable, FlagSound
  <2> QED
    BY <2>1, <2>2, <2>3, <2>4, SaveFailStays
<1> QED
  BY <1>3, <1>4, <1>5, <1>6, <1>7

-------------------------------------------------------------------------------
(* The theorems. *)

\* The initial states, before any agent has read or done anything.
LEMMA Begins == Init => Reliable
<1> SUFFICES ASSUME Init PROVE Reliable
  OBVIOUS
<1>1. <<>> \in Seq(Frame) /\ Behind(<<>>, applied)
  BY EmptyBehind
<1>2. 0 \in 0..MaxFaults
  BY PromiseAssumption
<1>3. TypeOK
  BY <1>1, <1>2 DEF Init, DoneInit, TypeOK, DoneTypeOK, Idle
<1>4. FlagSound
  BY DEF Init, DoneInit, FlagSound, Loaded
<1>5. CallsSound
  BY <1>1 DEF Init, CallsSound
<1> QED
  BY <1>3, <1>4, <1>5 DEF Reliable

\* Every step.
LEMMA Continues == Reliable /\ [Next]_vars => Reliable'
<1> SUFFICES ASSUME Reliable, [Next]_vars PROVE Reliable'
  OBVIOUS
<1>1. ASSUME NEW a \in Agent, Execute(a) \/ FailStep(a) PROVE Reliable'
  BY <1>1, ExecuteStays, MarkStays, FailStays DEF Execute
<1>2. ASSUME NEW a \in Agent, LoadState(a) \/ Crash(a) PROVE Reliable'
  BY <1>2, SurroundingsStay
<1>3. ASSUME NEW a \in Agent, NEW m \in wanted[a], NEW args \in Asked, Begin(a, m, args)
      PROVE  Reliable'
  BY <1>3, BeginStays
<1>4. ASSUME NEW a \in Agent, NEW m \in wanted[a],
             ResetClass(a, m[1]) \/ ResetClassFails(a, m[1])
      PROVE  Reliable'
  BY <1>4, SurroundingsStay
<1>5. CASE Reboot
  BY <1>5, SurroundingsStay
<1>6. CASE UNCHANGED vars
  BY <1>6 DEF vars, Reliable, TypeOK, DoneTypeOK, FlagSound, CallsSound, Loaded, Idle
<1> QED
  BY <1>1, <1>2, <1>3, <1>4, <1>5, <1>6 DEF Next

\* The invariant of every execution.
THEOREM AlwaysReliable == Spec => []Reliable
  BY Begins, Continues, PTL DEF Spec

\* Every stack is a stack of calls, and whoever executes anything has read the
\* state.
THEOREM TypeCorrect == Spec => []TypeOK
<1>1. Reliable => TypeOK
  BY DEF Reliable
<1> QED
  BY <1>1, AlwaysReliable, PTL

\* A flag never lies: with disciplined recipes, what a saved or copied flag
\* stands for is there, after any interruption, retry, reset or write of
\* another agent (PrefabBase.doneSet and doneGet).
THEOREM FlagsSound == Spec => []FlagSound
<1>1. Reliable => FlagSound
  BY DEF Reliable
<1> QED
  BY <1>1, AlwaysReliable, PTL

\* No call runs ahead of the target.
THEOREM CallsAreSound == Spec => []CallsSound
<1>1. Reliable => CallsSound
  BY DEF Reliable
<1> QED
  BY <1>1, AlwaysReliable, PTL

\* A call that returns without an exception has done its work.
THEOREM ReturnsInstall == Spec => SuccessInstalls
<1>1. ASSUME Reliable, NEW a \in Agent, Finishes(a)
      PROVE  Gained[stack[a][1].m] \subseteq applied'
  <2>1. ~Idle(a) /\ UNCHANGED applied
    BY <1>1 DEF Finishes, EndOfMethod, CheckStep, ReturnStep, At
  <2>2. /\ stack[a] \in Seq(Frame) /\ stack[a] # <<>> /\ Len(stack[a]) = 1
        /\ Top(a) = stack[a][1] /\ Top(a).m \in Method
    BY <1>1, <2>1, RunningFacts DEF Finishes
  <2>3. CheckStep(a) => DoneCheck(a, Now(Top(a)).arg, WithReset(Top(a)))
    <3> SUFFICES ASSUME CheckStep(a), ~DoneCheck(a, Now(Top(a)).arg, WithReset(Top(a)))
                 PROVE  FALSE
      OBVIOUS
    <3>1. ~Ended(Top(a)) /\ Advance(a) /\ Now(Top(a)).op = "check"
      BY DEF CheckStep, At
    <3>2. stack'[a] = [stack[a] EXCEPT ![Len(stack[a])].pc = Top(a).pc + 1]
      BY <1>1, <3>1 DEF Advance, Goto, Reliable, TypeOK
    <3>3. DOMAIN stack'[a] = DOMAIN stack[a]
      BY <3>2
    <3>4. 1 \in DOMAIN stack[a] /\ stack'[a] = <<>>
      BY <1>1, <2>2, StackFacts DEF Finishes
    <3> QED
      BY <3>3, <3>4
  <2>4. Gained[Top(a).m] \subseteq applied
    BY <1>1, <2>3, ReturnsSound DEF Finishes
  <2> QED
    BY <2>1, <2>2, <2>4
<1>2. Reliable => [\A a \in Agent : Finishes(a) => Gained[stack[a][1].m] \subseteq applied']_vars
  BY <1>1
<1> QED
  BY <1>2, AlwaysReliable, PTL DEF SuccessInstalls

\* A step of prefab either keeps the saved flags, and every fact that can be
\* kept, or leaves the target as it is.
LEMMA StepShape ==
    ASSUME Reliable, [Next]_vars
    PROVE  \/ disk' = disk /\ applied \cap Kept \subseteq applied'
           \/ applied' = applied
<1>1. ASSUME NEW a \in Agent, UndoStep(a) PROVE applied \cap Kept \subseteq applied'
  <2>1. ~Idle(a) /\ ~Ended(Top(a)) /\ applied' = applied \ Now(Top(a)).gone
    BY <1>1 DEF UndoStep, At
  <2>2. Now(Top(a)).gone \cap Kept = {}
    BY <1>1, <2>1, NowFacts
  <2> QED
    BY <2>1, <2>2
<1>2. ASSUME NEW a \in Agent, Execute(a)
      PROVE  \/ disk' = disk /\ applied \cap Kept \subseteq applied'
             \/ applied' = applied
  BY <1>1, <1>2 DEF Execute, SkipStep, EndOfMethod, CheckStep, ReturnStep, RaiseStep,
                    CallStep, DoStep, UndoStep, MarkStep
<1>3. ASSUME NEW a \in Agent,
             \/ FailStep(a) \/ LoadState(a) \/ Crash(a)
             \/ \E m \in wanted[a] : \/ \E args \in Asked : Begin(a, m, args)
                                     \/ ResetClass(a, m[1]) \/ ResetClassFails(a, m[1])
      PROVE  applied' = applied
  BY <1>3 DEF FailStep, LoadState, Crash, Begin, ResetClass, ResetClassFails, callVars
<1>4. CASE Reboot
  BY <1>4, KeptAssumption DEF Reboot
<1>5. CASE UNCHANGED vars
  BY <1>5 DEF vars
<1> QED
  BY <1>2, <1>3, <1>4, <1>5 DEF Next

\* The saved flags are a ledger: a flag enters only when what it stands for
\* lasts on the target (PrefabLedger, of which LedgerHonest is the consequence).
THEOREM KeepsLedger == Spec => LedgerSpec
<1>1. Init => Ledger!Init
  BY DEF Init, DoneInit, Ledger!Init
<1>2. ASSUME Reliable, Reliable', [Next]_vars PROVE [Ledger!Next]_<<disk, applied>>
  <2>1. CASE disk' = disk /\ applied \cap Kept \subseteq applied'
    BY <2>1 DEF Ledger!Next, Ledger!Change
  <2>2. CASE applied' = applied
    <3>1. disk' \subseteq Flag /\ \A k \in disk' : Promised[k] \subseteq applied
      BY <1>2, <2>2 DEF Reliable, TypeOK, DoneTypeOK, FlagSound
    <3> QED
      BY <2>2, <3>1 DEF Ledger!Next, Ledger!Record
  <2> QED
    BY <1>2, <2>1, <2>2, StepShape
<1>3. Reliable /\ Reliable' /\ [Next]_vars => [Ledger!Next]_<<disk, applied>>
  BY <1>2
<1> QED
  BY <1>1, <1>3, AlwaysReliable, PTL DEF Spec, LedgerSpec, Ledger!Spec
-------------------------------------------------------------------------------
(* Work that is done is remembered.  The copy of an agent is its own, so   *)
(* that no other agent can take a flag out of it: what has to be shown is  *)
(* that the agent's outermost call, once it has set its flag, makes no     *)
(* call, at any depth, that takes it away again.                           *)

\* The outermost call of a stack has its own flag when it must have it, and
\* the calls that it has made since are such that leave it alone.
Heeds(stk, flags) ==
    stk # <<>> /\ stk[1].m \in Remembering =>
      /\ Len(stk) = 1 /\ Marked(stk[1].m, stk[1].pc) => OwnFlag(stk[1].m) \in flags
      /\ Len(stk) > 1 /\ Marked(stk[1].m, stk[1].pc + 1) =>
           /\ OwnFlag(stk[1].m) \in flags
           /\ \A i \in 2 .. Len(stk) : OwnFlag(stk[1].m) \notin Losing[stk[i].m]
Mindful == \A a \in Agent \ ReadOnly : Heeds(stack[a], mem[a])

\* A method starts without a right to its flag; from one step to the next it
\* has it because the step sets it, or because it had it and keeps it.
LEMMA MarkedFacts ==
    ASSUME NEW m
    PROVE  /\ ~Marked(m, 1)
           /\ \A i \in Nat \ {0} :
                Marked(m, i + 1) =>
                  \/ Marks(Body[m][i], OwnFlag(m))
                  \/ Marked(m, i) /\ OwnFlag(m) \notin MayLose(Body[m][i])
<1>1. ~Marked(m, 1)
  BY DEF Marked
<1>2. ASSUME NEW i \in Nat \ {0}, Marked(m, i + 1), ~Marks(Body[m][i], OwnFlag(m))
      PROVE  Marked(m, i) /\ OwnFlag(m) \notin MayLose(Body[m][i])
  <2>1. (i + 1) - 1 = i
    OBVIOUS
  <2>2. PICK j \in 1 .. i :
          /\ Marks(Body[m][j], OwnFlag(m))
          /\ \A k \in (j + 1) .. i : OwnFlag(m) \notin MayLose(Body[m][k])
    BY <1>2, <2>1 DEF Marked
  <2>3. j # i
    BY <1>2, <2>2
  <2>4. /\ j \in 1 .. (i - 1) /\ i \in (j + 1) .. i
        /\ \A k \in (j + 1) .. (i - 1) : k \in (j + 1) .. i
    BY <2>3
  <2> QED
    BY <2>2, <2>4 DEF Marked
<1> QED
  BY <1>1, <1>2

\* The flag of a call that may be taken away is one of those its method loses.
LEMMA LosingFacts ==
    ASSUME NEW m \in Method, NEW i \in 1 .. Len(Body[m])
    PROVE  MayLose(Body[m][i]) \subseteq Losing[m]
<1>1. Body[m][i] \in Steps(m)
  BY PromiseAssumption DEF Steps
<1> QED
  BY <1>1, LosingAssumption

\* What is not one is more than one.
LEMMA MoreThanOne ==
    ASSUME NEW n \in Nat \ {0}, n # 1
    PROVE  /\ n > 1 /\ n \in 2 .. n
           /\ 1 \in 1 .. (n - 1)
           /\ n - 1 > 1 => n - 1 # 1
  OBVIOUS

\* Moving on changes the position of the running call and nothing else.
LEMMA GotoShape ==
    ASSUME NEW stk \in Seq(Frame), stk # <<>>, NEW pc \in Nat \ {0}
    PROVE  LET new == [stk EXCEPT ![Len(stk)].pc = pc] IN
             /\ Len(new) = Len(stk)
             /\ new # <<>>
             /\ \A i \in 1 .. Len(stk) :
                  new[i].m = stk[i].m /\ new[i].pc = IF i = Len(stk) THEN pc ELSE stk[i].pc
<1> DEFINE n == Len(stk)
           fr == [stk[n] EXCEPT !.pc = pc]
           new == [stk EXCEPT ![n] = fr]
<1>1. n \in Nat \ {0} /\ DOMAIN stk = 1 .. n /\ stk[n] \in Frame /\ n \in 1 .. n
  BY StackFacts
<1>2. fr \in Frame /\ fr.m = stk[n].m /\ fr.pc = pc
  BY <1>1 DEF Frame
<1>3. /\ new \in Seq(Frame) /\ Len(new) = n
      /\ \A i \in 1 .. n : new[i] = IF i = n THEN fr ELSE stk[i]
  BY <1>1, <1>2, ExceptSeq
<1>4. new # <<>>
  BY <1>1, <1>3, StackFacts
<1> QED
  BY <1>2, <1>3, <1>4

\* Returning drops the running call, and moves its caller on.
LEMMA BackShape ==
    ASSUME NEW stk \in Seq(Frame), stk # <<>>
    PROVE  /\ Len(stk) = 1 => Back(stk) = <<>>
           /\ Len(stk) # 1 =>
                /\ Len(Back(stk)) = Len(stk) - 1
                /\ Back(stk) # <<>>
                /\ \A i \in 1 .. (Len(stk) - 1) :
                     /\ Back(stk)[i].m = stk[i].m
                     /\ Back(stk)[i].pc = IF i = Len(stk) - 1 THEN stk[i].pc + 1 ELSE stk[i].pc
<1> DEFINE n == Len(stk)
           rest == SubSeq(stk, 1, n - 1)
<1>1. n \in Nat \ {0} /\ DOMAIN stk = 1 .. n
  BY StackFacts
<1>2. CASE n = 1
  BY <1>2 DEF Back
<1>3. CASE n # 1
  <2>1. n - 1 \in 1 .. n /\ n - 1 # 0 /\ n - 1 \in Nat /\ 1 <= n - 1 /\ (n - 1) - 1 + 1 = n - 1
    BY <1>1, <1>3
  <2>2. \A i \in 1 .. (n - 1) : stk[i] \in Frame
    BY <1>1, StackFacts
  <2>3. /\ rest \in Seq(Frame) /\ Len(rest) = n - 1
        /\ \A i \in 1 .. (n - 1) : rest[i] = stk[1 + i - 1]
    BY <2>1, <2>2, SubSeqProperties
  <2>4. \A i \in 1 .. (n - 1) : 1 + i - 1 = i
    OBVIOUS
  <2>5. rest # <<>> /\ \A i \in 1 .. (n - 1) : rest[i] = stk[i]
    BY <2>1, <2>3, <2>4, StackFacts
  <2>6. stk[n - 1].pc + 1 \in Nat \ {0}
    BY <2>1, StackFacts
  <2>7. rest[n - 1].pc + 1 = stk[n - 1].pc + 1 /\ n - 1 \in 1 .. (n - 1)
    BY <2>1, <2>5
  <2>8. Back(stk) = [rest EXCEPT ![n - 1].pc = stk[n - 1].pc + 1]
    BY <1>3, <2>7 DEF Back
  <2> HIDE DEF rest
  <2>9. LET new == [rest EXCEPT ![Len(rest)].pc = stk[n - 1].pc + 1] IN
          /\ Len(new) = Len(rest)
          /\ new # <<>>
          /\ \A i \in 1 .. Len(rest) :
               /\ new[i].m = rest[i].m
               /\ new[i].pc = IF i = Len(rest) THEN stk[n - 1].pc + 1 ELSE rest[i].pc
    BY <2>3, <2>5, <2>6, GotoShape
  <2> QED
    BY <1>3, <2>3, <2>5, <2>8, <2>9
<1> QED
  BY <1>2, <1>3

\* Going on to the next step, with flags from which only that was taken which
\* the step may take away, and in which there is what it is sure to set.
LEMMA HeedsOn ==
    ASSUME Reliable, NEW a \in Agent, ~Idle(a), ~Ended(Top(a)), Advance(a),
           Heeds(stack[a], mem[a]), NEW flags,
           \A f \in mem[a] : f \notin MayLose(Now(Top(a))) => f \in flags,
           \A f : Marks(Now(Top(a)), f) => f \in flags
    PROVE  Heeds(stack'[a], flags)
<1> DEFINE stk == stack[a]
           n == Len(stk)
           new == [stk EXCEPT ![n].pc = Top(a).pc + 1]
           m == stk[1].m
<1>1. /\ stk \in Seq(Frame) /\ stk # <<>> /\ Top(a) = stk[n]
      /\ Top(a).m \in Method /\ Top(a).pc \in Nat \ {0}
      /\ n \in Nat \ {0}
  BY RunningFacts, StackFacts
<1>2. /\ Now(Top(a)) = Body[Top(a).m][Top(a).pc]
      /\ Top(a).pc \in 1 .. Len(Body[Top(a).m])
  BY NowFacts
<1>3. Top(a).pc + 1 \in Nat \ {0}
  BY <1>1
<1>4. /\ Len(new) = n
      /\ \A i \in 1 .. n : /\ new[i].m = stk[i].m
                           /\ new[i].pc = IF i = n THEN Top(a).pc + 1 ELSE stk[i].pc
  BY <1>1, <1>3, GotoShape
<1>5. stack'[a] = new
  BY DEF Advance, Goto, Reliable, TypeOK
<1> HIDE DEF new
<1>6. new[1].m = m /\ m = stk[1].m
  BY <1>1, <1>4
<1> SUFFICES ASSUME m \in Remembering
             PROVE  /\ n = 1 /\ Marked(m, new[1].pc) => OwnFlag(m) \in flags
                    /\ n > 1 /\ Marked(m, new[1].pc + 1) =>
                         /\ OwnFlag(m) \in flags
                         /\ \A i \in 2 .. n : OwnFlag(m) \notin Losing[new[i].m]
  BY <1>4, <1>5, <1>6 DEF Heeds
<1>7. ASSUME n = 1, Marked(m, new[1].pc) PROVE OwnFlag(m) \in flags
  <2>1. new[1].pc = Top(a).pc + 1 /\ Top(a) = stk[1]
    BY <1>1, <1>4, <1>7
  <2>2. \/ Marks(Now(Top(a)), OwnFlag(m))
        \/ Marked(m, Top(a).pc) /\ OwnFlag(m) \notin MayLose(Now(Top(a)))
    BY <1>1, <1>2, <1>7, <2>1, MarkedFacts
  <2>3. Marked(m, Top(a).pc) => OwnFlag(m) \in mem[a]
    BY <1>1, <1>7, <2>1 DEF Heeds
  <2> QED
    BY <2>2, <2>3
<1>8. ASSUME n > 1, Marked(m, new[1].pc + 1)
      PROVE  /\ OwnFlag(m) \in flags
             /\ \A i \in 2 .. n : OwnFlag(m) \notin Losing[new[i].m]
  <2>1. 1 \in 1 .. n /\ 1 # n /\ n \in 2 .. n
    BY <1>1, <1>8
  <2>2. new[1].pc = stk[1].pc
    BY <1>4, <2>1
  <2>3. OwnFlag(m) \in mem[a] /\ \A i \in 2 .. n : OwnFlag(m) \notin Losing[stk[i].m]
    BY <1>1, <1>8, <2>2 DEF Heeds
  <2>4. OwnFlag(m) \notin MayLose(Now(Top(a)))
    BY <1>1, <1>2, <2>1, <2>3, LosingFacts
  <2>5. \A i \in 2 .. n : new[i].m = stk[i].m
    BY <1>1, <1>4
  <2> QED
    BY <2>3, <2>4, <2>5
<1> QED
  BY <1>7, <1>8

\* Returning to a caller that has its flag still.
LEMMA HeedsBack ==
    ASSUME Reliable, NEW a \in Agent, ~Idle(a), Return(a), Heeds(stack[a], mem[a])
    PROVE  Heeds(stack'[a], mem[a])
<1> DEFINE stk == stack[a]
           n == Len(stk)
           new == Back(stk)
           m == stk[1].m
<1>1. stk \in Seq(Frame) /\ stk # <<>> /\ n \in Nat \ {0}
  BY RunningFacts, StackFacts
<1>2. stack'[a] = new
  BY DEF Return, Reliable, TypeOK
<1>3. CASE n = 1
  BY <1>1, <1>2, <1>3, BackShape DEF Heeds
<1>4. CASE n # 1
  <2>1. /\ Len(new) = n - 1
        /\ \A i \in 1 .. (n - 1) :
             /\ new[i].m = stk[i].m
             /\ new[i].pc = IF i = n - 1 THEN stk[i].pc + 1 ELSE stk[i].pc
    BY <1>1, <1>4, BackShape
  <2> HIDE DEF new
  <2>2. 1 \in 1 .. (n - 1) /\ n > 1 /\ new[1].m = m
    <3>1. 1 \in 1 .. (n - 1) /\ n > 1
      BY <1>1, <1>4, MoreThanOne
    <3> QED
      BY <2>1, <3>1
  <2> SUFFICES ASSUME m \in Remembering
               PROVE  /\ n - 1 = 1 /\ Marked(m, new[1].pc) => OwnFlag(m) \in mem[a]
                      /\ n - 1 > 1 /\ Marked(m, new[1].pc + 1) =>
                           /\ OwnFlag(m) \in mem[a]
                           /\ \A i \in 2 .. (n - 1) : OwnFlag(m) \notin Losing[new[i].m]
    BY <1>2, <2>1, <2>2 DEF Heeds
  <2>3. Marked(m, stk[1].pc + 1) =>
          /\ OwnFlag(m) \in mem[a]
          /\ \A i \in 2 .. n : OwnFlag(m) \notin Losing[stk[i].m]
    BY <1>1, <2>2 DEF Heeds
  <2>4. new[1].pc = IF n - 1 = 1 THEN stk[1].pc + 1 ELSE stk[1].pc
    BY <2>1, <2>2
  <2>5. \A i \in 2 .. (n - 1) : i \in 2 .. n /\ new[i].m = stk[i].m
    BY <1>1, <2>1
  <2>6. ASSUME n - 1 = 1, Marked(m, new[1].pc) PROVE OwnFlag(m) \in mem[a]
    <3>1. new[1].pc = stk[1].pc + 1
      BY <2>4, <2>6
    <3> QED
      BY <2>3, <2>6, <3>1
  <2>7. ASSUME n - 1 > 1, Marked(m, new[1].pc + 1)
        PROVE  /\ OwnFlag(m) \in mem[a]
               /\ \A i \in 2 .. (n - 1) : OwnFlag(m) \notin Losing[new[i].m]
    <3>1. new[1].pc = stk[1].pc
      <4>1. n - 1 # 1
        BY <1>1, <1>4, <2>7, MoreThanOne
      <4> QED
        BY <2>4, <4>1
    <3>2. Marked(m, stk[1].pc + 1)
      BY <2>7, <3>1
    <3> QED
      BY <2>3, <2>5, <3>2
  <2> QED
    BY <2>6, <2>7
<1> QED
  BY <1>3, <1>4

\* Calling another method: the outermost call keeps a right to its flag only
\* past a call that leaves it alone.
LEMMA HeedsCall ==
    ASSUME Reliable, NEW a \in Agent, CallStep(a), Heeds(stack[a], mem[a])
    PROVE  Heeds(stack'[a], mem[a])
<1> DEFINE stk == stack[a]
           n == Len(stk)
           s == Now(Top(a))
           fr == Callee(Top(a).args, s)
           new == Append(stk, fr)
           m == stk[1].m
<1>1. ~Idle(a) /\ ~Ended(Top(a)) /\ s.op = "call" /\ stack'[a] = new
  BY DEF CallStep, At, Reliable, TypeOK
<1>2. /\ stk \in Seq(Frame) /\ stk # <<>> /\ n \in Nat \ {0}
      /\ Top(a) = stk[n] /\ Top(a).m \in Method /\ Top(a).pc \in Nat \ {0}
      /\ mem[a] \subseteq Flag
  BY <1>1, RunningFacts, StackFacts
<1>3. /\ s = Body[Top(a).m][Top(a).pc] /\ Top(a).pc \in 1 .. Len(Body[Top(a).m])
      /\ s.arg \in Method
  BY <1>1, NowFacts DEF WellFormed
<1>4. fr.m = s.arg
  BY DEF Callee
<1> HIDE DEF fr, s
<1>5. /\ Len(new) = n + 1 /\ new[n + 1] = fr
      /\ \A i \in 1 .. n : new[i] = stk[i]
  BY <1>2
<1> HIDE DEF new
<1>6. new[1] = stk[1]
  BY <1>2, <1>5
<1> SUFFICES ASSUME m \in Remembering, Marked(m, stk[1].pc + 1)
             PROVE  /\ OwnFlag(m) \in mem[a]
                    /\ \A i \in 2 .. (n + 1) : OwnFlag(m) \notin Losing[new[i].m]
  BY <1>1, <1>2, <1>5, <1>6 DEF Heeds
<1>7. /\ OwnFlag(m) \in mem[a]
      /\ OwnFlag(m) \notin MayLose(s)
      /\ \A i \in 2 .. n : OwnFlag(m) \notin Losing[stk[i].m]
  <2>1. CASE n = 1
    <3>1. Top(a) = stk[1] /\ s = Body[m][stk[1].pc] /\ stk[1].pc \in Nat \ {0}
      BY <1>2, <1>3, <2>1
    <3>2. ~Marks(s, OwnFlag(m))
      BY <1>1 DEF Marks
    <3>3. Marked(m, stk[1].pc) /\ OwnFlag(m) \notin MayLose(s)
      BY <3>1, <3>2, MarkedFacts
    <3> QED
      BY <1>2, <2>1, <3>3 DEF Heeds
  <2>2. CASE n # 1
    <3>1. n > 1 /\ n \in 2 .. n
      BY <1>2, <2>2, MoreThanOne
    <3>2. OwnFlag(m) \in mem[a] /\ \A i \in 2 .. n : OwnFlag(m) \notin Losing[stk[i].m]
      BY <1>2, <3>1 DEF Heeds
    <3>3. OwnFlag(m) \notin MayLose(s)
      BY <1>2, <1>3, <3>1, <3>2, LosingFacts
    <3> QED
      BY <3>2, <3>3
  <2> QED
    BY <2>1, <2>2
<1>8. OwnFlag(m) \notin Losing[fr.m]
  BY <1>1, <1>2, <1>4, <1>7 DEF MayLose
<1>9. ASSUME NEW i \in 2 .. (n + 1) PROVE OwnFlag(m) \notin Losing[new[i].m]
  <2>1. CASE i = n + 1
    BY <1>5, <1>8, <2>1
  <2>2. CASE i # n + 1
    <3>1. i \in 2 .. n /\ i \in 1 .. n
      BY <1>2, <2>2
    <3> QED
      BY <1>5, <1>7, <3>1
  <2> QED
    BY <2>1, <2>2
<1> QED
  BY <1>7, <1>9

\* A step that is sure to set a flag is only skipped when the flag is set.
LEMMA SkipMarks ==
    ASSUME Reliable, NEW a \in Agent, ~Idle(a), ~Ended(Top(a)), ~Runs(a, Top(a)),
           NEW f, Marks(Now(Top(a)), f)
    PROVE  f \in mem[a]
<1> DEFINE s == Now(Top(a))
<1>1. Top(a).args \subseteq Arg
  BY RunningFacts
<1>2. s.when \subseteq Tags(Top(a)) /\ s.not \cap Tags(Top(a)) = {}
  BY <1>1 DEF Marks, Must, Tags
<1>3. NoFact \notin applied
  BY PromiseAssumption DEF Reliable, TypeOK
<1>4. \/ \E k \in s.undone : DoneCheck(a, k, WithReset(Top(a)))
      \/ \E k \in s.unmarked : DoneGet(a, k)
  BY <1>2, <1>3 DEF Runs, Allows, Marks, Must
<1>5. s.undone \cup s.unmarked \subseteq {f}
  BY DEF Marks
<1> QED
  BY <1>4, <1>5 DEF DoneCheck, DoneGet

\* Everything that the agent itself executes.
LEMMA ExecuteHeeds ==
    ASSUME Reliable, NEW a \in Agent, a \notin ReadOnly, Execute(a) \/ FailStep(a),
           Heeds(stack[a], mem[a])
    PROVE  Heeds(stack'[a], mem'[a])
<1> DEFINE s == Now(Top(a))
<1>1. stack \in [Agent -> Seq(Frame)] /\ mem \in [Agent -> (SUBSET Flag) \cup {NoCopy}]
  BY DEF Reliable, TypeOK, DoneTypeOK
<1>2. CASE SkipStep(a)
  BY <1>2, SkipMarks, HeedsOn DEF SkipStep
<1>3. CASE EndOfMethod(a)
  BY <1>3, HeedsBack DEF EndOfMethod
<1>4. CASE CheckStep(a)
  <2>1. ~Idle(a) /\ ~Ended(Top(a)) /\ s.op = "check" /\ UNCHANGED mem
    BY <1>4 DEF CheckStep, At
  <2>2. \A f : ~Marks(s, f)
    BY <2>1 DEF Marks
  <2> QED
    BY <1>4, <2>1, <2>2, HeedsBack, HeedsOn DEF CheckStep
<1>5. CASE ReturnStep(a)
  BY <1>5, HeedsBack DEF ReturnStep, At
<1>6. CASE RaiseStep(a) \/ Unwind(a)
  BY <1>1, <1>6 DEF RaiseStep, Unwind, Heeds
<1>7. CASE CallStep(a)
  BY <1>7, HeedsCall DEF CallStep
<1>8. CASE DoStep(a) \/ UndoStep(a)
  <2>1. ~Idle(a) /\ ~Ended(Top(a)) /\ Advance(a) /\ UNCHANGED mem
        /\ s.op \in {"do", "try", "undo"}
    BY <1>8 DEF DoStep, UndoStep, At
  <2>2. \A f : ~Marks(s, f)
    BY <2>1 DEF Marks
  <2> QED
    BY <2>1, <2>2, HeedsOn
<1>9. CASE FailStep(a)
  <2>1. CASE Unwind(a)
    BY <1>6, <2>1
  <2>2. CASE At(a, {"try"}) /\ Advance(a) /\ UNCHANGED doneVars
    <3>1. ~Idle(a) /\ ~Ended(Top(a)) /\ s.op = "try" /\ UNCHANGED mem
      BY <2>2 DEF At, doneVars
    <3>2. \A f : ~Marks(s, f)
      BY <3>1 DEF Marks
    <3> QED
      BY <2>2, <3>1, <3>2, HeedsOn
  <2> QED
    BY <1>9, <2>1, <2>2 DEF FailStep
<1>10. CASE MarkStep(a)
  <2>1. /\ ~Idle(a) /\ ~Ended(Top(a)) /\ Advance(a)
    BY <1>10 DEF MarkStep, At
  <2>2. mem[a] \subseteq Flag
    BY <2>1, RunningFacts
  <2>3. CASE At(a, {"done"}) /\ DoneSet(a, {s.arg})
    <3>1. mem'[a] = mem[a] \cup {s.arg}
      BY <1>1, <2>3 DEF DoneSet, SaveAll
    <3>2. \A f : Marks(s, f) => f \in mem'[a]
      BY <3>1 DEF Marks
    <3> QED
      BY <2>1, <3>1, <3>2, HeedsOn
  <2>4. CASE At(a, {"unset"}) /\ DoneDelete(a, s.arg)
    <3>1. mem'[a] = mem[a] \ {s.arg} /\ s.op = "unset"
      BY <1>1, <2>4 DEF DoneDelete, SaveAll, At
    <3>2. \A f : ~Marks(s, f)
      BY <3>1 DEF Marks
    <3>3. \A f \in mem[a] : f \notin MayLose(s) => f \in mem'[a]
      BY <2>2, <3>1 DEF MayLose
    <3> QED
      BY <2>1, <3>2, <3>3, HeedsOn
  <2>5. CASE At(a, {"forget"}) /\ SaveAll(a, mem[a] \ OfClass(s.arg[1]))
    <3>1. mem'[a] = mem[a] \ OfClass(s.arg[1]) /\ s.op = "forget"
      BY <1>1, <2>5 DEF SaveAll, At
    <3>2. \A f : ~Marks(s, f)
      BY <3>1 DEF Marks
    <3>3. \A f \in mem[a] : f \notin MayLose(s) => f \in mem'[a]
      BY <2>2, <3>1 DEF MayLose, OfClass
    <3> QED
      BY <2>1, <3>2, <3>3, HeedsOn
  <2>6. CASE At(a, {"wipe"}) /\ (ResetState(a) \/ UNCHANGED doneVars)
    <3>1. s.op = "wipe"
      BY <2>6 DEF At
    <3>2. \A f : ~Marks(s, f)
      BY <3>1 DEF Marks
    <3>3. MayLose(s) = Flag
      BY <3>1 DEF MayLose
    <3>4. \A f \in mem[a] : f \notin MayLose(s) => f \in mem'[a]
      BY <2>2, <3>3
    <3> QED
      BY <2>1, <3>2, <3>4, HeedsOn
  <2> QED
    BY <1>10, <2>3, <2>4, <2>5, <2>6 DEF MarkStep
<1> QED
  BY <1>2, <1>3, <1>4, <1>5, <1>6, <1>7, <1>8, <1>9, <1>10 DEF Execute

\* Nobody but the agent itself changes its copy and its calls, except for a
\* reboot, which ends them.
LEMMA OthersHeed ==
    ASSUME Reliable, [Next]_vars, NEW a \in Agent
    PROVE  \/ Execute(a) \/ FailStep(a)
           \/ UNCHANGED <<mem[a], stack[a]>>
           \/ stack'[a] = <<>>
           \/ \E m \in Method : \E args : stack'[a] = <<[m |-> m, pc |-> 1, args |-> args]>>
<1> DEFINE Alike(b) == UNCHANGED <<mem[b], stack[b]>>
<1>1. stack \in [Agent -> Seq(Frame)] /\ mem \in [Agent -> (SUBSET Flag) \cup {NoCopy}]
  BY DEF Reliable, TypeOK, DoneTypeOK
<1>2. ASSUME NEW b \in Agent, b # a, Execute(b) \/ FailStep(b) PROVE Alike(a)
  <2>1. \E stk : stack' = [stack EXCEPT ![b] = stk]
    BY <1>2 DEF Execute, FailStep, SkipStep, EndOfMethod, CheckStep, ReturnStep, RaiseStep,
                CallStep, DoStep, UndoStep, MarkStep, Advance, Goto, Return, Unwind
  <2>2. mem' = mem \/ \E flags : mem' = [mem EXCEPT ![b] = flags]
    <3>1. CASE MarkStep(b) \/ MarkFails(b)
      BY <3>1 DEF MarkStep, MarkFails, DoneSet, DoneSetFails, DoneDelete, DoneDeleteFails,
                  ResetFails, ResetState, ResetStateFails, SaveAll, SaveFails, SaveLost, doneVars
    <3>2. CASE ~MarkStep(b) /\ ~MarkFails(b)
      BY <1>2, <3>2 DEF Execute, FailStep, SkipStep, EndOfMethod, CheckStep, ReturnStep,
                        RaiseStep, CallStep, DoStep, UndoStep, doneVars
    <3> QED
      BY <3>1, <3>2
  <2> QED
    BY <1>1, <1>2, <2>1, <2>2
<1>3. ASSUME NEW b \in Agent, LoadState(b) PROVE Alike(a) \/ stack'[a] = <<>>
  <2>1. ~Loaded(b) /\ mem' = [mem EXCEPT ![b] = disk] /\ stack' = stack
    BY <1>3 DEF LoadState, Load, callVars
  <2>2. stack[b] = <<>>
    BY <2>1 DEF Reliable, TypeOK, Idle
  <2> QED
    BY <1>1, <2>1, <2>2
<1>4. ASSUME NEW b \in Agent, NEW c, ResetClass(b, c) \/ ResetClassFails(b, c)
      PROVE  Alike(a) \/ stack'[a] = <<>>
  <2>1. /\ stack[b] = <<>> /\ stack' = stack
        /\ mem' = mem \/ \E copy : mem' = [mem EXCEPT ![b] = copy]
    BY <1>4 DEF ResetClass, Reset, ResetClassFails, ResetFails, SaveFails, SaveAll, SaveLost,
                doneVars, callVars, Idle
  <2> QED
    BY <1>1, <2>1
<1>5. ASSUME NEW b \in Agent, Crash(b) PROVE Alike(a) \/ stack'[a] = <<>>
  BY <1>1, <1>5 DEF Crash, Restart, DropCopy, Unwind
<1>6. ASSUME NEW b \in Agent, NEW m \in wanted[b], NEW args \in Asked, Begin(b, m, args)
      PROVE  \/ Alike(a)
             \/ \E n \in Method : stack'[a] = <<[m |-> n, pc |-> 1, args |-> args]>>
  <2>1. m \in Method
    BY PromiseAssumption DEF Reliable, TypeOK
  <2>2. /\ mem' = mem
        /\ stack' = [stack EXCEPT ![b] = <<[m |-> m, pc |-> 1, args |-> args]>>]
    BY <1>6 DEF Begin
  <2> DEFINE new == <<[m |-> m, pc |-> 1, args |-> args]>>
  <2>3. stack'[a] = IF a = b THEN new ELSE stack[a]
    BY <1>1, <2>2
  <2> QED
    BY <2>1, <2>2, <2>3
<1>7. CASE Reboot
  BY <1>7 DEF Reboot
<1>8. CASE UNCHANGED vars
  BY <1>8 DEF vars
<1> QED
  BY <1>2, <1>3, <1>4, <1>5, <1>6, <1>7, <1>8 DEF Next

\* Every step leaves every agent with a right to its flag with the flag.
LEMMA StaysMindful == Reliable /\ Mindful /\ [Next]_vars => Mindful'
<1> SUFFICES ASSUME Reliable, Mindful, [Next]_vars, NEW a \in Agent, a \notin ReadOnly
             PROVE  Heeds(stack'[a], mem'[a])
  BY DEF Mindful
<1>1. Heeds(stack[a], mem[a])
  BY DEF Mindful
<1>2. CASE Execute(a) \/ FailStep(a)
  BY <1>1, <1>2, ExecuteHeeds
<1>3. CASE UNCHANGED <<mem[a], stack[a]>>
  BY <1>1, <1>3
<1>4. CASE stack'[a] = <<>>
  BY <1>4 DEF Heeds
<1>5. ASSUME NEW m \in Method, NEW args, stack'[a] = <<[m |-> m, pc |-> 1, args |-> args]>>
      PROVE  Heeds(stack'[a], mem'[a])
  <2> DEFINE fr == [m |-> m, pc |-> 1, args |-> args]
  <2>1. fr.pc = 1
    OBVIOUS
  <2> HIDE DEF fr
  <2>2. stack'[a] = <<fr>>
    BY <1>5 DEF fr
  <2>3. Len(<<fr>>) = 1 /\ <<fr>>[1] = fr
    OBVIOUS
  <2>4. ~Marked(fr.m, 1)
    BY MarkedFacts
  <2> QED
    BY <2>1, <2>2, <2>3, <2>4 DEF Heeds
<1> QED
  BY <1>2, <1>3, <1>4, <1>5, OthersHeed

-------------------------------------------------------------------------------
(* The memory of prefab in the detailed model: whatever the calls of all the *)
(* agents do to it, and whatever cuts them off, is a step of PrefabDone.     *)

\* The failing reset of a class, whether it has flags or not.
LEMMA ResetFailIsDone ==
    ASSUME NEW a \in Agent, Loaded(a), mem[a] \subseteq Flag, NEW c, ResetFails(a, c)
    PROVE  DoneStep(a)
<1>1. CASE c \in Class
  BY <1>1 DEF DoneStep
<1>2. CASE c \notin Class
  <2>1. OfClass(c) = {}
    BY <1>2 DEF OfClass, Class
  <2>2. mem[a] \ OfClass(c) = mem[a]
    BY <2>1
  <2>3. ConfigSaveFails(a)
    BY <2>2 DEF ResetFails, ConfigSaveFails
  <2> QED
    BY <2>3 DEF DoneStep
<1> QED
  BY <1>1, <1>2

\* Setting, deleting and forgetting flags.
LEMMA MarkIsDone ==
    ASSUME Reliable, NEW a \in Agent, MarkStep(a) \/ MarkFails(a)
    PROVE  [DoneStep(a)]_doneVars
<1> DEFINE s == Now(Top(a))
<1>1. /\ ~Idle(a) /\ ~Ended(Top(a)) /\ Runs(a, Top(a))
      /\ Loaded(a) /\ mem[a] \subseteq Flag
  BY RunningFacts DEF MarkStep, MarkFails, At, Reliable, TypeOK
<1>2. CASE At(a, {"done"}) /\ (DoneSet(a, {s.arg}) \/ DoneSetFails(a, {s.arg}))
  <2>1. s.arg \in Flag
    BY <1>1, <1>2, NowFacts DEF At, WellFormed
  <2>2. s.arg[1] \in Class /\ {s.arg} \in SUBSET OfClass(s.arg[1])
    BY <2>1 DEF Class, OfClass
  <2> QED
    BY <1>2, <2>2 DEF DoneStep
<1>3. CASE At(a, {"unset"}) /\ (DoneDelete(a, s.arg) \/ DoneDeleteFails(a, s.arg))
  <2>1. s.arg \in Flag
    BY <1>1, <1>3, NowFacts DEF At, WellFormed
  <2> QED
    BY <1>3, <2>1 DEF DoneStep
<1>4. CASE At(a, {"forget"}) /\ SaveAll(a, mem[a] \ OfClass(s.arg[1]))
  <2>1. CASE s.arg[1] \in Class
    <3>1. Reset(a, s.arg[1])
      BY <1>1, <1>4 DEF Reset, SaveAll
    <3> QED
      BY <2>1, <3>1 DEF DoneStep
  <2>2. CASE s.arg[1] \notin Class
    <3>1. OfClass(s.arg[1]) = {}
      BY <2>2 DEF OfClass, Class
    <3>2. mem[a] \ OfClass(s.arg[1]) = mem[a]
      BY <3>1
    <3>3. ConfigSave(a)
      BY <1>1, <1>4, <3>2 DEF ConfigSave, SaveAll
    <3> QED
      BY <3>3 DEF DoneStep
  <2> QED
    BY <2>1, <2>2
<1>5. CASE At(a, {"wipe"}) /\ (ResetState(a) \/ ResetStateFails(a) \/ UNCHANGED doneVars)
  BY <1>5 DEF DoneStep
<1>6. CASE ResetFails(a, s.arg[1])
  BY <1>1, <1>6, ResetFailIsDone
<1> QED
  BY <1>2, <1>3, <1>4, <1>5, <1>6 DEF MarkStep, MarkFails

\* The recipes, the operators and the failures use the memory of prefab through its
\* operations only.
LEMMA KeepsDone == Spec => DoneSpec
<1>1. Init => DoneInit
  BY DEF Init
<1>2. ASSUME Reliable, Next PROVE [DoneNext]_doneVars
  <2>1. ASSUME NEW a \in Agent, MarkStep(a) \/ MarkFails(a) PROVE [DoneNext]_doneVars
    BY <1>2, <2>1, MarkIsDone DEF DoneNext
  <2>2. ASSUME NEW a \in Agent, Execute(a) \/ FailStep(a), ~MarkStep(a), ~MarkFails(a)
        PROVE UNCHANGED doneVars
    BY <2>2 DEF Execute, FailStep, SkipStep, EndOfMethod, CheckStep, ReturnStep, RaiseStep,
                CallStep, DoStep, UndoStep, doneVars
  <2>3. ASSUME NEW a \in Agent, LoadState(a) \/ Crash(a) PROVE DoneNext
    BY <2>3 DEF LoadState, Crash, DoneNext, DoneStep
  <2>4. ASSUME NEW a \in Agent, NEW m \in wanted[a], NEW args \in Asked, Begin(a, m, args)
        PROVE  UNCHANGED doneVars
    BY <2>4 DEF Begin, doneVars
  <2>5. ASSUME NEW a \in Agent, NEW c, ResetClass(a, c) PROVE DoneNext
    <3>1. Loaded(a) /\ Reset(a, c)
      BY <2>5 DEF ResetClass, Reset
    <3>2. CASE c \in Class
      BY <3>1, <3>2 DEF DoneNext, DoneStep
    <3>3. CASE c \notin Class
      <4>1. OfClass(c) = {}
        BY <3>3 DEF OfClass, Class
      <4>2. mem[a] \ OfClass(c) = mem[a]
        BY <1>2, <3>1, <4>1 DEF Reliable, TypeOK, DoneTypeOK, Loaded
      <4>3. ConfigSave(a)
        BY <3>1, <4>2 DEF Reset, ConfigSave
      <4> QED
        BY <4>3 DEF DoneNext, DoneStep
    <3> QED
      BY <3>2, <3>3
  <2>6. CASE Reboot
    BY <2>6 DEF Reboot, doneVars
  <2>7. ASSUME NEW a \in Agent, NEW c, ResetClassFails(a, c) PROVE DoneNext
    <3>1. Loaded(a) /\ ResetFails(a, c)
      BY <2>7 DEF ResetClassFails, ResetFails
    <3>2. mem[a] \subseteq Flag
      BY <1>2, <3>1 DEF Reliable, TypeOK, DoneTypeOK, Loaded
    <3> QED
      BY <3>1, <3>2, ResetFailIsDone DEF DoneNext
  <2> QED
    BY <1>2, <2>1, <2>2, <2>3, <2>4, <2>5, <2>6, <2>7 DEF Next
<1>3. UNCHANGED vars => UNCHANGED doneVars
  BY DEF vars, doneVars
<1>4. Reliable /\ [Next]_vars => [DoneNext]_doneVars
  BY <1>2, <1>3
<1> QED
  BY <1>1, <1>4, AlwaysReliable, PTL DEF Spec, DoneSpec

-------------------------------------------------------------------------------
(* What a return leaves behind. *)

\* The work of a method that returned normally is not done twice: its own flag
\* is left in the agent's state, at the end, on an early return and on the
\* return because of the flag (PrefabBase.doneSet and doneCheck); and it is left
\* on the target where no other agent writes the state and no save has failed.
THEOREM WorkRemembered == Spec => RemembersWork
<1>1. Init => Mindful
  BY DEF Init, Mindful, Heeds
<1>2. Spec => []Mindful
  BY <1>1, StaysMindful, AlwaysReliable, PTL DEF Spec
<1>3. ASSUME Reliable, Mindful, NEW a \in Agent \ ReadOnly, Finishes(a),
             stack[a][1].m \in Remembering
      PROVE  OwnFlag(stack[a][1].m) \in mem'[a]
  <2> DEFINE fr == stack[a][1]
             s == Now(fr)
  <2>1. ~Idle(a) /\ UNCHANGED mem
    BY <1>3 DEF Finishes, EndOfMethod, CheckStep, ReturnStep, At
  <2>2. /\ Len(stack[a]) = 1 /\ stack[a] # <<>> /\ Top(a) = fr
        /\ fr.m \in Method /\ fr.pc \in Nat \ {0} /\ fr.pc <= Len(Body[fr.m]) + 1
        /\ Len(Body[fr.m]) \in Nat /\ fr.args \subseteq Arg
    BY <1>3, <2>1, RunningFacts, StepFacts DEF Finishes
  <2>3. Marked(fr.m, fr.pc) => OwnFlag(fr.m) \in mem[a]
    BY <1>3, <2>2 DEF Mindful, Heeds
  <2>4. CASE EndOfMethod(a)
    <3>1. fr.pc > Len(Body[fr.m])
      BY <2>2, <2>4 DEF EndOfMethod, Ended, Code
    <3>2. fr.pc = Len(Body[fr.m]) + 1
      BY <2>2, <3>1
    <3> QED
      BY <1>3, <2>1, <2>3, <3>2, Remembrance
  <2>5. CASE CheckStep(a) \/ ReturnStep(a)
    <3>1. ~Ended(Top(a)) /\ Runs(a, Top(a)) /\ s.op \in {"check", "stop"}
      BY <2>2, <2>5 DEF CheckStep, ReturnStep, At
    <3>2. /\ s = Body[fr.m][fr.pc] /\ fr.pc \in DOMAIN Body[fr.m] /\ May(s)
      <4>1. /\ Now(Top(a)) = Body[Top(a).m][Top(a).pc]
            /\ Top(a).pc \in 1 .. Len(Body[Top(a).m])
            /\ May(Now(Top(a)))
        BY <1>3, <2>1, <3>1, NowFacts
      <4>2. DOMAIN Body[fr.m] = 1 .. Len(Body[fr.m])
        BY <2>2, PromiseAssumption
      <4> QED
        BY <2>2, <4>1, <4>2
    <3>3. \/ Marked(fr.m, fr.pc)
          \/ CheckStep(a) /\ s.op = "check" /\ s.arg = OwnFlag(fr.m)
      BY <1>3, <2>2, <2>5, <3>1, <3>2, Remembrance DEF CheckStep, ReturnStep, At
    <3>4. ASSUME CheckStep(a), s.arg = OwnFlag(fr.m) PROVE OwnFlag(fr.m) \in mem[a]
      <4>1. DoneCheck(a, s.arg, WithReset(fr))
        <5> SUFFICES ASSUME ~DoneCheck(a, s.arg, WithReset(fr)) PROVE FALSE
          OBVIOUS
        <5>1. Advance(a) /\ stack'[a] = <<>>
          BY <1>3, <2>2, <3>4 DEF CheckStep, Finishes
        <5>2. stack'[a] = [stack[a] EXCEPT ![Len(stack[a])].pc = Top(a).pc + 1]
          BY <1>3, <5>1 DEF Advance, Goto, Reliable, TypeOK
        <5>3. DOMAIN stack'[a] = DOMAIN stack[a] /\ DOMAIN <<>> = {}
          BY <5>2
        <5>4. 1 \in DOMAIN stack[a]
          BY <1>3, <2>1, <2>2, RunningFacts, StackFacts
        <5> QED
          BY <5>1, <5>3, <5>4
      <4> QED
        BY <3>4, <4>1 DEF DoneCheck, DoneGet
    <3> QED
      BY <2>1, <2>3, <3>3, <3>4
  <2> QED
    BY <1>3, <2>4, <2>5 DEF Finishes
<1>4. ASSUME Reliable, CopyIsCurrent, NEW a \in Agent, Finishes(a), Alone, a \notin unsaved
      PROVE  mem'[a] = disk'
  <2>1. ~Idle(a) /\ UNCHANGED <<mem, disk>>
    BY <1>4 DEF Finishes, EndOfMethod, CheckStep, ReturnStep, At
  <2> QED
    BY <1>4, <2>1 DEF CopyIsCurrent, Reliable, TypeOK
<1>5. Reliable /\ Mindful /\ CopyIsCurrent =>
        [\A a \in Agent \ ReadOnly :
           Finishes(a) /\ stack[a][1].m \in Remembering
             => LET own == Code(stack[a][1])[1].arg IN
                  /\ own \in mem'[a]
                  /\ Alone /\ a \notin unsaved => own \in disk']_vars
  BY <1>3, <1>4 DEF OwnFlag, Code
<1>6. Spec => []CopyIsCurrent
  BY KeepsDone, CopyCurrent, PTL
<1> QED
  BY <1>2, <1>5, <1>6, AlwaysReliable, PTL DEF RemembersWork
===============================================================================
