---------------------------- MODULE PrefabPromise ----------------------------
(***************************************************************************)
(* What the recipes must look like for the flags of prefab to be reliable: *)
(* the discipline that the code of src/modules follows when it calls       *)
(* doneCheck first, works, and calls doneSet last.  Under this discipline  *)
(* no interruption, failure, retry, reset or second agent makes a flag     *)
(* lie; PrefabPromise_proofs proves it for every catalogue, and the run    *)
(* that extends this module evaluates the discipline on the one of         *)
(* src/modules.                                                            *)
(***************************************************************************)
EXTENDS PrefabRecipe

CONSTANTS
    Kept,       \* the facts that no reboot and no method takes away
    Losing      \* method -> the flags that a call of it may take away

Steps(m) == {Body[m][i] : i \in DOMAIN Body[m]}

ASSUME KeptAssumption ==
    Kept = Fact \ (Volatile \cup UNION {s.gone : s \in UNION {Steps(m) : m \in Method}})

\* Whether Python may, and whether it must, execute a step: only flags, and a
\* fact that is there already, can make it skip a step that it must execute.
May(s) == s.when \subseteq Platform \cup Arg /\ s.not \cap Platform = {}
Must(s) ==
    /\ s.when \subseteq Platform
    /\ s.not \cap (Platform \cup Arg) = {}
    /\ s.done = {}
    /\ s.there = NoFact

\* What the step brings about when it is executed, and what is sure to be there
\* once Python is past it, executed or not.
Gain(s) ==
    CASE s.op = "do" -> {s.arg}
      [] s.op = "call" -> Gained[s.arg]
      [] s.op = "raise" -> {s.lacks}
      [] OTHER -> {}
Yield(s) ==
    {x \in Gain(s) \cap Kept :
       /\ Must(s)
       /\ s.lacks \in {NoFact, x}
       /\ \A k \in s.undone \cup s.unmarked : x \in Promised[k]}

\* What is there when the call of m has come to step i.
Before(m, i) == UNION {Yield(Body[m][j]) : j \in 1 .. (i - 1)}

\* The discipline of step i of m: a flag is set when what it stands for is
\* there, and whoever returns has done what the method vouches for.
Sound(m, i) ==
    LET s == Body[m][i] IN
      May(s) =>
        /\ s.op = "done" => Promised[s.arg] \subseteq Before(m, i)
        /\ s.op = "stop" => Gained[m] \subseteq Before(m, i) \cup {s.there}
        /\ s.op = "check" => Gained[m] \subseteq Before(m, i) \cup Promised[s.arg]

\* What a step's argument is.
WellFormed(s) ==
    /\ s.op \in {"check", "done", "unset"} => s.arg \in Flag
    /\ s.op \in {"do", "try"} => s.arg \in Fact
    /\ s.op = "call" => s.arg \in Method /\ s.give \subseteq Arg

ASSUME PromiseAssumption ==
    /\ NoFact \notin Fact
    /\ Volatile \subseteq Fact
    /\ MaxFaults \in Nat
    /\ Asked \subseteq SUBSET Arg
    /\ Playbook \subseteq SUBSET Method
    /\ Gained \in [Method -> SUBSET Kept]
    /\ Promised \in [Flag -> SUBSET Kept]
    /\ DOMAIN Body = Method
    /\ \A m \in Method : Len(Body[m]) \in Nat /\ DOMAIN Body[m] = 1 .. Len(Body[m])

ASSUME Discipline ==
    \A m \in Method :
      /\ Gained[m] \subseteq Before(m, Len(Body[m]) + 1)
      /\ \A i \in DOMAIN Body[m] : WellFormed(Body[m][i]) /\ Sound(m, i)

-------------------------------------------------------------------------------
(* What work is remembered by: the flag that the method checks first. *)

OwnFlag(m) == Body[m][1].arg

\* The flags that a step, or the call that it makes, may take away.
MayLose(s) ==
    {f \in Flag :
       \/ s.op = "unset" /\ f = s.arg
       \/ s.op = "forget" /\ f[1] = s.arg[1]
       \/ s.op = "wipe"
       \/ s.op = "call" /\ f \in Losing[s.arg]}

\* Past step s the flag is set: s sets it, and nothing but the flag itself can
\* make Python skip s.
Marks(s, f) ==
    /\ s.op = "done" /\ s.arg = f
    /\ Must(s) /\ s.lacks = NoFact
    /\ s.undone \cup s.unmarked \subseteq {f}

\* When the call of m has come to step i its own flag is set.
Marked(m, i) ==
    \E j \in 1 .. (i - 1) :
      /\ Marks(Body[m][j], OwnFlag(m))
      /\ \A k \in (j + 1) .. (i - 1) : OwnFlag(m) \notin MayLose(Body[m][k])

ASSUME LosingAssumption ==
    /\ Losing \in [Method -> SUBSET Flag]
    /\ \A m \in Method : \A s \in Steps(m) : MayLose(s) \subseteq Losing[m]

\* The discipline of a method that remembers its work: it leaves its flag behind
\* on every way out that is no exception.
ASSUME Remembrance ==
    /\ Remembering \subseteq Method
    /\ \A m \in Remembering :
         /\ Marked(m, Len(Body[m]) + 1)
         /\ \A i \in DOMAIN Body[m] :
              LET s == Body[m][i] IN
                May(s) =>
                  /\ s.op = "stop" => Marked(m, i)
                  /\ s.op = "check" => s.arg = OwnFlag(m) \/ Marked(m, i)

-------------------------------------------------------------------------------
(* The running calls. *)

\* The i-th call of a stack has behind it what its method must have brought
\* about by now, and stands at the call of the next one.
Stands(stk, i, world) ==
    /\ Before(stk[i].m, stk[i].pc) \subseteq world
    /\ stk[i].pc <= Len(Body[stk[i].m]) + 1
    /\ i < Len(stk) =>
         /\ stk[i].pc <= Len(Body[stk[i].m])
         /\ Body[stk[i].m][stk[i].pc].op = "call"
         /\ Body[stk[i].m][stk[i].pc].arg = stk[i + 1].m
Behind(stk, world) == \A i \in DOMAIN stk : Stands(stk, i, world)

\* No agent runs ahead of the target: in the middle of a method, at any depth of
\* calls and after any interruption of the other agents, what the agent's calls
\* have passed, because they did it or because a flag said that it was done,
\* is there (core.run raises before the next statement is reached).
CallsSound == \A a \in Agent : Behind(stack[a], applied)

-------------------------------------------------------------------------------
(* The promise, abstractly: PrefabLedger, where the saved flags are the      *)
(* ledger and the facts on the target are the world.                         *)

Ledger == INSTANCE PrefabLedger WITH
            ledger <- disk, world <- applied, Lasting <- Kept

LedgerSpec == Ledger!Spec
===============================================================================
