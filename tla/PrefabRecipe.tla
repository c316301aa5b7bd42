----------------------------- MODULE PrefabRecipe -----------------------------
(***************************************************************************)
(* How prefab runs the install, build and start methods of its modules     *)
(* (src/modules/*/Prefab*.py) on one target.  A method is a recipe: a      *)
(* sequence of steps that check a done flag, run commands, call other      *)
(* methods and set flags.  The recipes are data (constant Body, see the    *)
(* catalogue modules); this module is Python executing them: a stack of    *)
(* calls per agent, exceptions that unwind it, agents that die and targets *)
(* that reboot.  The flags live in PrefabDone.                             *)
(***************************************************************************)
EXTENDS PrefabDone, PrefabStep, Naturals, Sequences

CONSTANTS
    Method,     \* the methods, pairs <<class, name>>
    Body,       \* method -> sequence of steps (PrefabStep)
    Fact,       \* what commands bring about on the target
    Volatile,   \* the facts that a reboot undoes (running services)
    Platform,   \* the tags of the target's platform, e.g. {"ubuntu"}
    Arg,        \* the optional arguments that a call may give
    Asked,      \* the sets of arguments that an operator gives
    Insist,     \* the arguments of the call that an operator repeats
    Playbook,   \* the sets of methods that an operator may want done
    OwnReset,   \* the classes that override PrefabBase.reset
    MaxFaults,  \* bound on failing commands and saves, crashes and reboots
    Gained,     \* method -> the facts that its normal return vouches for
    Promised,   \* flag -> the facts that it stands for
    Remembering \* the methods that set the flag they check first

-------------------------------------------------------------------------------
VARIABLES
    applied,    \* the facts that hold on the target
    stack,      \* agent -> its calls, the running one last
    wanted,     \* agent -> the methods its operator wants done
    faults      \* failures, crashes and reboots so far

callVars == <<applied, stack, wanted, faults>>
vars == <<mem, disk, unsaved, applied, stack, wanted, faults>>

Frame == [m : Method, pc : Nat \ {0}, args : SUBSET Arg]

Idle(a) == stack[a] = <<>>
Top(a) == stack[a][Len(stack[a])]
Code(fr) == Body[fr.m]
Ended(fr) == fr.pc > Len(Code(fr))
Now(fr) == Code(fr)[fr.pc]

Tags(fr) == fr.args \cup Platform
WithReset(fr) == "reset" \in fr.args

\* The conditions of the if statements around the current step.
Allows(a, fr, s) ==
    /\ s.when \subseteq Tags(fr)
    /\ s.not \cap Tags(fr) = {}
    /\ \A f \in s.undone : ~DoneCheck(a, f, WithReset(fr))
    /\ \A f \in s.done : DoneCheck(a, f, WithReset(fr))
    /\ \A f \in s.unmarked : ~DoneGet(a, f)
    /\ s.lacks \notin applied
    /\ s.there \in applied \cup {NoFact}
Runs(a, fr) == Allows(a, fr, Now(fr))

Init ==
    /\ DoneInit
    /\ applied = {}
    /\ stack = [a \in Agent |-> <<>>]
    /\ wanted \in [Agent -> Playbook]
    /\ faults = 0

-------------------------------------------------------------------------------
(* Moving through the code. *)

Goto(a, pc) == stack' = [stack EXCEPT ![a][Len(stack[a])].pc = pc]
Advance(a) == Goto(a, Top(a).pc + 1)

\* Return to the caller, whose call step is then over.
Back(stk) ==
    LET n == Len(stk) IN
      IF n = 1 THEN <<>>
      ELSE [SubSeq(stk, 1, n - 1) EXCEPT ![n - 1].pc = @ + 1]
Return(a) == stack' = [stack EXCEPT ![a] = Back(@)]

\* An exception that nobody catches ends the operator's call.
Unwind(a) == stack' = [stack EXCEPT ![a] = <<>>]

\* The operator calls a method, with optional arguments or without.
Begin(a, m, args) ==
    /\ Loaded(a)
    /\ Idle(a)
    /\ m \in wanted[a]
    /\ stack' = [stack EXCEPT ![a] = <<[m |-> m, pc |-> 1, args |-> args]>>]
    /\ UNCHANGED <<mem, disk, unsaved, applied, wanted, faults>>

\* Agent a is about to execute a step of one of these kinds.
At(a, kinds) ==
    /\ ~Idle(a)
    /\ ~Ended(Top(a))
    /\ Runs(a, Top(a))
    /\ Now(Top(a)).op \in kinds

SkipStep(a) ==
    /\ ~Idle(a)
    /\ ~Ended(Top(a))
    /\ ~Runs(a, Top(a))
    /\ Advance(a)
    /\ UNCHANGED <<mem, disk, unsaved, applied, wanted, faults>>

EndOfMethod(a) ==
    /\ ~Idle(a)
    /\ Ended(Top(a))
    /\ Return(a)
    /\ UNCHANGED <<mem, disk, unsaved, applied, wanted, faults>>

\* if self.doneCheck(key, reset): return
CheckStep(a) ==
    /\ At(a, {"check"})
    /\ IF DoneCheck(a, Now(Top(a)).arg, WithReset(Top(a))) THEN Return(a) ELSE Advance(a)
    /\ UNCHANGED <<mem, disk, unsaved, applied, wanted, faults>>

ReturnStep(a) ==
    /\ At(a, {"stop"})
    /\ Return(a)
    /\ UNCHANGED <<mem, disk, unsaved, applied, wanted, faults>>

RaiseStep(a) ==
    /\ At(a, {"raise"})
    /\ Unwind(a)
    /\ UNCHANGED <<mem, disk, unsaved, applied, wanted, faults>>

\* The call that step s makes in a call with args.
Callee(args, s) == [m |-> s.arg, pc |-> 1, args |-> (args \cap s.pass) \cup s.give]

CallStep(a) ==
    /\ At(a, {"call"})
    /\ stack' = [stack EXCEPT ![a] = Append(@, Callee(Top(a).args, Now(Top(a))))]
    /\ UNCHANGED <<mem, disk, unsaved, applied, wanted, faults>>

-------------------------------------------------------------------------------
(* Acting on the target. *)

DoStep(a) ==
    /\ At(a, {"do", "try"})
    /\ applied' = applied \cup {Now(Top(a)).arg}
    /\ Advance(a)
    /\ UNCHANGED <<mem, disk, unsaved, wanted, faults>>

UndoStep(a) ==
    /\ At(a, {"undo"})
    /\ applied' = applied \ Now(Top(a)).gone
    /\ Advance(a)
    /\ UNCHANGED <<mem, disk, unsaved, wanted, faults>>

\* doneSet, doneDelete, the reset of a whole class, and that of the factory,
\* which reaches the targets that its cache has an object for.
MarkUnsaved(a) ==           \* mutated: flags are set in the agent's copy only
    /\ At(a, {"done", "unset", "forget", "wipe"})
    /\ SaveLater(a, IF Now(Top(a)).op = "done" THEN mem[a] \cup {Now(Top(a)).arg} ELSE mem[a])
    /\ Advance(a)
    /\ UNCHANGED <<applied, wanted, faults>>
MarkStep(a) ==
    /\ \/ At(a, {"done"}) /\ DoneSet(a, {Now(Top(a)).arg})
       \/ At(a, {"unset"}) /\ DoneDelete(a, Now(Top(a)).arg)
       \/ At(a, {"forget"}) /\ SaveAll(a, mem[a] \ OfClass(Now(Top(a)).arg[1]))
       \/ At(a, {"wipe"}) /\ (ResetState(a) \/ UNCHANGED doneVars)
    /\ Advance(a)
    /\ UNCHANGED <<applied, wanted, faults>>

\* The save of such a step raises.
MarkFails(a) ==
    \/ At(a, {"done"}) /\ DoneSetFails(a, {Now(Top(a)).arg})
    \/ At(a, {"unset"}) /\ DoneDeleteFails(a, Now(Top(a)).arg)
    \/ At(a, {"forget"}) /\ ResetFails(a, Now(Top(a)).arg[1])
    \/ At(a, {"wipe"}) /\ ResetStateFails(a)

\* Something fails: the call ends, unless it is a command run with die=False.
\* (The first check of a class saves that the class has no state yet.)
FailUnseen(a) ==            \* mutated: every command is run with die=False
    /\ faults < MaxFaults
    /\ faults' = faults + 1
    /\ At(a, {"do", "undo", "try"})
    /\ Advance(a)
    /\ UNCHANGED <<mem, disk, unsaved, applied, wanted>>
FailStep(a) ==
    /\ faults < MaxFaults
    /\ faults' = faults + 1
    /\ \/ At(a, {"do", "undo", "check"}) /\ Unwind(a) /\ UNCHANGED doneVars
       \/ At(a, {"try"}) /\ Advance(a) /\ UNCHANGED doneVars
       \/ MarkFails(a) /\ Unwind(a)
    /\ UNCHANGED <<applied, wanted>>

-------------------------------------------------------------------------------
(* The surroundings. *)

LoadState(a) ==
    /\ Load(a)
    /\ UNCHANGED callVars

\* Between two calls the operator resets a class (PrefabBase.reset; a class
\* with a reset of its own has a recipe for it).
ResetAnytime(a, c) ==       \* mutated: in the middle of a call as well
    /\ Reset(a, c)
    /\ UNCHANGED callVars
ResetClass(a, c) ==
    /\ Idle(a)
    /\ Reset(a, c)
    /\ UNCHANGED callVars
ResetClassFails(a, c) ==
    /\ faults < MaxFaults
    /\ faults' = faults + 1
    /\ Idle(a)
    /\ ResetFails(a, c)
    /\ UNCHANGED <<applied, stack, wanted>>

\* The agent's process dies, in the middle of a call or between two.
Crash(a) ==
    /\ faults < MaxFaults
    /\ faults' = faults + 1
    /\ Restart(a)
    /\ Unwind(a)
    /\ UNCHANGED <<applied, wanted>>

\* The target reboots: services stop, and whoever was working loses the
\* connection.
Reboot ==
    /\ faults < MaxFaults
    /\ faults' = faults + 1
    /\ applied' = applied \ Volatile
    /\ stack' = [a \in Agent |-> <<>>]
    /\ UNCHANGED <<mem, disk, unsaved, wanted>>

Execute(a) ==
    \/ SkipStep(a)
    \/ EndOfMethod(a)
    \/ CheckStep(a)
    \/ ReturnStep(a)
    \/ RaiseStep(a)
    \/ CallStep(a)
    \/ DoStep(a)
    \/ UndoStep(a)
    \/ MarkStep(a)

Next ==
    \/ \E a \in Agent :
         \/ Execute(a)
         \/ FailStep(a)
         \/ LoadState(a)
         \/ \E m \in wanted[a] :
              \/ \E args \in Asked : Begin(a, m, args)
              \/ m[1] \notin OwnReset /\ (ResetClass(a, m[1]) \/ ResetClassFails(a, m[1]))
         \/ Crash(a)
    \/ Reboot

Spec == Init /\ [][Next]_vars

\* Python runs on, an agent reads the state that it needs, and an operator who
\* wants a method done calls it again until it is: even if he resets classes or
\* passes other arguments in between.
Fairness ==
    \A a \in Agent :
      /\ WF_vars(Execute(a))
      /\ WF_vars(LoadState(a))
      /\ SF_vars(\E m \in wanted[a] : Begin(a, m, Insist))

LiveSpec == Spec /\ Fairness

-------------------------------------------------------------------------------
(* Properties. *)

\* Every stack is a stack of calls, and only agents that have read the state
\* execute anything.
TypeOK ==
    /\ DoneTypeOK
    /\ applied \subseteq Fact
    /\ stack \in [Agent -> Seq(Frame)]
    /\ \A a \in Agent : ~Idle(a) => Loaded(a)
    /\ wanted \in [Agent -> Playbook]
    /\ faults \in 0..MaxFaults

\* A flag never lies: whatever was interrupted, retried, reset or written by
\* another agent, what a remembered flag (saved or copied) stands for is there.
FlagSound ==
    /\ \A k \in disk : Promised[k] \subseteq applied
    /\ \A a \in Agent : Loaded(a) => \A k \in mem[a] : Promised[k] \subseteq applied

\* Agent a's outermost call returns without an exception.
Finishes(a) ==
    /\ Len(stack[a]) = 1
    /\ EndOfMethod(a) \/ CheckStep(a) \/ ReturnStep(a)
    /\ stack'[a] = <<>>

\* A call that returns normally has done its work, itself, through the methods
\* it calls or in an earlier attempt (PrefabBase.doneCheck, doneSet).
SuccessInstalls ==
    [][\A a \in Agent : Finishes(a) => Gained[stack[a][1].m] \subseteq applied']_vars

\* The work of a method that returned normally is not done twice: it leaves
\* behind the flag that its next call will look at, in the agent's state, and,
\* where no other agent writes the state and no save has failed, on the target
\* for the agents to come.
RemembersWork ==
    [][\A a \in Agent \ ReadOnly :
         Finishes(a) /\ stack[a][1].m \in Remembering
           => LET own == Code(stack[a][1])[1].arg IN
                /\ own \in mem'[a]
                /\ Alone /\ a \notin unsaved => own \in disk']_vars

Installed(m) == Gained[m] \subseteq applied

\* The flag of m is saved; or a save of the agent has failed and the flag is in
\* its copy, where the agent's next call will find it and save nothing.
Remembered(a, m) ==
    m \in Remembering =>
      \/ Body[m][1].arg \in disk
      \/ a \in unsaved /\ Body[m][1].arg \in mem[a]

\* Retrying converges: once commands stop failing, the work of every method
\* that somebody wants gets done and is remembered, whatever an earlier,
\* interrupted attempt has left on the target.
Converges ==
    \A a \in Agent : <>(\A m \in wanted[a] : Installed(m) /\ Remembered(a, m))
===============================================================================
