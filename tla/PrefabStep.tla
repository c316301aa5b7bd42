------------------------------ MODULE PrefabStep ------------------------------
(***************************************************************************)
(* The language in which the catalogue modules write down the recipes of   *)
(* src/modules: what one statement of an install, build or start method    *)
(* does.  PrefabRecipe executes it.                                        *)
(*                                                                         *)
(* Methods, flags and facts are pairs <<class, name>>.  A fact stands for  *)
(* what a group of adjacent commands brings about on the target; it holds  *)
(* when the last of them has succeeded.                                    *)
(***************************************************************************)
CONSTANT NoFact     \* a step that does not depend on the target

(***************************************************************************)
(* A step is a record.  It runs when every tag of "when" and none of "not" *)
(* is given (arguments and platform), when no flag of "undone" is done and *)
(* every flag of "done" is (doneCheck, which a reset overrides), none of   *)
(* "unmarked" is marked (doneGet), the fact "lacks" is not there and the   *)
(* fact "there" is; otherwise Python's if skips it.                        *)
(***************************************************************************)
Plain(o, x) ==
    [op |-> o, arg |-> x, gone |-> {}, pass |-> {}, give |-> {}, when |-> {}, not |-> {},
     undone |-> {}, done |-> {}, unmarked |-> {}, lacks |-> NoFact, there |-> NoFact]

Check(f) == Plain("check", f)        \* if self.doneCheck(f, reset): return
Done(f) == Plain("done", f)          \* self.doneSet(f)
Unset(f) == Plain("unset", f)        \* self.doneDelete(f)
Forget(c) == Plain("forget", <<c, "all">>)   \* super().reset() of class c
Wipe == Plain("wipe", NoFact)        \* reset of the factory
Do(x) == Plain("do", x)              \* commands that raise when they fail
Try(x) == Plain("try", x)            \* commands run with die=False
Undo(X) == [Plain("undo", NoFact) EXCEPT !.gone = X]   \* commands that remove X
Stop == Plain("stop", NoFact)        \* return
Raise == Plain("raise", NoFact)      \* raise

\* A call hands on those of the caller's arguments that are in "pass" and
\* gives those of "give".
Call(m) == Plain("call", m)
Passing(args, s) == [s EXCEPT !.pass = args]
Giving(args, s) == [s EXCEPT !.give = args]

If(tags, s) == [s EXCEPT !.when = @ \cup tags]
Unless(tags, s) == [s EXCEPT !.not = @ \cup tags]
IfUndone(flags, s) == [s EXCEPT !.undone = @ \cup flags]
IfDone(flags, s) == [s EXCEPT !.done = @ \cup flags]
IfUnmarked(flags, s) == [s EXCEPT !.unmarked = @ \cup flags]
IfLacks(x, s) == [s EXCEPT !.lacks = x]
IfThere(x, s) == [s EXCEPT !.there = x]

\* Commands that fail when x is already there.
Fresh(x) == << IfThere(x, Raise), Do(x) >>
===============================================================================
