------------------------------ MODULE PrefabDone ------------------------------
(***************************************************************************)
(* The memory of prefab: which steps of which class are "done" on a        *)
(* target.  PrefabBase (src/JumpscalePrefab/PrefabBase.py) keeps, for each *)
(* class, a dictionary done: key -> bool inside the state of the executor; *)
(* the executor works on a copy in the agent's memory and saves the WHOLE  *)
(* state to the target, which may fail when the copy has changed already.  *)
(*                                                                         *)
(* A flag is a pair <<class, key>>; a state is the set of the flags that   *)
(* are True (doneGet reads a False entry and a missing one the same way).  *)
(***************************************************************************)
CONSTANTS
    Agent,      \* the processes that hold an executor for this target
    Flag,       \* the pairs <<class, key>> in play
    ReadOnly,   \* the agents whose executor.readonly is set
    NoCopy      \* an agent that has not read the state yet

ASSUME DoneAssumption ==
    /\ ReadOnly \subseteq Agent
    /\ NoCopy \notin SUBSET Flag

VARIABLES
    mem,        \* agent -> its copy of the state (executor.state), or NoCopy
    disk,       \* the state saved on the target
    unsaved     \* history: the agents whose last save has failed, and whose
                \* copy may be ahead of the target since

doneVars == <<mem, disk, unsaved>>

Class == {f[1] : f \in Flag}

DoneInit ==
    /\ mem = [a \in Agent |-> NoCopy]
    /\ disk = {}
    /\ unsaved = {}

-------------------------------------------------------------------------------
(* Reading. *)

Loaded(a) == mem[a] # NoCopy

\* doneGet: a read-only executor remembers nothing.
DoneGetByKey(a, f) ==       \* mutated: one dictionary for all classes
    a \notin ReadOnly /\ \E g \in mem[a] : g[2] = f[2]
DoneGet(a, f) == a \notin ReadOnly /\ f \in mem[a]

\* doneCheck: True means that the caller may skip the work.
DoneCheck(a, f, reset) == ~reset /\ DoneGet(a, f)

-------------------------------------------------------------------------------
(* Writing: every change goes through the agent's copy and saves all of it. *)

SaveLater(a, flags) ==      \* mutated: the target is not written
    /\ mem' = [mem EXCEPT ![a] = flags]
    /\ UNCHANGED <<disk, unsaved>>
SaveAll(a, flags) ==
    /\ mem' = [mem EXCEPT ![a] = flags]
    /\ disk' = flags
    /\ unsaved' = unsaved \ {a}

\* The copy has changed, and the target is not written.
SaveLost(a, flags) ==
    /\ mem' = [mem EXCEPT ![a] = flags]
    /\ unsaved' = unsaved \cup {a}
    /\ UNCHANGED disk

\* A save that raises: before the change, between the copy and the target, or
\* when only the answer of the target got lost.
SaveFails(a, flags) ==
    \/ UNCHANGED doneVars
    \/ SaveLost(a, flags)
    \/ SaveAll(a, flags)

\* The agent goes on without a copy.
DropCopy(a) ==
    /\ Loaded(a)
    /\ mem' = [mem EXCEPT ![a] = NoCopy]
    /\ unsaved' = unsaved \ {a}
    /\ UNCHANGED disk

\* configSave of a class whose flags are as before, and the reset of one that has none,
\* which may make the executor forget its copy, save the flags of all the others.
ConfigSave(a) ==
    /\ Loaded(a)
    /\ disk' = mem[a]
    /\ unsaved' = unsaved \ {a}
    /\ \E copy \in {mem[a], NoCopy} : mem' = [mem EXCEPT ![a] = copy]
ConfigSaveFails(a) == Loaded(a) /\ SaveFails(a, mem[a])

\* The first access to executor.state reads what the target has.
Load(a) ==
    /\ ~Loaded(a)
    /\ mem' = [mem EXCEPT ![a] = disk]
    /\ UNCHANGED <<disk, unsaved>>

\* doneSet: the keys of one call are set together and saved once.
DoneSetAnew(a, keys) ==     \* mutated: self.config["done"] = {} each time
    /\ Loaded(a)
    /\ SaveAll(a, {f \in mem[a] : \A k \in keys : k[1] # f[1]} \cup keys)
DoneSet(a, keys) ==
    /\ Loaded(a)
    /\ IF a \in ReadOnly THEN UNCHANGED doneVars ELSE SaveAll(a, mem[a] \cup keys)
DoneSetFails(a, keys) ==
    /\ Loaded(a)
    /\ a \notin ReadOnly
    /\ SaveFails(a, mem[a] \cup keys)

DoneDeleteOwn(a, f) ==      \* mutated: the other classes' states are not saved
    /\ Loaded(a)
    /\ SaveAll(a, {g \in mem[a] : g[1] = f[1]} \ {f})
DoneDelete(a, f) ==
    /\ Loaded(a)
    /\ IF a \in ReadOnly THEN UNCHANGED doneVars ELSE SaveAll(a, mem[a] \ {f})
DoneDeleteFails(a, f) ==
    /\ Loaded(a)
    /\ a \notin ReadOnly
    /\ SaveFails(a, mem[a] \ {f})

\* cacheReset: the executor may forget its copy; the target keeps the state.
CacheResetSaved(a) ==       \* mutated: the forgotten copy is saved
    /\ Loaded(a)
    /\ SaveAll(a, NoCopy)
CacheReset(a) == Loaded(a) /\ (DropCopy(a) \/ UNCHANGED doneVars)

OfClass(c) == {f \in Flag : f[1] = c}

\* reset and doneReset: the class loses its state, then the cache is reset.
Reset(a, c) ==
    /\ Loaded(a)
    /\ LET kept == mem[a] \ OfClass(c) IN
         /\ disk' = kept
         /\ \E copy \in {kept, NoCopy} : mem' = [mem EXCEPT ![a] = copy]
    /\ unsaved' = unsaved \ {a}
ResetFails(a, c) == Loaded(a) /\ SaveFails(a, mem[a] \ OfClass(c))

\* PrefabFactory.reset: a target that the factory has an object for loses the states
\* of all classes, whether they were read before or not.
ResetState(a) == SaveAll(a, {})
ResetStateFails(a) == SaveFails(a, {})

\* The agent's process ends; the next one starts without a copy.
Restart(a) == DropCopy(a)

DoneStep(a) ==
    \/ Load(a)
    \/ ConfigSave(a) \/ ConfigSaveFails(a)
    \/ \E c \in Class : \E keys \in SUBSET OfClass(c) : DoneSet(a, keys) \/ DoneSetFails(a, keys)
    \/ \E f \in Flag : DoneDelete(a, f) \/ DoneDeleteFails(a, f)
    \/ CacheReset(a)
    \/ \E c \in Class : Reset(a, c) \/ ResetFails(a, c)
    \/ ResetState(a) \/ ResetStateFails(a)
    \/ Restart(a)

DoneNext == \E a \in Agent : DoneStep(a)

DoneSpec == DoneInit /\ [][DoneNext]_doneVars

-------------------------------------------------------------------------------
(* Properties. *)

\* Every copy, and the saved state, is a set of flags.
DoneTypeOK ==
    /\ mem \in [Agent -> (SUBSET Flag) \cup {NoCopy}]
    /\ disk \subseteq Flag
    /\ unsaved \subseteq Agent

\* No second agent works on the target.
Alone == \A a, b \in Agent : a = b

\* An agent that is alone on its target works on a stale copy only after a save
\* that raised, and no longer than until its next save, or until it reads the
\* state again: otherwise what doneGet answers is what is saved there.
CopyIsCurrent ==
    Alone => \A a \in Agent \ unsaved : Loaded(a) => mem[a] = disk

\* The flags that the target has as the agent's copy has them.
Agreed(a) == {f \in Flag : f \in mem[a] <=> f \in disk}

\* What one class forgets or adds leaves the marks of every other class alone:
\* a step of an agent that is alone changes the saved marks of at most one
\* class (configSave writes the states of all classes each time), but for the
\* reset of the factory, and for what a failed save left in the copy: the next
\* save of any class writes that as well.
ClassesAreIsolated ==
    [][Alone => \A a \in Agent : Loaded(a) /\ ~ResetState(a) =>
         \A f, g \in Agreed(a) :
             (f \in disk) # (f \in disk') /\ (g \in disk) # (g \in disk')
               => f[1] = g[1]]_doneVars

\* A mark that the copy has as well is only lost by a call that says so: as long
\* as one agent works on the target, doneSet, cacheReset, a restart and a save
\* that fails keep every such mark (PrefabFactory.test expects it of cacheReset).
MarksAreKept ==
    [][Alone => \A a \in Agent : Loaded(a) /\ ~(mem[a] \cap disk \subseteq disk') =>
         \/ \E f \in Flag : DoneDelete(a, f)
         \/ \E c \in Class : Reset(a, c)
         \/ ResetState(a)]_doneVars
===============================================================================
