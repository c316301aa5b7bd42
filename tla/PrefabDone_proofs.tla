-------------------------- MODULE PrefabDone_proofs --------------------------
(***************************************************************************)
(* Proofs about the memory of prefab, for any agents, flags and classes.   *)
(***************************************************************************)
EXTENDS PrefabDone, TLAPS

\* doneSet, reset and their like leave flags in the copies and on the target,
\* whether their save succeeds or not.
THEOREM DoneTypeCorrect == DoneSpec => []DoneTypeOK
<1>1. DoneInit => DoneTypeOK
  BY DEF DoneInit, DoneTypeOK
<1>2. DoneTypeOK /\ [DoneNext]_doneVars => DoneTypeOK'
  <2> SUFFICES ASSUME DoneTypeOK, [DoneNext]_doneVars PROVE DoneTypeOK'
    OBVIOUS
  <2> USE DEF DoneTypeOK, Loaded
  <2>0. ASSUME NEW a \in Agent, NEW flags \in SUBSET Flag,
               SaveAll(a, flags) \/ SaveFails(a, flags)
        PROVE DoneTypeOK'
    BY <2>0 DEF SaveAll, SaveFails, SaveLost, doneVars
  <2>1. ASSUME NEW a \in Agent, Load(a) PROVE DoneTypeOK'
    BY <2>1 DEF Load
  <2>2. ASSUME NEW a \in Agent, NEW c \in Class, NEW keys \in SUBSET OfClass(c),
               DoneSet(a, keys) \/ DoneSetFails(a, keys)
        PROVE DoneTypeOK'
    <3>1. Loaded(a) => mem[a] \cup keys \in SUBSET Flag
      BY DEF OfClass
    <3> QED
      BY <2>0, <2>2, <3>1 DEF DoneSet, DoneSetFails, doneVars
  <2>3. ASSUME NEW a \in Agent, NEW f \in Flag, DoneDelete(a, f) \/ DoneDeleteFails(a, f)
        PROVE DoneTypeOK'
    <3>1. Loaded(a) => mem[a] \ {f} \in SUBSET Flag
      OBVIOUS
    <3> QED
      BY <2>0, <2>3, <3>1 DEF DoneDelete, DoneDeleteFails, doneVars
  <2>4. ASSUME NEW a \in Agent, CacheReset(a) \/ Restart(a) PROVE DoneTypeOK'
    BY <2>4 DEF CacheReset, Restart, DropCopy, doneVars
  <2>5. ASSUME NEW a \in Agent, NEW c \in Class, Reset(a, c) \/ ResetFails(a, c)
        PROVE DoneTypeOK'
    <3>1. Loaded(a) => mem[a] \ OfClass(c) \in SUBSET Flag
      OBVIOUS
    <3>2. CASE Reset(a, c)
      BY <3>1, <3>2 DEF Reset
    <3>3. CASE ResetFails(a, c)
      BY <2>0, <3>1, <3>3 DEF ResetFails
    <3> QED
      BY <2>5, <3>2, <3>3
  <2>6. ASSUME NEW a \in Agent, ConfigSave(a) \/ ConfigSaveFails(a) PROVE DoneTypeOK'
    BY <2>0, <2>6 DEF ConfigSave, ConfigSaveFails
  <2>7. ASSUME NEW a \in Agent, ResetState(a) \/ ResetStateFails(a) PROVE DoneTypeOK'
    BY <2>0, <2>7 DEF ResetState, ResetStateFails
  <2>8. CASE UNCHANGED doneVars
    BY <2>8 DEF doneVars
  <2> QED
    BY <2>1, <2>2, <2>3, <2>4, <2>5, <2>6, <2>7, <2>8 DEF DoneNext, DoneStep
<1> QED
  BY <1>1, <1>2, PTL DEF DoneSpec

\* What one step of an agent with a copy does to the saved state.
LEMMA SavedStep ==
    ASSUME DoneTypeOK, NEW a \in Agent, DoneStep(a), Loaded(a)
    PROVE  \/ disk' = disk \/ disk' = mem[a]
           \/ \E c \in Class : \E keys \in SUBSET OfClass(c) : disk' = mem[a] \cup keys
           \/ \E f \in Flag : DoneDelete(a, f) /\ disk' = mem[a] \ {f}
           \/ \E c \in Class : Reset(a, c) /\ disk' = mem[a] \ OfClass(c)
           \/ ResetState(a)
<1> USE DEF SaveAll, SaveFails, SaveLost, doneVars
<1>1. ASSUME NEW c \in Class, NEW keys \in SUBSET OfClass(c),
             DoneSet(a, keys) \/ DoneSetFails(a, keys)
      PROVE disk' = disk \/ disk' = mem[a] \cup keys
  BY <1>1 DEF DoneSet, DoneSetFails
<1>2. ASSUME NEW f \in Flag, DoneDelete(a, f) \/ DoneDeleteFails(a, f)
      PROVE disk' = disk \/ (DoneDelete(a, f) /\ disk' = mem[a] \ {f})
  BY <1>2 DEF DoneDelete, DoneDeleteFails
<1>3. ASSUME NEW c \in Class, Reset(a, c) \/ ResetFails(a, c)
      PROVE disk' = disk \/ (Reset(a, c) /\ disk' = mem[a] \ OfClass(c))
  BY <1>3 DEF Reset, ResetFails, DoneTypeOK
<1>4. ResetStateFails(a) => disk' = disk \/ ResetState(a)
  BY DEF ResetStateFails, ResetState
<1>5. Load(a) \/ CacheReset(a) \/ Restart(a) => disk' = disk
  BY DEF Load, CacheReset, Restart, DropCopy
<1>6. ConfigSave(a) \/ ConfigSaveFails(a) => disk' = mem[a] \/ disk' = disk
  BY DEF ConfigSave, ConfigSaveFails
<1> QED
  BY <1>1, <1>2, <1>3, <1>4, <1>5, <1>6 DEF DoneStep

\* Without other agents the copy stays the saved state unless a save fails.
LEMMA AloneStep ==
    ASSUME DoneTypeOK, CopyIsCurrent, Alone, DoneNext
    PROVE  CopyIsCurrent'
<1> USE DEF DoneTypeOK, CopyIsCurrent, Alone, Loaded
<1>1. PICK a \in Agent : DoneStep(a)
  BY DEF DoneNext
<1>2. \A b \in Agent : b = a
  OBVIOUS
<1>0. ASSUME NEW flags, SaveAll(a, flags) \/ SaveFails(a, flags) PROVE CopyIsCurrent'
  BY <1>0, <1>2 DEF SaveAll, SaveFails, SaveLost, doneVars
<1>3. CASE Load(a)
  BY <1>2, <1>3 DEF Load
<1>4. ASSUME NEW c \in Class, NEW keys \in SUBSET OfClass(c),
             DoneSet(a, keys) \/ DoneSetFails(a, keys)
      PROVE CopyIsCurrent'
  BY <1>0, <1>4 DEF DoneSet, DoneSetFails, doneVars
<1>5. ASSUME NEW f \in Flag, DoneDelete(a, f) \/ DoneDeleteFails(a, f)
      PROVE CopyIsCurrent'
  BY <1>0, <1>5 DEF DoneDelete, DoneDeleteFails, doneVars
<1>6. CASE CacheReset(a) \/ Restart(a)
  BY <1>2, <1>6 DEF CacheReset, Restart, DropCopy, doneVars
<1>7. ASSUME NEW c \in Class, Reset(a, c) PROVE CopyIsCurrent'
  BY <1>2, <1>7 DEF Reset
<1>8. ASSUME NEW c \in Class, ResetFails(a, c) PROVE CopyIsCurrent'
  BY <1>0, <1>8 DEF ResetFails
<1>9. CASE ConfigSave(a) \/ ConfigSaveFails(a)
  BY <1>0, <1>2, <1>9 DEF ConfigSave, ConfigSaveFails
<1>10. CASE ResetState(a) \/ ResetStateFails(a)
  BY <1>0, <1>10 DEF ResetState, ResetStateFails
<1> QED
  BY <1>1, <1>3, <1>4, <1>5, <1>6, <1>7, <1>8, <1>9, <1>10 DEF DoneStep

\* An agent that is alone works on what is saved, from the end of a save that
\* succeeds to the next one that fails: the invariant of the run done_one, for
\* any number of classes and keys.
THEOREM CopyCurrent == DoneSpec => []CopyIsCurrent
<1>1. DoneInit => CopyIsCurrent
  BY DEF DoneInit, CopyIsCurrent, Loaded
<1>2. DoneTypeOK /\ CopyIsCurrent /\ [DoneNext]_doneVars => CopyIsCurrent'
  <2>1. CASE UNCHANGED doneVars
    BY <2>1 DEF doneVars, CopyIsCurrent, Alone, Loaded
  <2>2. CASE ~Alone
    BY <2>2 DEF CopyIsCurrent, Alone
  <2> QED
    BY <2>1, <2>2, AloneStep
<1> QED
  BY <1>1, <1>2, DoneTypeCorrect, PTL DEF DoneSpec

\* Classes do not touch each other's marks, although each save writes the
\* states of all classes and may carry what a failed one left behind: only the
\* reset of the factory does.
THEOREM ClassesIsolated == DoneSpec => ClassesAreIsolated
<1>1. ASSUME DoneTypeOK, DoneNext, Alone, NEW a \in Agent, Loaded(a), ~ResetState(a),
             NEW f \in Agreed(a), NEW g \in Agreed(a),
             (f \in disk) # (f \in disk'), (g \in disk) # (g \in disk')
      PROVE f[1] = g[1]
  <2>1. DoneStep(a)
    BY <1>1 DEF DoneNext, Alone
  <2>2. f \in Flag /\ g \in Flag /\ (f \in mem[a] <=> f \in disk) /\ (g \in mem[a] <=> g \in disk)
    BY <1>1 DEF Agreed
  <2>3. ASSUME NEW c \in Class, NEW keys \in SUBSET OfClass(c), disk' = mem[a] \cup keys
        PROVE f[1] = g[1]
    BY <1>1, <2>2, <2>3 DEF OfClass
  <2>4. ASSUME NEW k \in Flag, disk' = mem[a] \ {k} PROVE f[1] = g[1]
    BY <1>1, <2>2, <2>4
  <2>5. ASSUME NEW c \in Class, disk' = mem[a] \ OfClass(c) PROVE f[1] = g[1]
    BY <1>1, <2>2, <2>5 DEF OfClass
  <2>6. disk' # disk /\ disk' # mem[a]
    BY <1>1, <2>2
  <2> QED
    BY <1>1, <2>1, <2>3, <2>4, <2>5, <2>6, SavedStep
<1>2. DoneTypeOK /\ [DoneNext]_doneVars =>
        [Alone => \A a \in Agent : Loaded(a) /\ ~ResetState(a) =>
           \A f, g \in Agreed(a) :
             (f \in disk) # (f \in disk') /\ (g \in disk) # (g \in disk')
               => f[1] = g[1]]_doneVars
  BY <1>1
<1> QED
  BY <1>2, DoneTypeCorrect, PTL DEF DoneSpec, ClassesAreIsolated

\* Only doneDelete and the resets lose marks that the copy has.
THEOREM MarksKept == DoneSpec => MarksAreKept
<1>1. ASSUME DoneTypeOK, DoneNext, Alone, NEW a \in Agent, Loaded(a),
             ~(mem[a] \cap disk \subseteq disk')
      PROVE  \/ \E f \in Flag : DoneDelete(a, f)
             \/ \E c \in Class : Reset(a, c)
             \/ ResetState(a)
  <2>1. DoneStep(a)
    BY <1>1 DEF DoneNext, Alone
  <2>2. disk' # disk /\ disk' # mem[a]
        /\ ~\E c \in Class : \E keys \in SUBSET OfClass(c) : disk' = mem[a] \cup keys
    BY <1>1
  <2> QED
    BY <1>1, <2>1, <2>2, SavedStep
<1>2. DoneTypeOK /\ [DoneNext]_doneVars =>
        [Alone => \A a \in Agent : Loaded(a) /\ ~(mem[a] \cap disk \subseteq disk') =>
           \/ \E f \in Flag : DoneDelete(a, f)
           \/ \E c \in Class : Reset(a, c)
           \/ ResetState(a)]_doneVars
  BY <1>1
<1> QED
  BY <1>2, DoneTypeCorrect, PTL DEF DoneSpec, MarksAreKept
===============================================================================
