------------------------- MODULE PrefabFactory_proofs -------------------------
(***************************************************************************)
(* Proofs about the factory, for any targets and any number of objects.    *)
(***************************************************************************)
EXTENDS PrefabFactory, TLAPS

\* The objects after get are the objects before it, and perhaps a new one of t.
LEMMA MadeObjects ==
    ASSUME TypeOK, NEW t \in Target, NEW usecache \in BOOLEAN
    PROVE  /\ Made(t, usecache) \in Seq(Target)
           /\ Len(objects) <= Len(Made(t, usecache))
           /\ \A o \in 1..Len(objects) : Made(t, usecache)[o] = objects[o]
           /\ Got(t, usecache) \in 1..Len(Made(t, usecache))
           /\ Got(t, usecache) # None
           /\ Made(t, usecache)[Got(t, usecache)] = t
           /\ \A o \in 1..Len(Made(t, usecache)) :
                 o \in 1..Len(objects) \/ (o = Got(t, usecache) /\ Fresh(t, usecache))
           /\ Fresh(t, usecache) => Got(t, usecache) > Len(objects)
           /\ ~Fresh(t, usecache) => Got(t, usecache) = instances[t]
<1>1. CASE Fresh(t, usecache)
  BY <1>1 DEF TypeOK, Made, Got, None
<1>2. CASE ~Fresh(t, usecache)
  BY <1>2 DEF TypeOK, Made, Got, Fresh, None
<1> QED
  BY <1>1, <1>2

\* Whatever set of targets the factory may give an object of t to, if it is
\* kept for t alone, the objects stay objects of their targets.
LEMMA KeepsTypes ==
    ASSUME TypeOK, NEW t \in Target, NEW usecache \in BOOLEAN,
           Len(Made(t, usecache)) <= MaxObjects,
           objects' = Made(t, usecache),
           \/ instances' = [instances EXCEPT ![t] = Got(t, usecache)]
           \/ instances' = [u \in Target |-> None],
           local' = local \/ (t = LocalId /\ local' = Got(t, usecache)),
           stateful' \subseteq Target, strays' \subseteq Target
    PROVE  TypeOK'
<1> DEFINE known == [instances EXCEPT ![t] = Got(t, usecache)]
<1>1. /\ objects' \in Seq(Target)
      /\ Len(objects) <= Len(objects')
      /\ \A o \in 1..Len(objects) : objects'[o] = objects[o]
      /\ Got(t, usecache) \in 1..Len(objects')
      /\ objects'[Got(t, usecache)] = t
      /\ Len(objects) \in Nat /\ Len(objects') \in Nat
  <2> DEFINE made == Made(t, usecache)
             got == Got(t, usecache)
  <2>1. /\ made \in Seq(Target) /\ Len(objects) <= Len(made)
        /\ \A o \in 1..Len(objects) : made[o] = objects[o]
        /\ got \in 1..Len(made) /\ made[got] = t
    BY MadeObjects
  <2>2. objects \in Seq(Target) /\ objects' = made
    BY DEF TypeOK
  <2> HIDE DEF made, got
  <2>3. Len(objects) \in Nat /\ Len(made) \in Nat
    BY <2>1, <2>2
  <2>4. /\ objects' \in Seq(Target)
        /\ Len(objects) <= Len(objects')
        /\ \A o \in 1..Len(objects) : objects'[o] = objects[o]
        /\ got \in 1..Len(objects') /\ objects'[got] = t
        /\ Len(objects) \in Nat /\ Len(objects') \in Nat
    BY <2>1, <2>2, <2>3
  <2> QED
    BY <2>4 DEF got
<1>2. /\ instances' \in [Target -> 0..Len(objects')]
      /\ \A u \in Target : instances'[u] # None => objects'[instances'[u]] = u
  <2>1. CASE instances' = known
    <3>1. \A u \in Target : instances[u] # None =>
             instances[u] \in 1..Len(objects) /\ objects[instances[u]] = u
      BY DEF TypeOK, None
    <3>2. \A u \in Target : instances'[u] = IF u = t THEN Got(t, usecache) ELSE instances[u]
      BY <2>1 DEF TypeOK
    <3>3. instances' \in [Target -> 0..Len(objects')]
      BY <1>1, <2>1 DEF TypeOK
    <3> QED
      BY <1>1, <3>1, <3>2, <3>3
  <2>2. CASE instances' = [u \in Target |-> None]
    BY <1>1, <2>2 DEF None
  <2> QED
    BY <2>1, <2>2
<1>3. /\ local' \in 0..Len(objects')
      /\ local' # None => objects'[local'] = LocalId
  BY <1>1 DEF TypeOK, None
<1> QED
  BY <1>1, <1>2, <1>3 DEF TypeOK

\* The factory's bookkeeping is consistent: every object is kept for its own
\* target.
THEOREM TypeCorrect == Spec => []TypeOK
<1>1. Init => TypeOK
  BY FactoryAssumption DEF Init, TypeOK, None
<1>2. TypeOK /\ [Next]_vars => TypeOK'
  <2> SUFFICES ASSUME TypeOK, [Next]_vars PROVE TypeOK'
    OBVIOUS
  <2>1. ASSUME NEW t \in Target, NEW usecache \in BOOLEAN, Get(t, usecache) PROVE TypeOK'
    BY <2>1, KeepsTypes DEF Get, TypeOK
  <2>2. CASE Local
    BY <2>2, KeepsTypes, FactoryAssumption DEF Local, TypeOK
  <2>3. ASSUME NEW o \in DOMAIN objects, Use(o) PROVE TypeOK'
    BY <2>3 DEF Use, TypeOK
  <2>4. CASE Reset \/ ResetFails
    <3>1. CASE local = None
      BY <2>4, <3>1, KeepsTypes, FactoryAssumption DEF Reset, ResetFails, MakesLocal, Known, TypeOK
    <3>2. CASE local # None
      <4>1. objects' = objects /\ local' = local /\ strays' = strays
        BY <2>4, <3>2 DEF Reset, ResetFails, MakesLocal
      <4>2. stateful' \subseteq Target
        BY <2>4 DEF Reset, ResetFails, TypeOK
      <4>3. instances' = [t \in Target |-> None] \/ instances' = instances
        BY <2>4, <3>2 DEF Reset, ResetFails, Known
      <4> QED
        BY <4>1, <4>2, <4>3 DEF TypeOK, None
    <3> QED
      BY <3>1, <3>2
  <2>5. CASE UNCHANGED vars
    BY <2>5 DEF vars, TypeOK
  <2> QED
    BY <2>1, <2>2, <2>3, <2>4, <2>5 DEF Next
<1> QED
  BY <1>1, <1>2, PTL DEF Spec

\* The next reset reaches whatever is remembered, except where a script went on
\* with an object from before the last reset.
THEOREM Reachable == Spec => []StateIsReachable
<1>1. Init => StateIsReachable
  BY DEF Init, StateIsReachable
<1>2. TypeOK /\ StateIsReachable /\ [Next]_vars => StateIsReachable'
  <2> SUFFICES ASSUME TypeOK, StateIsReachable, [Next]_vars PROVE StateIsReachable'
    OBVIOUS
  <2>1. ASSUME NEW t \in Target, NEW usecache \in BOOLEAN, Get(t, usecache)
        PROVE StateIsReachable'
    <3>1. Got(t, usecache) # None
      BY MadeObjects
    <3> QED
      BY <2>1, <3>1 DEF Get, StateIsReachable, TypeOK
  <2>2. CASE Local
    <3>1. Got(LocalId, TRUE) # None
      BY MadeObjects, FactoryAssumption, TRUE \in BOOLEAN
    <3> QED
      BY <2>2, <3>1 DEF Local, StateIsReachable, TypeOK
  <2>3. ASSUME NEW o \in DOMAIN objects, Use(o) PROVE StateIsReachable'
    BY <2>3 DEF Use, StateIsReachable
  <2>4. \A t \in Target : instances[t] # None => Known[t] # None
    <3>1. Got(LocalId, TRUE) # None
      BY MadeObjects, FactoryAssumption, TRUE \in BOOLEAN
    <3> QED
      BY <3>1 DEF Known, TypeOK
  <2>5. CASE Reset
    <3>1. ASSUME NEW t \in stateful' PROVE t \in strays
      <4>1. t \in stateful /\ t \in Target /\ Known[t] = None
        BY <2>5, <3>1 DEF Reset, TypeOK
      <4> QED
        BY <2>4, <4>1 DEF StateIsReachable
    <3> QED
      BY <2>5, <3>1 DEF Reset, StateIsReachable
  <2>6. CASE ResetFails
    BY <2>4, <2>6 DEF ResetFails, StateIsReachable, TypeOK
  <2>7. CASE UNCHANGED vars
    BY <2>7 DEF vars, StateIsReachable
  <2> QED
    BY <2>1, <2>2, <2>3, <2>5, <2>6, <2>7 DEF Next
<1> QED
  BY <1>1, <1>2, TypeCorrect, PTL DEF Spec
===============================================================================
