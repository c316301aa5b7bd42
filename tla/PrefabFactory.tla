---------------------------- MODULE PrefabFactory ----------------------------
(***************************************************************************)
(* The factory of prefab objects (src/JumpscalePrefab/PrefabFactory.py):   *)
(* one object per executor id in prefabs_instance, the local one memoised  *)
(* in _local as well, and a reset that clears the state of every target    *)
(* whose object is in prefabs_instance.                                    *)
(*                                                                         *)
(* Objects are numbered in the order of their making.  A script may keep   *)
(* an object that it was given for as long as it likes.                    *)
(***************************************************************************)
EXTENDS Naturals, Sequences

CONSTANTS
    Target,     \* the executor ids
    LocalId,    \* the id of j.tools.executorLocal
    MaxObjects  \* bound on the prefab objects that are made

ASSUME FactoryAssumption == LocalId \in Target /\ MaxObjects \in Nat

None == 0

VARIABLES
    instances,  \* prefabs_instance: target -> object, or None
    local,      \* _local: an object, or None
    objects,    \* object -> its target
    stateful,   \* the targets whose state remembers something
    strays      \* history: the targets used through an object that the
                \* factory does not know (any more)

vars == <<instances, local, objects, stateful, strays>>

Init ==
    /\ instances = [t \in Target |-> None]
    /\ local = None
    /\ objects = << >>
    /\ stateful = {}
    /\ strays = {}

\* get makes an object unless it may use the one that it has.
Fresh(t, usecache) == ~usecache \/ instances[t] = None
GotLast(t, usecache) ==      \* mutated: the number before the new one
    IF Fresh(t, usecache) THEN Len(objects) ELSE instances[t]
Got(t, usecache) == IF Fresh(t, usecache) THEN Len(objects) + 1 ELSE instances[t]
Made(t, usecache) == IF Fresh(t, usecache) THEN Append(objects, t) ELSE objects

Get(t, usecache) ==
    /\ Len(Made(t, usecache)) <= MaxObjects
    /\ objects' = Made(t, usecache)
    /\ instances' = [instances EXCEPT ![t] = Got(t, usecache)]
    /\ UNCHANGED <<local, stateful, strays>>

\* The property local asks get once.
Local ==
    /\ local = None
    /\ Len(Made(LocalId, TRUE)) <= MaxObjects
    /\ objects' = Made(LocalId, TRUE)
    /\ instances' = [instances EXCEPT ![LocalId] = Got(LocalId, TRUE)]
    /\ local' = Got(LocalId, TRUE)
    /\ UNCHANGED <<stateful, strays>>

\* A script does something that prefab remembers (doneSet) through object o.
Use(o) ==
    LET t == objects[o] IN
      /\ stateful' = stateful \cup {t}
      /\ strays' = IF instances[t] = None THEN strays \cup {t} ELSE strays
      /\ UNCHANGED <<instances, local, objects>>

\* reset makes sure of the local object, clears the state of the targets that
\* prefabs_instance has, and empties it.  The memo stays.  When it cannot save the
\* state of one of them it raises: some targets are cleared by then, which may
\* include the one whose answer got lost, and prefabs_instance is as before.
ResetObjects ==              \* mutated: the states are left alone
    /\ instances' = [t \in Target |-> None]
    /\ UNCHANGED <<local, objects, stateful, strays>>
Known ==
    IF local = None THEN [instances EXCEPT ![LocalId] = Got(LocalId, TRUE)] ELSE instances
MakesLocal ==
    /\ local = None => Len(Made(LocalId, TRUE)) <= MaxObjects
    /\ objects' = IF local = None THEN Made(LocalId, TRUE) ELSE objects
    /\ local' = IF local = None THEN Got(LocalId, TRUE) ELSE local
Reset ==
    /\ MakesLocal
    /\ stateful' = {t \in stateful : Known[t] = None}
    /\ instances' = [t \in Target |-> None]
    /\ UNCHANGED strays
ResetFails ==
    /\ MakesLocal
    /\ \E cleared \in SUBSET {t \in Target : Known[t] # None} : stateful' = stateful \ cleared
    /\ instances' = Known
    /\ UNCHANGED strays

Next ==
    \/ \E t \in Target, usecache \in BOOLEAN : Get(t, usecache)
    \/ Local
    \/ \E o \in DOMAIN objects : Use(o)
    \/ Reset
    \/ ResetFails

Spec == Init /\ [][Next]_vars

-------------------------------------------------------------------------------
(* Properties. *)

\* Objects are objects of the target that the factory keeps them for.
TypeOK ==
    /\ objects \in Seq(Target)
    /\ Len(objects) <= MaxObjects
    /\ instances \in [Target -> 0..Len(objects)]
    /\ \A t \in Target : instances[t] # None => objects[instances[t]] = t
    /\ local \in 0..Len(objects)
    /\ local # None => objects[local] = LocalId
    /\ stateful \subseteq Target
    /\ strays \subseteq Target

\* The next reset reaches every target that remembers something, except where
\* a script went on with an object from before the last reset: a reset that
\* failed half-way can be called again.
StateIsReachable == \A t \in stateful : instances[t] # None \/ t \in strays
===============================================================================
