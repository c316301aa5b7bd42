------------------------------ MODULE MCPromise ------------------------------
(***************************************************************************)
(* Several agents on one target: PrefabPromise on the catalogue, for TLC.  *)
(***************************************************************************)
EXTENDS PrefabPromise, MCRecipe

MCKept == LET it == TheLasting IN it
MCLosing == LET it == TheLosing IN it

\* Agents with the same wishes are interchangeable.
Alike == Permutations(Agent)
===============================================================================
