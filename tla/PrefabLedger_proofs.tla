------------------------- MODULE PrefabLedger_proofs -------------------------
(***************************************************************************)
(* The ledger of PrefabLedger never lies, for any flags, facts and         *)
(* promises.                                                               *)
(***************************************************************************)
EXTENDS PrefabLedger, TLAPS

\* Every flag in the ledger has its facts behind it, however the world changes.
THEOREM LedgerHonest == ASSUME Promises PROVE Spec => []Honest
<1>1. Init => Honest
  BY DEF Init, Honest
<1>2. Honest /\ [Next]_<<ledger, world>> => Honest'
  BY DEF Honest, Next, Change, Record, Promises
<1> QED
  BY <1>1, <1>2, PTL DEF Spec
===============================================================================
