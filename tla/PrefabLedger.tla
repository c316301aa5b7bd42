----------------------------- MODULE PrefabLedger -----------------------------
(***************************************************************************)
(* What the done flags of prefab promise, abstractly: a ledger of flags    *)
(* beside a world of facts.  The world changes on its own and keeps the    *)
(* lasting facts; a flag enters the ledger only when the facts it stands   *)
(* for hold.  PrefabRecipe implements this.                                *)
(***************************************************************************)
CONSTANTS
    Flag,
    Lasting,    \* the facts that nothing takes away
    Promised    \* flag -> the lasting facts it stands for

Promises == Promised \in [Flag -> SUBSET Lasting]

VARIABLES ledger, world

Init == ledger = {} /\ world = {}

\* Commands run, services stop, targets reboot.
Change ==
    /\ Lasting \cap world \subseteq world'
    /\ UNCHANGED ledger

\* Flags leave, and flags enter whose facts hold.
Record ==
    /\ ledger' \subseteq Flag
    /\ \A k \in ledger' \ ledger : Promised[k] \subseteq world
    /\ UNCHANGED world

Next == Change \/ Record

Spec == Init /\ [][Next]_<<ledger, world>>

\* The ledger never lies: the facts behind each of its flags hold.
Honest == ledger \subseteq Flag /\ \A k \in ledger : Promised[k] \subseteq world
===============================================================================
