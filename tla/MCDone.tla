-------------------------------- MODULE MCDone --------------------------------
(***************************************************************************)
(* PrefabDone for TLC: three classes that remember two steps each.         *)
(***************************************************************************)
EXTENDS PrefabDone

MCFlag == {"PrefabCaddy", "PrefabGolang", "PrefabPackage"} \X {"build", "install"}
MCNoCopy == {<<"no", "copy">>}      \* not a set of flags
===============================================================================
