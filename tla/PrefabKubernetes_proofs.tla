------------------------ MODULE PrefabKubernetes_proofs ------------------------
(***************************************************************************)
(* That kubeadm init starts on a clean etcd cluster, that a cluster which  *)
(* is remembered is whole and was made in one attempt, and that attempts   *)
(* raise over nothing that failures before kubeadm init have left, for any *)
(* number of masters and minions, failures, deaths and reboots.            *)
(***************************************************************************)
EXTENDS PrefabKubernetes, TLAPS

USE KubernetesAssumption DEF Master, Minion, Node, Unsafe

\* Behind kubeadm init of the present attempt, and behind its loop over masters.
Ran == {"unrestrict", "restrict", "send", "restart", "wait", "patch"}
Mastered == {"bind", "minion", "join", "remember", "finish"}

\* The masters before the present one have the certificates of this attempt, on the
\* disk and in etcd; behind the loop all of them.
Fresh ==
    /\ pc \in {"copy", "stop", "start"} =>
          /\ ca = "new"
          /\ \A m \in Master : m < at => certs[m] = "new" /\ etcd[m] = "new"
    /\ pc \in {"stop", "start"} => certs[at] = "new"
    /\ pc \in {"masters", "init"} \cup Ran \cup Mastered =>
          \A m \in Master : certs[m] = "new" /\ etcd[m] = "new"

\* What the attempt that has got past kubeadm init has reached so far.
Reached ==
    /\ pc \in {"masters", "init", "unrestrict", "restrict"} => at = 1
    /\ pc \in Ran \cup Mastered =>
          data = Master /\ inited = "yes" /\ 1 \in based /\ 1 \in joined
    /\ pc \in {"send", "restart", "wait", "patch"} =>
          \A m \in Master : m < at => m \in kubelet \cap based /\ (Unsafe \/ m \in joined)
    /\ pc \in {"wait", "patch"} => at \in kubelet \cap based
    /\ pc \in Mastered =>
          \A m \in Master : m \in kubelet \cap based /\ (Unsafe \/ m \in joined)

\* The minions: whoever remembers that it has joined has, and so have those before
\* the present one.
Enlisted ==
    /\ inited = "no" => minions = {}
    /\ minions # {} \/ pc \in MinionLabel => "install_master" \in flags
    /\ pc = "init" => "install_master" \notin flags
    /\ minions \subseteq joined \cap based
    /\ pc \in MinionLabel => \A n \in Minion : n < at => n \in joined \cap based
    /\ pc = "join" => at \in based
    /\ pc = "remember" => at \in joined \cap based
    /\ pc = "finish" => Minion \subseteq joined \cap based

\* A cluster that is remembered is whole, and nothing is working on it.
Remembered ==
    /\ DoneIsCluster
    /\ "multihost_install" \in flags => pc = "idle"

\* While nothing has failed from kubeadm init on: a cluster that it has begun is in the
\* making or remembered, no flag and no node knows of a cluster that is not begun, none
\* has joined before its turn, and a master that is to be patched has registered.
Early ==
    ~late =>
      /\ inited # "no" => pc \in Ran \cup Mastered \/ "multihost_install" \in flags
      /\ inited = "no" => "install_master" \notin flags /\ config = {} /\ joined = {}
      /\ pc \in Ran => \A m \in config \cup joined : m <= at
      /\ pc = "patch" => at \in joined
      /\ pc \in Ran \cup {"bind"} => \A n \in Minion : n \notin joined
      /\ pc \in MinionLabel =>
            \A n \in Minion : n \in joined => (n < at \/ (n = at /\ pc = "remember"))

\* A cluster that has been begun by an attempt that is over: it is not remembered, and
\* nothing works on it, but for attempts that skip the preflight checks.
Over ==
    /\ inited # "no"
    /\ "multihost_install" \in flags \/ pc \in Ran \cup Mastered => preflight = "skip"

IInv == TypeOK /\ Fresh /\ Reached /\ Enlisted /\ Remembered

\* The initial states are clean.
LEMMA Initially == Init => IInv
<1> SUFFICES ASSUME Init PROVE IInv
  OBVIOUS
<1> USE DEF Init
<1>1. TypeOK
  <2>1. RememberedOK /\ ClusterOK /\ CountOK
    BY DEF RememberedOK, ClusterOK, CountOK
  <2>2. SecretsOK
    BY DEF SecretsOK, Certificate
  <2>3. PlaceOK
    BY DEF PlaceOK, Label, MinionLabel
  <2>4. late \in BOOLEAN
    BY Zenon
  <2> QED BY <2>1, <2>2, <2>3, <2>4 DEF TypeOK
<1>2. Fresh
  BY DEF Fresh, Ran, Mastered
<1>3. Reached
  BY DEF Reached, Ran, Mastered
<1>4. Enlisted
  BY DEF Enlisted, MinionLabel
<1>5. Remembered
  BY DEF Remembered, DoneIsCluster
<1> QED BY <1>1, <1>2, <1>3, <1>4, <1>5 DEF IInv

\* A step keeps the types.
LEMMA TypeStep ==
    ASSUME IInv, [Next]_vars
    PROVE  TypeOK'
<1> USE DEF ClusterOK, CountOK, EachMaster, EachMinion, Fresh, Goto, GotoFirst,
      Label, MasterLabel, MinionLabel, PlaceOK, Quiet, Raise, RememberedOK,
      SecretsOK, TypeOK, cluster, remembered, secrets
<1>a. TypeOK /\ Fresh
  BY DEF IInv
<1>1. ASSUME NEW binaries \in BOOLEAN, NEW checks \in {"run", "skip"}, Begin(binaries, checks)
      PROVE  TypeOK'
  BY <1>a, <1>1 DEF Begin
<1>2. CASE RemoveCerts
  BY <1>a, <1>2 DEF RemoveCerts, Certificate
<1>3. CASE RemoveData
  BY <1>a, <1>3 DEF RemoveData
<1>4. CASE EnsureDirs
  BY <1>a, <1>4 DEF EnsureDirs, Certificate
<1>5. CASE InstallBase
  BY <1>a, <1>5 DEF InstallBase
<1>6. CASE Forget
  BY <1>a, <1>6 DEF Forget
<1>7. CASE Generate
  BY <1>a, <1>7 DEF Generate, Aged, Certificate
<1>8. CASE CopyCerts
  BY <1>a, <1>8 DEF CopyCerts, Aged, Certificate
<1>9. CASE StopEtcd
  BY <1>a, <1>9 DEF StopEtcd
<1>10. CASE StartEtcd
  BY <1>a, <1>10 DEF StartEtcd
<1>11. CASE CheckMaster
  BY <1>a, <1>11 DEF CheckMaster
<1>12. CASE KubeadmInit
  <2>1. RememberedOK' /\ SecretsOK'
    BY <1>a, <1>12 DEF KubeadmInit
  <2>2. ClusterOK'
    <3>1. 1 \in Node /\ 1 \in Master
      OBVIOUS
    <3>2. CASE UNCHANGED cluster
      BY <1>a, <3>2
    <3>3. CASE /\ data' = Master /\ inited' = "yes" /\ config' = config
               /\ kubelet' = kubelet \cup {1}
               /\ joined' \in {{1}} \cup {joined \cup {1} : m \in data}
      BY <1>a, <3>1, <3>3
    <3> QED BY <1>12, <3>2, <3>3 DEF KubeadmInit
  <2>3. PlaceOK' /\ CountOK'
    BY <1>a, <1>12 DEF KubeadmInit
  <2>4. late' \in BOOLEAN
    BY <1>a, <1>12 DEF KubeadmInit
  <2> QED BY <2>1, <2>2, <2>3, <2>4
<1>13. CASE StopKubelet
  BY <1>a, <1>13 DEF StopKubelet
<1>14. CASE StartKubelet
  BY <1>a, <1>14 DEF StartKubelet
<1>15. CASE SendConfig
  BY <1>a, <1>15 DEF SendConfig
<1>16. CASE RestartKubelet
  BY <1>a, <1>16 DEF RestartKubelet
<1>17. CASE Wait
  <2>1. RememberedOK' /\ SecretsOK'
    BY <1>a, <1>17 DEF Wait, Counted
  <2>2. ClusterOK'
    BY <1>a, <1>17 DEF Wait, Counted
  <2>3. PlaceOK' /\ CountOK'
    BY <1>a, <1>17 DEF Wait, Counted
  <2>4. late' \in BOOLEAN
    BY <1>a, <1>17 DEF Wait, Counted
  <2> QED BY <2>1, <2>2, <2>3, <2>4
<1>18. CASE PatchMaster
  BY <1>a, <1>18 DEF PatchMaster
<1>19. CASE MasterDone
  BY <1>a, <1>19 DEF MasterDone
<1>20. CASE CheckMinion
  <2>1. RememberedOK' /\ SecretsOK'
    BY <1>a, <1>20 DEF CheckMinion
  <2>2. ClusterOK'
    BY <1>a, <1>20 DEF CheckMinion
  <2>3. PlaceOK' /\ CountOK'
    BY <1>a, <1>20 DEF CheckMinion
  <2>4. late' \in BOOLEAN
    BY <1>a, <1>20 DEF CheckMinion
  <2> QED BY <2>1, <2>2, <2>3, <2>4
<1>21. CASE Join
  BY <1>a, <1>21 DEF Join
<1>22. CASE MinionDone
  BY <1>a, <1>22 DEF MinionDone
<1>23. CASE Finish
  BY <1>a, <1>23 DEF Finish
<1>24. ASSUME NEW m \in Master, Register(m) PROVE TypeOK'
  BY <1>a, <1>24 DEF Register
<1>25. ASSUME NEW m \in Master, Reboot(m) PROVE TypeOK'
  BY <1>a, <1>25 DEF Reboot, Struck, Certificate
<1>26. CASE Fail
  <2>1. RememberedOK' /\ SecretsOK'
    BY <1>a, <1>26 DEF Fail, Struck, Certificate
  <2>2. ClusterOK'
    BY <1>a, <1>26 DEF Fail, Struck, Certificate
  <2>3. PlaceOK' /\ CountOK'
    BY <1>a, <1>26 DEF Fail, Struck, Certificate
  <2>4. late' \in BOOLEAN
    BY <1>a, <1>26 DEF Fail, Struck, Certificate
  <2> QED BY <2>1, <2>2, <2>3, <2>4
<1>27. CASE Return \/ UNCHANGED vars
  BY <1>a, <1>27 DEF Return, vars
<1> QED BY <1>1, <1>2, <1>3, <1>4, <1>5, <1>6, <1>7, <1>8, <1>9, <1>10, <1>11,
      <1>12, <1>13, <1>14, <1>15, <1>16, <1>17, <1>18, <1>19, <1>20, <1>21, <1>22,
      <1>23, <1>24, <1>25, <1>26, <1>27 DEF Next, Step

\* A step keeps the certificates of the attempt.
LEMMA FreshStep ==
    ASSUME IInv, [Next]_vars
    PROVE  Fresh'
<1> USE DEF ClusterOK, CountOK, EachMaster, EachMinion, Fresh, Goto, GotoFirst,
      Label, MasterLabel, Mastered, MinionLabel, PlaceOK, Quiet, Raise, Ran,
      RememberedOK, SecretsOK, TypeOK, cluster, remembered, secrets
<1>a. TypeOK /\ Fresh
  BY DEF IInv
<1>1. ASSUME NEW binaries \in BOOLEAN, NEW checks \in {"run", "skip"}, Begin(binaries, checks)
      PROVE  Fresh'
  BY <1>a, <1>1 DEF Begin
<1>2. CASE RemoveCerts
  BY <1>a, <1>2 DEF RemoveCerts
<1>3. CASE RemoveData
  BY <1>a, <1>3 DEF RemoveData
<1>4. CASE EnsureDirs
  BY <1>a, <1>4 DEF EnsureDirs
<1>5. CASE InstallBase
  BY <1>a, <1>5 DEF InstallBase
<1>6. CASE Forget
  BY <1>a, <1>6 DEF Forget
<1>7. CASE Generate
  BY <1>a, <1>7 DEF Generate, Aged, Certificate
<1>8. CASE CopyCerts
  BY <1>a, <1>8 DEF CopyCerts, Aged, Certificate
<1>9. CASE StopEtcd
  BY <1>a, <1>9 DEF StopEtcd
<1>10. CASE StartEtcd
  BY <1>a, <1>10 DEF StartEtcd
<1>11. CASE CheckMaster
  BY <1>a, <1>11 DEF CheckMaster
<1>12. CASE KubeadmInit
  BY <1>a, <1>12 DEF KubeadmInit
<1>13. CASE StopKubelet
  BY <1>a, <1>13 DEF StopKubelet
<1>14. CASE StartKubelet
  BY <1>a, <1>14 DEF StartKubelet
<1>15. CASE SendConfig
  BY <1>a, <1>15 DEF SendConfig
<1>16. CASE RestartKubelet
  BY <1>a, <1>16 DEF RestartKubelet
<1>17. CASE Wait
  BY <1>a, <1>17 DEF Wait, Counted
<1>18. CASE PatchMaster
  BY <1>a, <1>18 DEF PatchMaster
<1>19. CASE MasterDone
  BY <1>a, <1>19 DEF MasterDone
<1>20. CASE CheckMinion
  BY <1>a, <1>20 DEF CheckMinion
<1>21. CASE Join
  BY <1>a, <1>21 DEF Join
<1>22. CASE MinionDone
  BY <1>a, <1>22 DEF MinionDone
<1>23. CASE Finish
  BY <1>a, <1>23 DEF Finish
<1>24. ASSUME NEW m \in Master, Register(m) PROVE Fresh'
  BY <1>a, <1>24 DEF Register
<1>25. ASSUME NEW m \in Master, Reboot(m) PROVE Fresh'
  BY <1>a, <1>25 DEF Reboot, Struck
<1>26. CASE Fail
  BY <1>a, <1>26 DEF Fail, Struck
<1>27. CASE Return \/ UNCHANGED vars
  BY <1>a, <1>27 DEF Return, vars
<1> QED BY <1>1, <1>2, <1>3, <1>4, <1>5, <1>6, <1>7, <1>8, <1>9, <1>10, <1>11,
      <1>12, <1>13, <1>14, <1>15, <1>16, <1>17, <1>18, <1>19, <1>20, <1>21, <1>22,
      <1>23, <1>24, <1>25, <1>26, <1>27 DEF Next, Step

\* A step keeps what the attempt has reached.
LEMMA ReachedStep ==
    ASSUME IInv, [Next]_vars
    PROVE  Reached'
<1> USE DEF ClusterOK, CountOK, EachMaster, EachMinion, Goto, GotoFirst, Label,
      MasterLabel, Mastered, MinionLabel, PlaceOK, Quiet, Raise, Ran, Reached,
      RememberedOK, SecretsOK, TypeOK, cluster, remembered, secrets
<1>a. TypeOK /\ Reached
  BY DEF IInv
<1>1. ASSUME NEW binaries \in BOOLEAN, NEW checks \in {"run", "skip"}, Begin(binaries, checks)
      PROVE  Reached'
  BY <1>a, <1>1 DEF Begin
<1>2. CASE RemoveCerts
  BY <1>a, <1>2 DEF RemoveCerts
<1>3. CASE RemoveData
  BY <1>a, <1>3 DEF RemoveData
<1>4. CASE EnsureDirs
  BY <1>a, <1>4 DEF EnsureDirs
<1>5. CASE InstallBase
  BY <1>a, <1>5 DEF InstallBase
<1>6. CASE Forget
  BY <1>a, <1>6 DEF Forget
<1>7. CASE Generate
  BY <1>a, <1>7 DEF Generate
<1>8. CASE CopyCerts
  BY <1>a, <1>8 DEF CopyCerts
<1>9. CASE StopEtcd
  BY <1>a, <1>9 DEF StopEtcd
<1>10. CASE StartEtcd
  BY <1>a, <1>10 DEF StartEtcd
<1>11. CASE CheckMaster
  BY <1>a, <1>11 DEF CheckMaster
<1>12. CASE KubeadmInit
  BY <1>a, <1>12 DEF KubeadmInit
<1>13. CASE StopKubelet
  BY <1>a, <1>13 DEF StopKubelet
<1>14. CASE StartKubelet
  BY <1>a, <1>14 DEF StartKubelet
<1>15. CASE SendConfig
  BY <1>a, <1>15 DEF SendConfig
<1>16. CASE RestartKubelet
  BY <1>a, <1>16 DEF RestartKubelet
<1>17. CASE Wait
  BY <1>a, <1>17 DEF Wait, Counted
<1>18. CASE PatchMaster
  BY <1>a, <1>18 DEF PatchMaster
<1>19. CASE MasterDone
  BY <1>a, <1>19 DEF MasterDone
<1>20. CASE CheckMinion
  BY <1>a, <1>20 DEF CheckMinion
<1>21. CASE Join
  BY <1>a, <1>21 DEF Join
<1>22. CASE MinionDone
  BY <1>a, <1>22 DEF MinionDone
<1>23. CASE Finish
  BY <1>a, <1>23 DEF Finish
<1>24. ASSUME NEW m \in Master, Register(m) PROVE Reached'
  BY <1>a, <1>24 DEF Register
<1>25. ASSUME NEW m \in Master, Reboot(m) PROVE Reached'
  BY <1>a, <1>25 DEF Reboot, Struck
<1>26. CASE Fail
  BY <1>a, <1>26 DEF Fail, Struck
<1>27. CASE Return \/ UNCHANGED vars
  BY <1>a, <1>27 DEF Return, vars
<1> QED BY <1>1, <1>2, <1>3, <1>4, <1>5, <1>6, <1>7, <1>8, <1>9, <1>10, <1>11,
      <1>12, <1>13, <1>14, <1>15, <1>16, <1>17, <1>18, <1>19, <1>20, <1>21, <1>22,
      <1>23, <1>24, <1>25, <1>26, <1>27 DEF Next, Step

\* A step keeps the minions that have joined.
LEMMA EnlistedStep ==
    ASSUME IInv, [Next]_vars
    PROVE  Enlisted'
<1> USE DEF ClusterOK, CountOK, EachMaster, EachMinion, Enlisted, Goto, GotoFirst,
      Label, MasterLabel, Mastered, MinionLabel, PlaceOK, Quiet, Raise, Ran,
      Reached, RememberedOK, SecretsOK, TypeOK, cluster, remembered, secrets
<1>a. TypeOK /\ Reached /\ Enlisted
  BY DEF IInv
<1>1. ASSUME NEW binaries \in BOOLEAN, NEW checks \in {"run", "skip"}, Begin(binaries, checks)
      PROVE  Enlisted'
  BY <1>a, <1>1 DEF Begin
<1>2. CASE RemoveCerts
  BY <1>a, <1>2 DEF RemoveCerts
<1>3. CASE RemoveData
  BY <1>a, <1>3 DEF RemoveData
<1>4. CASE EnsureDirs
  BY <1>a, <1>4 DEF EnsureDirs
<1>5. CASE InstallBase
  BY <1>a, <1>5 DEF InstallBase
<1>6. CASE Forget
  BY <1>a, <1>6 DEF Forget
<1>7. CASE Generate
  BY <1>a, <1>7 DEF Generate
<1>8. CASE CopyCerts
  BY <1>a, <1>8 DEF CopyCerts
<1>9. CASE StopEtcd
  BY <1>a, <1>9 DEF StopEtcd
<1>10. CASE StartEtcd
  BY <1>a, <1>10 DEF StartEtcd
<1>11. CASE CheckMaster
  BY <1>a, <1>11 DEF CheckMaster
<1>12. CASE KubeadmInit
  BY <1>a, <1>12 DEF KubeadmInit
<1>13. CASE StopKubelet
  BY <1>a, <1>13 DEF StopKubelet
<1>14. CASE StartKubelet
  BY <1>a, <1>14 DEF StartKubelet
<1>15. CASE SendConfig
  BY <1>a, <1>15 DEF SendConfig
<1>16. CASE RestartKubelet
  BY <1>a, <1>16 DEF RestartKubelet
<1>17. CASE Wait
  BY <1>a, <1>17 DEF Wait, Counted
<1>18. CASE PatchMaster
  BY <1>a, <1>18 DEF PatchMaster
<1>19. CASE MasterDone
  BY <1>a, <1>19 DEF MasterDone
<1>20. CASE CheckMinion
  BY <1>a, <1>20 DEF CheckMinion
<1>21. CASE Join
  BY <1>a, <1>21 DEF Join
<1>22. CASE MinionDone
  BY <1>a, <1>22 DEF MinionDone
<1>23. CASE Finish
  BY <1>a, <1>23 DEF Finish
<1>24. ASSUME NEW m \in Master, Register(m) PROVE Enlisted'
  BY <1>a, <1>24 DEF Register
<1>25. ASSUME NEW m \in Master, Reboot(m) PROVE Enlisted'
  BY <1>a, <1>25 DEF Reboot, Struck
<1>26. CASE Fail
  BY <1>a, <1>26 DEF Fail, Struck
<1>27. CASE Return \/ UNCHANGED vars
  BY <1>a, <1>27 DEF Return, vars
<1> QED BY <1>1, <1>2, <1>3, <1>4, <1>5, <1>6, <1>7, <1>8, <1>9, <1>10, <1>11,
      <1>12, <1>13, <1>14, <1>15, <1>16, <1>17, <1>18, <1>19, <1>20, <1>21, <1>22,
      <1>23, <1>24, <1>25, <1>26, <1>27 DEF Next, Step

\* A step keeps the cluster that is remembered.
LEMMA RememberedStep ==
    ASSUME IInv, [Next]_vars
    PROVE  Remembered'
<1> USE DEF ClusterOK, CountOK, DoneIsCluster, EachMaster, EachMinion, Enlisted,
      Fresh, Goto, GotoFirst, Label, MasterLabel, Mastered, MinionLabel, PlaceOK,
      Quiet, Raise, Ran, Reached, Remembered, RememberedOK, SecretsOK, TypeOK,
      cluster, remembered, secrets
<1>a. TypeOK /\ Fresh /\ Reached /\ Enlisted /\ Remembered
  BY DEF IInv
<1>1. ASSUME NEW binaries \in BOOLEAN, NEW checks \in {"run", "skip"}, Begin(binaries, checks)
      PROVE  Remembered'
  BY <1>a, <1>1 DEF Begin
<1>2. CASE RemoveCerts
  BY <1>a, <1>2 DEF RemoveCerts
<1>3. CASE RemoveData
  BY <1>a, <1>3 DEF RemoveData
<1>4. CASE EnsureDirs
  BY <1>a, <1>4 DEF EnsureDirs
<1>5. CASE InstallBase
  BY <1>a, <1>5 DEF InstallBase
<1>6. CASE Forget
  BY <1>a, <1>6 DEF Forget
<1>7. CASE Generate
  BY <1>a, <1>7 DEF Generate
<1>8. CASE CopyCerts
  BY <1>a, <1>8 DEF CopyCerts
<1>9. CASE StopEtcd
  BY <1>a, <1>9 DEF StopEtcd
<1>10. CASE StartEtcd
  BY <1>a, <1>10 DEF StartEtcd
<1>11. CASE CheckMaster
  BY <1>a, <1>11 DEF CheckMaster
<1>12. CASE KubeadmInit
  BY <1>a, <1>12 DEF KubeadmInit
<1>13. CASE StopKubelet
  BY <1>a, <1>13 DEF StopKubelet
<1>14. CASE StartKubelet
  BY <1>a, <1>14 DEF StartKubelet
<1>15. CASE SendConfig
  BY <1>a, <1>15 DEF SendConfig
<1>16. CASE RestartKubelet
  BY <1>a, <1>16 DEF RestartKubelet
<1>17. CASE Wait
  BY <1>a, <1>17 DEF Wait, Counted
<1>18. CASE PatchMaster
  BY <1>a, <1>18 DEF PatchMaster
<1>19. CASE MasterDone
  BY <1>a, <1>19 DEF MasterDone
<1>20. CASE CheckMinion
  BY <1>a, <1>20 DEF CheckMinion
<1>21. CASE Join
  BY <1>a, <1>21 DEF Join
<1>22. CASE MinionDone
  BY <1>a, <1>22 DEF MinionDone
<1>23. CASE Finish
  BY <1>a, <1>23 DEF Finish
<1>24. ASSUME NEW m \in Master, Register(m) PROVE Remembered'
  BY <1>a, <1>24 DEF Register
<1>25. ASSUME NEW m \in Master, Reboot(m) PROVE Remembered'
  BY <1>a, <1>25 DEF Reboot, Struck
<1>26. CASE Fail
  BY <1>a, <1>26 DEF Fail, Struck
<1>27. CASE Return \/ UNCHANGED vars
  BY <1>a, <1>27 DEF Return, vars
<1> QED BY <1>1, <1>2, <1>3, <1>4, <1>5, <1>6, <1>7, <1>8, <1>9, <1>10, <1>11,
      <1>12, <1>13, <1>14, <1>15, <1>16, <1>17, <1>18, <1>19, <1>20, <1>21, <1>22,
      <1>23, <1>24, <1>25, <1>26, <1>27 DEF Next, Step

\* A step keeps what holds while nothing has failed from kubeadm init on.
LEMMA EarlyStep ==
    ASSUME IInv, Early, [Next]_vars
    PROVE  Early'
<1> USE DEF ClusterOK, CountOK, EachMaster, EachMinion, Early, Enlisted, Goto,
      GotoFirst, Label, MasterLabel, Mastered, MinionLabel, PlaceOK, Quiet, Raise,
      Ran, Reached, Remembered, RememberedOK, TypeOK, cluster, remembered, secrets
<1>a. TypeOK /\ Reached /\ Enlisted /\ Remembered /\ Early
  BY DEF IInv
<1>1. ASSUME NEW binaries \in BOOLEAN, NEW checks \in {"run", "skip"}, Begin(binaries, checks)
      PROVE  Early'
  BY <1>a, <1>1 DEF Begin
<1>2. CASE RemoveCerts
  BY <1>a, <1>2 DEF RemoveCerts
<1>3. CASE RemoveData
  BY <1>a, <1>3 DEF RemoveData
<1>4. CASE EnsureDirs
  BY <1>a, <1>4 DEF EnsureDirs
<1>5. CASE InstallBase
  BY <1>a, <1>5 DEF InstallBase
<1>6. CASE Forget
  BY <1>a, <1>6 DEF Forget
<1>7. CASE Generate
  BY <1>a, <1>7 DEF Generate
<1>8. CASE CopyCerts
  BY <1>a, <1>8 DEF CopyCerts
<1>9. CASE StopEtcd
  BY <1>a, <1>9 DEF StopEtcd
<1>10. CASE StartEtcd
  BY <1>a, <1>10 DEF StartEtcd
<1>11. CASE CheckMaster
  BY <1>a, <1>11 DEF CheckMaster
<1>12. CASE KubeadmInit
  <2>1. CASE ~late /\ inited = "no" /\ 1 \in based
    <3>1. joined = {} /\ config = {} /\ late' = late
      BY <1>a, <1>12, <2>1 DEF KubeadmInit
    <3>2. joined' = {1} /\ config' = {} /\ pc' = "unrestrict" /\ at' = at /\ at = 1
      BY <1>a, <1>12, <2>1, <3>1 DEF KubeadmInit
    <3>3. inited' = "yes"
      BY <1>12, <2>1 DEF KubeadmInit
    <3> QED BY <3>2, <3>3
  <2>2. CASE late
    BY <1>12, <2>2 DEF KubeadmInit
  <2>3. CASE ~late /\ inited # "no"
    BY <1>a, <1>12, <2>3 DEF KubeadmInit
  <2>4. CASE ~late /\ inited = "no" /\ 1 \notin based
    BY <1>a, <1>12, <2>4 DEF KubeadmInit
  <2> QED BY <2>1, <2>2, <2>3, <2>4
<1>13. CASE StopKubelet
  BY <1>a, <1>13 DEF StopKubelet
<1>14. CASE StartKubelet
  BY <1>a, <1>14 DEF StartKubelet
<1>15. CASE SendConfig
  BY <1>a, <1>15 DEF SendConfig
<1>16. CASE RestartKubelet
  BY <1>a, <1>16 DEF RestartKubelet
<1>17. CASE Wait
  BY <1>a, <1>17 DEF Wait, Counted
<1>18. CASE PatchMaster
  BY <1>a, <1>18 DEF PatchMaster
<1>19. CASE MasterDone
  BY <1>a, <1>19 DEF MasterDone
<1>20. CASE CheckMinion
  BY <1>a, <1>20 DEF CheckMinion
<1>21. CASE Join
  BY <1>a, <1>21 DEF Join
<1>22. CASE MinionDone
  BY <1>a, <1>22 DEF MinionDone
<1>23. CASE Finish
  BY <1>a, <1>23 DEF Finish
<1>24. ASSUME NEW m \in Master, Register(m) PROVE Early'
  BY <1>a, <1>24 DEF Register
<1>25. ASSUME NEW m \in Master, Reboot(m) PROVE Early'
  BY <1>a, <1>25 DEF Reboot, Struck
<1>26. CASE Fail
  BY <1>a, <1>26 DEF Fail, Struck
<1>27. CASE Return \/ UNCHANGED vars
  <2>1. /\ pc' = pc /\ at' = at /\ late' = late /\ inited' = inited
        /\ config' = config /\ joined' = joined /\ flags' = flags
    BY <1>27 DEF Return, vars
  <2> QED BY <1>a, <2>1
<1> QED BY <1>1, <1>2, <1>3, <1>4, <1>5, <1>6, <1>7, <1>8, <1>9, <1>10, <1>11,
      <1>12, <1>13, <1>14, <1>15, <1>16, <1>17, <1>18, <1>19, <1>20, <1>21, <1>22,
      <1>23, <1>24, <1>25, <1>26, <1>27 DEF Next, Step

\* A cluster that an attempt has begun and not remembered stays so: every later one
\* raises before it gets past kubeadm init, if that is to run its checks.
LEMMA OverStep ==
    ASSUME IInv, Over, [Next]_vars
    PROVE  Over'
<1> USE DEF EachMaster, EachMinion, Goto, GotoFirst, Mastered, Over, Quiet, Raise, Ran,
      cluster, remembered, secrets
<1>0. "multihost_install" \in flags => pc = "idle"
  BY DEF IInv, Remembered
<1>1. ASSUME NEW binaries \in BOOLEAN, NEW checks \in {"run", "skip"}, Begin(binaries, checks)
      PROVE  Over'
  BY <1>1 DEF Begin
<1>2. CASE RemoveCerts \/ RemoveData \/ EnsureDirs \/ InstallBase
  BY <1>2 DEF RemoveCerts, RemoveData, EnsureDirs, InstallBase
<1>3. CASE Forget \/ Generate
  BY <1>3 DEF Forget, Generate
<1>4. CASE CopyCerts \/ StopEtcd \/ StartEtcd
  BY <1>4 DEF CopyCerts, StopEtcd, StartEtcd
<1>5. CASE CheckMaster
  BY <1>5 DEF CheckMaster
<1>6. CASE KubeadmInit
  BY <1>6 DEF KubeadmInit
<1>7. CASE \/ StopKubelet \/ StartKubelet \/ SendConfig \/ RestartKubelet
           \/ Wait \/ PatchMaster
  BY <1>7 DEF StopKubelet, StartKubelet, SendConfig, RestartKubelet, Wait, PatchMaster
<1>8. CASE MasterDone \/ CheckMinion \/ Join \/ MinionDone \/ Finish
  BY <1>8 DEF MasterDone, CheckMinion, Join, MinionDone, Finish
<1>9. ASSUME NEW m \in Master, Register(m) \/ Reboot(m) PROVE Over'
  BY <1>9 DEF Register, Reboot, Struck
<1>10. CASE Fail
  BY <1>10 DEF Fail, Struck
<1>11. CASE Return \/ UNCHANGED vars
  BY <1>11 DEF Return, vars
<1> QED BY <1>1, <1>2, <1>3, <1>4, <1>5, <1>6, <1>7, <1>8, <1>9, <1>10, <1>11 DEF
      Next, Step

\* While nothing has failed from kubeadm init on, a command raises of itself only for
\* want of what install_binaries brings.
LEMMA RaiseStep ==
    ASSUME IInv, Early, Raises
    PROVE  late \/ Unprepared
<1> USE DEF EachMaster, EachMinion, Early, Goto, GotoFirst, Mastered, MinionLabel,
      PlaceOK, Raise, Raises, Ran, Reached, Remembered, TypeOK, Unprepared
<1>a. TypeOK /\ Reached /\ Remembered
  BY DEF IInv
<1>1. CASE RemoveCerts \/ RemoveData \/ EnsureDirs \/ InstallBase \/ Forget \/ Generate
  BY <1>1 DEF RemoveCerts, RemoveData, EnsureDirs, InstallBase, Forget, Generate
<1>2. CASE CopyCerts \/ StopEtcd \/ StartEtcd
  BY <1>2 DEF CopyCerts, StopEtcd, StartEtcd
<1>3. CASE CheckMaster
  BY <1>a, <1>3 DEF CheckMaster
<1>4. CASE KubeadmInit
  BY <1>a, <1>4 DEF KubeadmInit
<1>5. CASE StopKubelet \/ StartKubelet \/ SendConfig \/ RestartKubelet \/ Wait
  BY <1>5 DEF StopKubelet, StartKubelet, SendConfig, RestartKubelet, Wait
<1>6. CASE PatchMaster
  BY <1>6 DEF PatchMaster
<1>7. CASE MasterDone \/ CheckMinion \/ MinionDone \/ Finish
  BY <1>7 DEF MasterDone, CheckMinion, MinionDone, Finish
<1>8. CASE Join
  BY <1>a, <1>8 DEF Join
<1> QED BY <1>1, <1>2, <1>3, <1>4, <1>5, <1>6, <1>7, <1>8 DEF Raises, Step

\* The invariant holds in every state.
THEOREM Invariance == Spec => []IInv
<1>1. Init => IInv
  BY Initially
<1>2. IInv /\ [Next]_vars => IInv'
  BY TypeStep, FreshStep, ReachedStep, EnlistedStep, RememberedStep DEF IInv
<1> QED BY <1>1, <1>2, PTL DEF Spec

\* The state is well-typed, for any number of masters and minions.
THEOREM TypeCorrect == Spec => []TypeOK
<1>1. IInv => TypeOK
  BY DEF IInv
<1> QED BY <1>1, Invariance, PTL

\* kubeadm init finds every member of etcd on the certificates of its own attempt.
THEOREM StartsClean == Spec => []CleanStart
<1>1. IInv => CleanStart
  BY DEF IInv, Fresh, CleanStart
<1> QED BY <1>1, Invariance, PTL

\* A cluster that is remembered is whole, after however many attempts.
THEOREM RememberedIsWhole == Spec => []DoneIsCluster
<1>1. IInv => DoneIsCluster
  BY DEF IInv, Remembered
<1> QED BY <1>1, Invariance, PTL

\* Until something has failed from kubeadm init on, an attempt never raises of itself
\* over what earlier ones, or reboots, have left: neither over a flag, nor over a node
\* that has joined, nor over one that has not registered.
THEOREM RaisesRightly == Spec => RaisesForCause
<1>1. Init => Early
  BY DEF Init, Early, Ran, Mastered, MinionLabel
<1>2. IInv /\ Early /\ [Next]_vars => Early'
  BY EarlyStep
<1>3. IInv /\ Early => (Raises => late \/ Unprepared)
  BY RaiseStep
<1> QED BY <1>1, <1>2, <1>3, Invariance, PTL DEF Spec, RaisesForCause

\* A cluster that an attempt has begun and not remembered is never remembered, unless by
\* an attempt that skips the preflight checks.
THEOREM OneAttemptOnly == Spec => OneAttempt
<1>1. IInv /\ Over /\ [Next]_vars => Over'
  BY OverStep
<1>2. Begun => Over
  BY DEF Begun, Over, Ran, Mastered
<1>3. Over => ("multihost_install" \in flags => preflight = "skip")
  BY DEF Over
<1> QED BY <1>1, <1>2, <1>3, Invariance, PTL DEF Spec, OneAttempt

===============================================================================
