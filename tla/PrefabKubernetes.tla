--------------------------- MODULE PrefabKubernetes ---------------------------
(***************************************************************************)
(* PrefabKubernetes.multihost_install: a controller makes a cluster of     *)
(* masters, each with a member of an etcd cluster, and of minions.  It     *)
(* works on one node after the other; any command may fail, the controller *)
(* may die and a node may reboot, and the operator calls it again, with or *)
(* without install_binaries and skip_flight_checks.  The controller        *)
(* remembers install_master and multihost_install, each node its own       *)
(* install_base and install_minion.                                        *)
(***************************************************************************)
EXTENDS Naturals

CONSTANTS
    Masters,    \* how many; the first is the one that kubeadm init runs on
    Minions,    \* how many; without any, the masters take the work (unsafe)
    MaxFaults   \* bound on failing commands, deaths, time-outs and reboots

ASSUME KubernetesAssumption ==
    /\ Masters \in Nat \ {0}
    /\ Minions \in Nat
    /\ MaxFaults \in Nat

Master == 1..Masters
Minion == Masters + 1 .. Masters + Minions
Node == 1..Masters + Minions
Unsafe == Minions = 0

VARIABLES
    flags,      \* the controller's done flags
    based,      \* the nodes that remember install_base
    minions,    \* the nodes that remember install_minion
    ca,         \* the certificates in the controller's $TMPDIR/k8s
    certs,      \* master -> those in its $CFGDIR/etcd/pki
    etcd,       \* master -> those that its running etcd has read, or "down"
    data,       \* the masters whose /var/lib/etcd holds the cluster
    inited,     \* whether kubeadm init has left anything, or all, on the first
    config,     \* the masters that have got its /etc/kubernetes
    kubelet,    \* the masters whose kubelet runs
    joined,     \* the nodes that have registered in the cluster
    preflight,  \* whether kubeadm is to "run" its preflight checks in this call, or
                \* to "skip" them (skip_flight_checks=True)
    pc, at,     \* the command that the controller is at, for which node
    late,       \* something has failed from kubeadm init on
    faults

remembered == <<flags, based, minions>>
secrets == <<ca, certs, etcd>>
cluster == <<data, inited, config, kubelet, joined>>
vars == <<remembered, secrets, cluster, preflight, pc, at, late, faults>>

\* Certificates: signed by the authority that the controller has now, or by an
\* earlier one, or a mixture; none in an empty directory, or not even that.
Certificate == {"nodir", "none", "torn", "old", "new"}

Init ==
    /\ flags = {} /\ based = {} /\ minions = {}
    /\ ca = "none"
    /\ certs = [m \in Master |-> "nodir"]
    /\ etcd = [m \in Master |-> "down"]
    /\ data = {} /\ inited = "no" /\ config = {} /\ kubelet = {} /\ joined = {}
    /\ preflight = "run"
    /\ pc = "idle" /\ at = 1
    /\ late = FALSE /\ faults = 0

-------------------------------------------------------------------------------
(* Moving on. *)

Goto(label) == pc' = label /\ at' = at
GotoFirst(label) == pc' = label /\ at' = 1
\* The next one of the masters, or what comes behind the loop.
EachMasterToo(label, after) ==      \* mutated: one master too many
    IF at <= Masters THEN pc' = label /\ at' = at + 1 ELSE GotoFirst(after)
EachMaster(label, after) ==
    IF at < Masters THEN pc' = label /\ at' = at + 1 ELSE GotoFirst(after)
EachMinion ==
    IF at < Masters + Minions THEN pc' = "minion" /\ at' = at + 1 ELSE GotoFirst("finish")
Raise == Goto("idle")
Quiet == UNCHANGED <<preflight, late, faults>>

\* A call that finds its flag returns without doing anything.  With reset=True, in
\* development only, it would not: that is left out.
Return == pc = "idle" /\ "multihost_install" \in flags /\ UNCHANGED vars
Begin(binaries, checks) ==
    /\ pc = "idle"
    /\ "multihost_install" \notin flags
    /\ preflight' = checks
    /\ GotoFirst(IF binaries THEN "pki" ELSE "forget")
    /\ UNCHANGED <<remembered, secrets, cluster, late, faults>>

-------------------------------------------------------------------------------
(* install_binaries: get_etcd_binaries and install_base on each master. *)

RemoveCerts ==
    /\ pc = "pki"
    /\ certs' = [certs EXCEPT ![at] = "nodir"]
    /\ Goto("data")
    /\ UNCHANGED <<remembered, ca, etcd, cluster>> /\ Quiet
RemoveData ==
    /\ pc = "data"
    /\ data' = data \ {at}
    /\ Goto("dirs")
    /\ UNCHANGED <<remembered, secrets, inited, config, kubelet, joined>> /\ Quiet
EnsureNothing ==            \* mutated: the directories are not made again
    /\ pc = "dirs"
    /\ Goto("base")
    /\ UNCHANGED <<remembered, secrets, cluster>> /\ Quiet
EnsureDirs ==
    /\ pc = "dirs"
    /\ certs' = [certs EXCEPT ![at] = "none"]
    /\ Goto("base")
    /\ UNCHANGED <<remembered, ca, etcd, cluster>> /\ Quiet
InstallBase ==
    /\ pc = "base"
    /\ based' = based \cup {at}
    /\ EachMaster("pki", "forget")
    /\ UNCHANGED <<flags, minions, secrets, cluster>> /\ Quiet

-------------------------------------------------------------------------------
(* setup_etcd_certs: a new authority in every attempt. *)

Forget ==
    /\ pc = "forget"
    /\ ca' = "none"
    /\ Goto("generate")
    /\ UNCHANGED <<remembered, certs, etcd, cluster>> /\ Quiet

Aged(x) == IF x = "new" THEN "old" ELSE x
Generate ==
    /\ pc = "generate"
    /\ ca' = "new"
    /\ certs' = [m \in Master |-> Aged(certs[m])]
    /\ etcd' = [m \in Master |-> Aged(etcd[m])]
    /\ GotoFirst("copy")
    /\ UNCHANGED <<remembered, cluster>> /\ Quiet

-------------------------------------------------------------------------------
(* install_etcd_cluster, master by master. *)

\* scp into a directory that must be there.
CopyMissing ==              \* mutated: only where no certificates are
    /\ pc = "copy"
    /\ certs' = [certs EXCEPT ![at] = IF @ = "none" THEN ca ELSE @]
    /\ IF certs[at] = "nodir" THEN Raise ELSE Goto("stop")
    /\ UNCHANGED <<remembered, ca, etcd, cluster>> /\ Quiet
CopyCerts ==
    /\ pc = "copy"
    /\ certs' = [certs EXCEPT ![at] = IF @ = "nodir" THEN @ ELSE ca]
    /\ IF certs[at] = "nodir" THEN Raise ELSE Goto("stop")
    /\ UNCHANGED <<remembered, ca, etcd, cluster>> /\ Quiet
\* Systemd's restart: stop, which also disables, and start, which enables.
StopEtcd ==
    /\ pc = "stop"
    /\ etcd' = [etcd EXCEPT ![at] = "down"]
    /\ Goto("start")
    /\ UNCHANGED <<remembered, ca, certs, cluster>> /\ Quiet
StartEtcd ==
    /\ pc = "start"
    /\ etcd' = [etcd EXCEPT ![at] = certs[at]]
    /\ EachMaster("copy", "masters")
    /\ UNCHANGED <<remembered, ca, certs, cluster>> /\ Quiet

-------------------------------------------------------------------------------
(* install_kube_masters. *)

\* When it is done it returns None, which its caller cannot unpack.
CheckMasterSkips ==         \* mutated: it returns what its caller needs
    /\ pc = "masters"
    /\ Goto(IF "install_master" \in flags THEN "bind" ELSE "init")
    /\ UNCHANGED <<remembered, secrets, cluster>> /\ Quiet
CheckMaster ==
    /\ pc = "masters"
    /\ IF "install_master" \in flags THEN Raise ELSE Goto("init")
    /\ UNCHANGED <<remembered, secrets, cluster>> /\ Quiet

\* The preflight checks of kubeadm, which install_base brings, refuse a node on which
\* it has left anything.  Where they are skipped it may fail on what is there or get
\* through: with the nodes that have registered, if etcd still has them, or anew.
KubeadmInit ==
    /\ pc = "init"
    /\ \/ (inited # "no" \/ 1 \notin based) /\ Raise /\ UNCHANGED cluster
       \/ /\ inited = "no" \/ preflight = "skip"
          /\ 1 \in based
          /\ inited' = "yes"
          /\ data' = Master
          /\ kubelet' = kubelet \cup {1}
          /\ joined' \in {{1}} \cup {joined \cup {1} : m \in data}
          /\ UNCHANGED config
          /\ Goto("unrestrict")
    /\ UNCHANGED <<remembered, secrets>> /\ Quiet

\* The kubelet of the first master is stopped while its manifest is edited.
StopKubelet ==
    /\ pc = "unrestrict"
    /\ kubelet' = kubelet \ {1}
    /\ Goto("restrict")
    /\ UNCHANGED <<remembered, secrets, data, inited, config, joined>> /\ Quiet
StartKubelet ==
    /\ pc = "restrict"
    /\ kubelet' = kubelet \cup {1}
    /\ EachMaster("send", "bind")
    /\ UNCHANGED <<remembered, secrets, data, inited, config, joined>> /\ Quiet

\* Every other master gets the first one's configuration and starts its kubelet,
\* which registers it some time later.
SendConfig ==
    /\ pc = "send"
    /\ config' = config \cup {at}
    /\ Goto("restart")
    /\ UNCHANGED <<remembered, secrets, data, inited, kubelet, joined>> /\ Quiet
RestartKubelet ==
    /\ pc = "restart"
    /\ \/ at \in based /\ kubelet' = kubelet \cup {at} /\ Goto("wait") /\ UNCHANGED late
       \/ at \notin based /\ late' = TRUE /\ Raise /\ UNCHANGED kubelet
    /\ UNCHANGED <<remembered, secrets, data, inited, config, joined, preflight, faults>>
Register(m) ==
    /\ m \in (config \cap kubelet) \ joined
    /\ inited = "yes" /\ data # {}
    /\ joined' = joined \cup {m}
    /\ UNCHANGED <<remembered, secrets, data, inited, config, kubelet, pc, at>> /\ Quiet

\* The controller looks thirty times whether there are as many nodes as masters so
\* far, and goes on: when this one is there, when a master that an earlier attempt
\* has set up is counted in its place, or when none has come.
Counted == at \in joined \/ \E m \in joined : m > at
WaitNot ==                  \* mutated: it does not look
    /\ pc = "wait"
    /\ Goto("patch")
    /\ UNCHANGED <<remembered, secrets, cluster>> /\ Quiet
Wait ==
    /\ pc = "wait"
    /\ \/ Counted /\ UNCHANGED <<late, faults>>
       \/ /\ at \notin joined
          /\ faults < MaxFaults
          /\ faults' = faults + 1
          /\ late' = TRUE
    /\ Goto("patch")
    /\ UNCHANGED <<remembered, secrets, cluster, preflight>>
\* Only a registered node can be made a master of.
PatchUnseen ==              \* mutated: whether it is registered or not
    /\ pc = "patch"
    /\ EachMaster("send", "bind")
    /\ UNCHANGED <<remembered, secrets, cluster>> /\ Quiet
PatchMaster ==
    /\ pc = "patch"
    /\ \/ (Unsafe \/ at \in joined) /\ EachMaster("send", "bind")
       \/ ~Unsafe /\ at \notin joined /\ Raise
    /\ UNCHANGED <<remembered, secrets, cluster>> /\ Quiet

MasterDone ==
    /\ pc = "bind"
    /\ flags' = flags \cup {"install_master"}
    /\ IF Unsafe THEN GotoFirst("finish") ELSE pc' = "minion" /\ at' = Masters + 1
    /\ UNCHANGED <<based, minions, secrets, cluster>> /\ Quiet

-------------------------------------------------------------------------------
(* install_minion. *)

CheckMinion ==
    /\ pc = "minion"
    /\ IF at \in minions
       THEN EachMinion /\ UNCHANGED based
       ELSE Goto("join") /\ based' = based \cup {at}
    /\ UNCHANGED <<flags, minions, secrets, cluster>> /\ Quiet
\* kubeadm refuses to join twice.
Join ==
    /\ pc = "join"
    /\ joined' = joined \cup {at}
    /\ IF at \in joined THEN Raise ELSE Goto("remember")
    /\ UNCHANGED <<remembered, secrets, data, inited, config, kubelet>> /\ Quiet
MinionDone ==
    /\ pc = "remember"
    /\ minions' = minions \cup {at}
    /\ EachMinion
    /\ UNCHANGED <<flags, based, secrets, cluster>> /\ Quiet

Finish ==
    /\ pc = "finish"
    /\ flags' = flags \cup {"multihost_install"}
    /\ Goto("idle")
    /\ UNCHANGED <<based, minions, secrets, cluster>> /\ Quiet

-------------------------------------------------------------------------------
(* Failures. *)

Struck ==
    /\ faults < MaxFaults
    /\ faults' = faults + 1
    /\ late' = (late \/ inited # "no" \/ pc = "init")
    /\ UNCHANGED preflight

\* A command fails or the controller dies; what the command has done of its
\* work stays.
Fail ==
    /\ pc # "idle"
    /\ Struck
    /\ Raise
    /\ \/ UNCHANGED <<certs, inited, joined>>
       \/ /\ pc = "copy" /\ certs[at] # "nodir"
          /\ certs' = [certs EXCEPT ![at] = "torn"]
          /\ UNCHANGED <<inited, joined>>
       \/ /\ pc = "init" /\ inited = "no"
          /\ inited' = "half"
          /\ UNCHANGED <<certs, joined>>
       \/ /\ pc = "join"
          /\ joined' = joined \cup {at}
          /\ UNCHANGED <<certs, inited>>
    /\ UNCHANGED <<remembered, ca, etcd, data, config, kubelet>>

\* A master reboots: its services come back as they are enabled, and read what
\* is on the disk.  The controller may have been talking to it.
Reboot(m) ==
    /\ Struck
    /\ etcd' = [etcd EXCEPT ![m] =
                  IF @ = "down" \/ certs[m] \in {"nodir", "none"} THEN "down" ELSE certs[m]]
    /\ Goto(pc) \/ Raise
    /\ UNCHANGED <<remembered, ca, certs, cluster>>

Step ==
    \/ RemoveCerts \/ RemoveData \/ EnsureDirs \/ InstallBase
    \/ Forget \/ Generate
    \/ CopyCerts \/ StopEtcd \/ StartEtcd
    \/ CheckMaster \/ KubeadmInit \/ StopKubelet \/ StartKubelet
    \/ SendConfig \/ RestartKubelet \/ Wait \/ PatchMaster \/ MasterDone
    \/ CheckMinion \/ Join \/ MinionDone
    \/ Finish

Next ==
    \/ Return \/ \E binaries \in BOOLEAN, checks \in {"run", "skip"} : Begin(binaries, checks)
    \/ Step
    \/ \E m \in Master : Register(m)
    \/ Fail
    \/ \E m \in Master : Reboot(m)

Spec == Init /\ [][Next]_vars

-------------------------------------------------------------------------------
(* Properties. *)

MasterLabel == {"pki", "data", "dirs", "base", "copy", "stop", "start", "send", "restart", "wait", "patch"}
MinionLabel == {"minion", "join", "remember"}
Label == MasterLabel \cup MinionLabel
    \cup {"idle", "forget", "generate", "masters", "init", "unrestrict", "restrict", "bind", "finish"}

RememberedOK ==
    /\ flags \subseteq {"install_master", "multihost_install"}
    /\ based \subseteq Node /\ minions \subseteq Minion
SecretsOK ==
    /\ ca \in {"none", "new"}
    /\ certs \in [Master -> Certificate]
    /\ etcd \in [Master -> {"down", "torn", "old", "new"}]
ClusterOK ==
    /\ data \subseteq Master /\ inited \in {"no", "half", "yes"}
    /\ config \subseteq Master /\ kubelet \subseteq Master /\ joined \subseteq Node
PlaceOK ==
    /\ pc \in Label /\ at \in Node
    /\ pc \in MasterLabel => at \in Master
    /\ pc \in MinionLabel => at \in Minion
CountOK == faults \in 0..MaxFaults /\ preflight \in {"run", "skip"}
\* The state is well-typed, and the loops of install_binaries, install_etcd_cluster
\* and install_kube_masters are at a master, the one of install_minion at a minion.
TypeOK == RememberedOK /\ SecretsOK /\ ClusterOK /\ PlaceOK /\ CountOK /\ late \in BOOLEAN

\* kubeadm init finds an etcd cluster whose members have all read certificates of
\* the authority that this attempt has made (line 351 relies on lines 311 to 320),
\* whatever earlier attempts have left on the masters or in their running members.
CleanStart == pc = "init" => \A m \in Master : etcd[m] = "new"

\* Once multihost_install is remembered (line 128), and however many attempts it
\* took, the cluster is whole: every member of etcd has its data and runs with the
\* last certificates, every master runs a kubelet, every minion has joined, and so
\* has every master if it was to be made one.
DoneIsCluster ==
    "multihost_install" \in flags =>
        /\ data = Master
        /\ \A m \in Master : certs[m] = "new" /\ etcd[m] = "new"
        /\ Master \subseteq kubelet
        /\ Node \subseteq based
        /\ (IF Unsafe THEN {1} ELSE Node) \subseteq joined

\* What the operator has not had installed: the certificates' directory of a master
\* (line 307) or the binaries of a node (lines 105, 106), which install_binaries brings.
Unprepared ==
    \/ pc = "copy" /\ certs[at] = "nodir"
    \/ pc \in {"init", "restart"} /\ at \notin based

\* Whatever earlier attempts and reboots have left behind, on the nodes or in the flags
\* of each of them, multihost_install raises of itself only where install_binaries=True
\* is still to be called, or when something has failed from kubeadm init on: the flags
\* that lines 335 and 522 look at, the nodes that kubeadm has seen and those that have
\* registered never contradict each other in an attempt that meets no failure.
Raises == Step /\ pc # "finish" /\ pc' = "idle"
RaisesForCause == [][Raises => late \/ Unprepared]_vars

\* A cluster that kubeadm init has begun is remembered by the attempt that began it, by
\* a later one that skips the preflight checks, or never: of what a failed attempt has
\* left of one (line 369), no other attempt, with its new certificates and its emptied
\* etcd, makes a cluster that it takes for whole.  (DoneIsCluster says that one which
\* skips the checks makes a whole one, if any.)
Begun == pc = "idle" /\ inited # "no" /\ "multihost_install" \notin flags
OneAttempt == [](Begun => []("multihost_install" \in flags => preflight = "skip"))

\* Nothing that has happened before kubeadm init ran keeps an operator who calls
\* multihost_install again, as it is by default, from getting the cluster.
Heals == <>("multihost_install" \in flags \/ late)

\* Commands end, a running kubelet registers its node, and the operator calls
\* multihost_install by default again and again until it is done.
LiveSpec ==
    /\ Spec
    /\ WF_vars(Step)
    /\ \A m \in Master : WF_vars(Register(m))
    /\ SF_vars(Begin(TRUE, "run"))

===============================================================================
