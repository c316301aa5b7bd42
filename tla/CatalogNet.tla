------------------------------ MODULE CatalogNet ------------------------------
(***************************************************************************)
(* Recipes of src/modules/network, monitoring, virtualization, zero_os and *)
(* jumpscale, and the rest of those of storage, runtimes and lib.          *)
(***************************************************************************)
EXTENDS CatalogWeb

-------------------------------------------------------------------------------
(* Class PrefabPython: the interpreter of a sandbox and its packages.      *)

\* The reset of the whole factory comes first.
PythonReset ==
    << Wipe,
       Forget("python"),
       Undo({<<"python", "bin">>, <<"python", "env">>, <<"python", "pip">>,
             <<"python", "lib">>, <<"python", "jumpscale">>, <<"python", "electrum">>}),
       Undo({<<"python", "src">>}),
       Forget("pip"),
       Forget("package") >>

\* build looks for its flag and never sets it.
PythonBuild ==
    << If({"reset"}, Call(<<"python", "reset">>)),
       Check(<<"python", "build">>),
       Giving({"nopython"}, Call(<<"base", "development">>)),
       IfUndone({<<"python", "compile">>}, Do(<<"python", "src">>)) >>
    \o [i \in 1..8 |-> IfUndone({<<"python", "compile">>},
          Packages(<<"zlib1g-dev", "libncurses5-dev", "libbz2-dev", "liblzma-dev",
                     "libsqlite3-dev", "libreadline-dev", "libssl-dev", "libsnappy-dev">>)[i])]
    \o << IfUndone({<<"python", "compile">>}, Do(<<"python", "bin">>)),
          IfUndone({<<"python", "compile">>}, Done(<<"python", "compile">>)),
          Passing({"reset"}, Call(<<"python", "_pip_env_install">>)) >>

PythonPipEnv ==
    << Do(<<"python", "env">>),
       IfUndone({<<"python", "pip3install">>}, Needs(<<"python", "bin">>)),
       IfUndone({<<"python", "pip3install">>}, Do(<<"python", "pip">>)),
       Done(<<"python", "pip3install">>),
       PackageEnsure("libssl-dev"),
       PackageEnsure("libcapnp-dev"),
       Passing({"reset"}, Call(<<"python", "_include_jumpscale">>)),
       Call(<<"python", "_pip_all">>) >>

PythonIncludeJumpscale ==
    << Check(<<"python", "_include_jumpscale">>),
       Do(<<"python", "lib">>),
       Needs(<<"python", "env">>),
       Do(<<"python", "jumpscale">>),
       Call(<<"python", "_pip_all">>) >>

\* One package today; its flag is looked at whatever reset says.
PythonPipAll ==
    << IfUnmarked({<<"python", "pip3_electrum">>}, Needs(<<"python", "env">>)),
       IfUnmarked({<<"python", "pip3_electrum">>}, Do(<<"python", "electrum">>)),
       IfUnmarked({<<"python", "pip3_electrum">>}, Done(<<"python", "pip3_electrum">>)) >>

-------------------------------------------------------------------------------
(* Classes PrefabCelery, PrefabLua, PrefabFuse, PrefabCapnp, PrefabMercurial *)
(* and PrefabGit.                                                          *)

CeleryInstall == << Call(<<"pip", "celery[redis]">>), Call(<<"pip", "flower">>) >>
CeleryStart ==
    << IfLacks(<<"celery", "tasks">>, Do(<<"celery", "tasks">>)) >>
    \o Ensure("celery")
LuaPackage == << Do(<<"lua", "rock">>) >>

FuseInstall ==
    Packages(<<"python3.5", "python3-pkgconfig", "pkg-config", "libfuse-dev", "libattr1-dev",
               "python3-llfuse", "python3-setuptools", "python3-dev">>)
    \o << Do(<<"fuse", "llfuse">>) >>

\* PrefabPIP has no multiInstall: what comes after it is not reached.
CapnpInstall ==
    << Unless({"reset"}, IfThere(<<"capnp", "bin">>, Stop)),
       Call(<<"package", "mdupdate">>) >>
    \o Packages(<<"curl", "make", "g++", "python-dev">>)
    \o << Do(<<"capnp", "bin">>),
          Raise >>

MercurialInstall ==
    << Call(<<"package", "python2.7-dev">>),
       Do(<<"mercurial", "archive">>),
       Do(<<"mercurial", "src">>),
       Do(<<"mercurial", "made">>),
       Do(<<"mercurial", "hg">>) >>
MercurialPullRepo ==
    << IfLacks(<<"mercurial", "hg">>, Call(<<"mercurial", "install">>)),
       If({"reset"}, Undo({<<"mercurial", "clone">>})),
       Do(<<"mercurial", "clone">>) >>
GitBuild ==
    Packages(<<"tcl", "libcurl4-gnutls-dev", "gettext", "libssl-dev">>)
    \o << Do(<<"git", "src">>),
          Do(<<"git", "bin">>) >>

-------------------------------------------------------------------------------
(* src/modules/network. *)

\* Class PrefabCoreDns: the flag is set after the start that install ends with.
CoreDnsInstall ==
    << If({"start"}, IfDone({<<"coredns", "install">>}, Call(<<"coredns", "start">>))),
       Check(<<"coredns", "install">>),
       Passing({"reset"}, Call(<<"golang", "install">>)),
       Call(<<"redis", "install">>),
       Call(<<"redis", "start">>) >>
    \o GoGet(<<"gosrc", "coredns">>)
    \o << Do(<<"gosrc", "coredns.plugins">>),
          Do(<<"coredns", "config">>),
          Do(<<"gosrc", "coredns.bin">>),
          If({"start"}, Call(<<"coredns", "start">>)),
          Done(<<"coredns", "install">>) >>
CoreDnsStart == Ensure("coredns")
CoreDnsRegister ==
    << Call(<<"package", "redis-tools">>),
       Needs(<<"redis", "running">>),
       IfLacks(<<"coredns", "record">>, Do(<<"coredns", "record">>)) >>

\* Class PrefabZerotier: the flag of build is set before the install that it
\* ends with; on a Mac it is not set at all.
ZerotierReset ==
    << Forget("zerotier"),
       Undo({<<"zerotier", "builddir">>}),
       Unset(<<"zerotier", "build">>) >>
ZerotierBuild ==
    << If({"reset"}, Call(<<"zerotier", "reset">>)),
       Check(<<"zerotier", "build">>),
       If({"lede"}, Do(<<"zerotier", "bin">>)),
       If({"lede"}, Done(<<"zerotier", "build">>)),
       If({"lede"}, Stop),
       If({"ubuntu"}, PackageEnsure("gcc")),
       If({"ubuntu"}, PackageEnsure("g++")),
       If({"ubuntu"}, PackageEnsure("make")),
       Do(<<"zerotier", "src">>),
       Do(<<"zerotier", "made">>),
       If({"mac"}, Do(<<"zerotier", "bin">>)),
       If({"mac"}, Stop),
       Do(<<"zerotier", "builddir">>),
       Done(<<"zerotier", "build">>),
       Unless({"noinstall"}, Call(<<"zerotier", "install">>)) >>
ZerotierInstall ==
    << IfUnmarked({<<"zerotier", "build">>},
         Giving({"noinstall"}, Call(<<"zerotier", "build">>))),
       If({"lede"}, Stop),
       If({"mac"}, Stop),
       Do(<<"zerotier", "bin">>) >>
ZerotierStart == << Do(<<"zerotier", "profile">>) >> \o Ensure("zerotier")
ZerotierStop == StopService("zerotier")
ZerotierJoin ==
    << Needs(<<"zerotier", "running">>),
       Do(<<"zerotier", "joined">>) >>
ZerotierLeave ==
    << Needs(<<"zerotier", "running">>),
       Needs(<<"zerotier", "joined">>),
       Undo({<<"zerotier", "joined">>}) >>

\* Class PrefabZeroBoot configures a router that runs LEDE (uci, opkg).  The
\* settings of zerotier are written unless they name the network already.
ZeroBootInstall ==
    << Check(<<"zeroboot", "install">>),
       Passing({"reset"}, Call(<<"zerotier", "build">>)),
       Unless({"lede"}, Raise),
       IfThere(<<"zeroboot", "sample">>, Undo({<<"zeroboot", "sample">>})),
       If({"reset"}, Do(<<"zeroboot", "zerotier">>)),
       IfLacks(<<"zeroboot", "zerotier">>, Do(<<"zeroboot", "zerotier">>)),
       Do(<<"zerotier", "running">>),
       Call(<<"zerotier", "network_join">>),
       Do(<<"zeroboot", "dhcp">>),
       Do(<<"zeroboot", "storage">>),
       Do(<<"zeroboot", "pxe">>),
       Do(<<"zeroboot", "interface">>),
       IfLacks(<<"zeroboot", "zone">>, Do(<<"zeroboot", "zone">>)),
       Do(<<"zeroboot", "zone.rules">>),
       IfLacks(<<"zeroboot", "to.zerotier">>, Do(<<"zeroboot", "to.zerotier">>)),
       IfLacks(<<"zeroboot", "to.lan">>, Do(<<"zeroboot", "to.lan">>)),
       Done(<<"zeroboot", "install">>) >>

\* Class PrefabGateOne: the link /usr/bin/python must be new, for it is made
\* in the last line of the script.
GateOneBuild ==
    << Check(<<"gateone", "build">>),
       Do(<<"gateone", "src">>),
       Done(<<"gateone", "build">>) >>
GateOneInstall ==
    << Unless({"reset"}, IfThere(<<"gateone", "bin">>, Stop)),
       Needs(<<"gateone", "src">>),
       Do(<<"gateone", "bin">>) >>
    \o Fresh(<<"gateone", "link">>)
    \o << Do(<<"ssh", "id_rsa">>),
          Done(<<"gateone", "install">>) >>
GateOneStart == Ensure("gateone")
GateOneStop == StopService("gateone")
GateOneRestart == GateOneStop \o << Call(<<"gateone", "start">>) >>
GateOneReset == << >>

\* Class PrefabGeoDns does not install Go before it runs go get.
GeoDnsReset == << Forget("geodns") >>
GeoDnsInstall ==
    << Unless({"reset"}, IfThere(<<"geodns", "bin">>, Stop)),
       Call(<<"package", "mdupdate">>) >>
    \o Packages(<<"libgeoip-dev", "build-essential", "pkg-config">>)
    \o << Undo(GoSources),
          Needs(<<"golang", "bin">>),
          Do(<<"gosrc", "geodns">>),
          Do(<<"geodns", "bin">>),
          Do(<<"geodns", "templates">>),
          Do(<<"geodns", "profile">>),
          Do(<<"geodns", "cfg">>) >>
GeoDnsStart == Ensure("geodns")
GeoDnsStop == StopService("geodns")

\* Class PrefabSkyDns (src/modules/web).
SkyDnsBuild ==
    << IfThere(<<"skydns", "bin">>, Stop),
       Call(<<"golang", "install">>) >>
    \o GoGet(<<"gosrc", "skydns">>)
    \o << Do(<<"skydns", "gobin">>),
          Call(<<"skydns", "install">>) >>
SkyDnsInstall ==
    << Needs(<<"skydns", "gobin">>),
       Do(<<"skydns", "bin">>),
       Do(<<"skydns", "path">>),
       Call(<<"skydns", "start">>) >>
SkyDnsStart == Ensure("skydns")

-------------------------------------------------------------------------------
(* Virtualization and monitoring. *)

\* Class PrefabDocker: without a branch, get.docker.com is run when there is no
\* docker; where docker is there, install does not start it.
DockerInit == << Do(<<"docker", "running">>) >>
DockerInstall ==
    << Unless({"reset"}, IfThere(<<"docker", "bin">>, Stop)),
       If({"ubuntu"}, Unless({"branch"}, IfLacks(<<"docker", "bin">>, Do(<<"docker", "bin">>)))),
       If({"ubuntu"}, Unless({"branch"}, Call(<<"docker", "_init_docker">>))),
       If({"ubuntu"}, Unless({"branch"}, Stop)) >>
    \o [i \in 1..4 |-> If({"ubuntu"},
          Packages(<<"apt-transport-https", "linux-image-extra-$(uname -r)",
                     "linux-image-extra-virtual", "software-properties-common">>)[i])]
    \o << If({"ubuntu"}, Do(<<"docker", "repository">>)),
          If({"ubuntu"}, Giving({"reset"}, Call(<<"package", "mdupdate">>))),
          If({"ubuntu"}, Do(<<"docker", "bin">>)),
          If({"arch"}, Call(<<"package", "docker">>)),
          Call(<<"docker", "_init_docker">>) >>
DockerUbuntuBuild ==
    << Call(<<"docker", "_init_docker">>),
       Do(<<"docker", "src">>),
       Do(<<"docker", "image">>),
       If({"push"}, Do(<<"docker", "pushed">>)) >>
\* The container is created; the object that should stand for it assigns to a
\* property that has no setter.
DockerStart ==
    << Call(<<"docker", "_init_docker">>),
       Do(<<"docker", "container">>),
       Raise >>

ComposeInit == << Do(<<"docker", "running">>) >>
ComposeInstall ==
    << Unless({"reset"}, IfThere(<<"dockercompose", "bin">>, Stop)),
       If({"ubuntu"}, Do(<<"base", "locale">>)),
       If({"ubuntu"}, IfLacks(<<"docker", "bin">>, Do(<<"docker", "bin">>))),
       If({"ubuntu"}, IfLacks(<<"dockercompose", "bin">>, Do(<<"dockercompose", "bin">>))),
       If({"arch"}, Call(<<"package", "docker">>)),
       If({"arch"}, Call(<<"package", "docker-compose">>)),
       Call(<<"dockercompose", "_init_docker">>) >>
ComposeUbuntuBuild ==
    << Call(<<"dockercompose", "_init_docker">>),
       Do(<<"docker", "src">>),
       Do(<<"docker", "image">>),
       If({"push"}, Do(<<"docker", "pushed">>)) >>
\* It asks for the address of a container "ahah", whatever the name.
ComposeStart ==
    << Call(<<"dockercompose", "_init_docker">>),
       Do(<<"docker", "container">>),
       Raise >>

OvsInstall ==
    << IfThere(<<"pkg", "openvswitch-switch">>, Stop),
       Unless({"ubuntu"}, Raise) >>
    \o Packages(<<"openssl", "openvswitch-switch", "openvswitch-common">>)
\* There is no core.package.
OvsUninstall ==
    << IfLacks(<<"pkg", "openvswitch-switch">>, Stop),
       Raise >>

\* Class PrefabKVM: PrefabPIP has neither ensure nor packageRemove.
KvmInstall ==
    << If({"18.04"}, Raise),
       Call(<<"package", "mdupdate">>),
       Raise >>
KvmUninstall ==
    << Undo({<<"pkg", p>> : p \in {"libvirt-bin", "libvirt-dev", "qemu-system-x86",
                                   "qemu-system-common", "genisoimage"}}),
       Raise >>

GrafanaBuild ==
    << Unless({"reset"}, IfThere(<<"grafana", "deb">>, Stop)),
       Unless({"ubuntu"}, Raise),
       Do(<<"grafana", "deb">>) >>
GrafanaInstall ==
    << Needs(<<"grafana", "deb">>),
       Do(<<"grafana", "bin">>),
       Do(<<"grafana", "app">>),
       Do(<<"grafana", "ini">>),
       If({"start"}, Call(<<"grafana", "start">>)) >>
GrafanaStart ==
    << Do(<<"grafana", "script">>) >>
    \o Ensure("grafana")
    \o << Try(<<"grafana", "datasource">>) >>

\* isInstalled asks for the right version.
SmartmontoolsInstall ==
    << IfThere(<<"smartmontools", "bin">>, Stop),
       Do(<<"smartmontools", "download">>),
       Do(<<"smartmontools", "bin">>),
       Undo({<<"smartmontools", "download">>}) >>

-------------------------------------------------------------------------------
(* src/modules/zero_os and jumpscale, and applications. *)

ZdbBuild ==
    << Unless({"reset"}, IfThere(<<"zdb", "bin">>, Stop)),
       If({"ubuntu"}, Call(<<"package", "mdupdate">>)),
       If({"ubuntu"}, Call(<<"package", "build-essential">>)),
       Do(<<"zdb", "src">>),
       Undo({<<"zdb", "made">>}),
       Do(<<"zdb", "made">>),
       Giving({"source"}, Passing({"start"}, Call(<<"zdb", "install">>))) >>
ZdbInstall ==
    << Unless({"source"}, Raise),
       Do(<<"zdb", "bin">>),
       If({"start"}, Call(<<"zdb", "start">>)) >>
ZdbStart == Ensure("zdb")
ZdbStop == StopService("zdb")

\* prefab.runtimmes does not exist.
ZstorBuild == << Raise >>

\* Class PrefabCrm: build stops at the multiInstall that PrefabPIP lacks.
CrmBuild ==
    << Check(<<"crm", "build">>),
       Call(<<"package", "mdupdate">>),
       Call(<<"package", "build-essential">>),
       Call(<<"package", "git">>),
       Do(<<"crm", "src">>),
       Do(<<"crm", "requirements.apt">>),
       Raise >>
CrmInstall ==
    << IfUnmarked({<<"crm", "build">>}, Call(<<"crm", "build">>)),
       IfUnmarked({<<"crm", "configure">>}, Call(<<"crm", "configure">>)),
       If({"start"}, Call(<<"crm", "start">>)) >>
CrmConfigure ==
    << Do(<<"caddy", "conf">>),
       IfLacks(<<"postgresql", "running">>, Call(<<"postgresql", "start">>)),
       Needs(<<"crm", "src">>),
       Do(<<"crm", "database">>),
       Done(<<"crm", "configure">>) >>
CrmStart ==
    << IfLacks(<<"postgresql", "bin">>, Stop),
       IfLacks(<<"redis", "bin">>, Stop),
       IfLacks(<<"caddy", "bin">>, Stop),
       IfLacks(<<"postgresql", "running">>, Call(<<"postgresql", "start">>)),
       IfLacks(<<"redis", "running">>, Call(<<"redis", "start">>)),
       IfLacks(<<"caddy", "running">>, Call(<<"caddy", "start">>)) >>
    \o Ensure("crm") \o Ensure("mailer") \o Ensure("syncdata") \o Ensure("rq_worker")

\* Class PrefabJumpscaleCore: the script is run a second time when it fails.
JumpscaleInstall ==
    << Check(<<"jumpscalecore", "install">>),
       If({"full"}, Call(<<"base", "development">>)),
       Unless({"full"}, Call(<<"base", "install">>)),
       Call(<<"pip", "zerotier">>),
       Call(<<"jumpscalecore", "_install">>),
       Done(<<"jumpscalecore", "install">>) >>
JumpscaleScript ==
    << Check(<<"jumpscalecore", "jsinstall">>),
       Do(<<"jumpscalecore", "code">>),
       Done(<<"jumpscalecore", "jsinstall">>) >>

\* Class PrefabZeroaccess.
ZeroaccessBuild ==
    << Check(<<"zeroaccess", "build">>),
       Call(<<"jumpscalecore", "install">>),
       Do(<<"zeroaccess", "src">>),
       Done(<<"zeroaccess", "build">>) >>
ZeroaccessInstall ==
    << Passing({"reset"}, Call(<<"zeroaccess", "build">>)),
       Do(<<"zeroaccess", "requirements">>),
       Do(<<"ssh", "id_rsa">>),
       Do(<<"zeroaccess", "lash">>) >>
ZeroaccessStart == << Call(<<"zeroaccess", "stop">>) >> \o Ensure("zeroaccess")
ZeroaccessStop == StopService("zeroaccess")

\* Class PrefabTfChain of src/modules/apps hands on to the blockchain module.
TfchainAppBuild == << Passing({"reset"}, Call(<<"tfchain", "build">>)) >>
TfchainAppInstall == << Passing({"reset"}, Call(<<"tfchain", "install">>)) >>

-------------------------------------------------------------------------------
(* The rest of src/modules/storage, and PrefabRsync. *)

RsyncReset ==
    << Undo({<<"rsync", "archive">>, <<"rsync", "made">>}),
       Unset(<<"rsync", "build">>) >>
\* Like zerotier, it remembers the build before it installs, and what it
\* installs by default is the package.
RsyncBuild ==
    << If({"reset"}, Call(<<"rsync", "reset">>)),
       Check(<<"rsync", "build">>),
       PackageEnsure("gcc"), PackageEnsure("g++"), PackageEnsure("make"),
       Do(<<"rsync", "archive">>),
       Do(<<"rsync", "made">>),
       Done(<<"rsync", "build">>),
       Unless({"noinstall"}, Call(<<"rsync", "install">>)) >>
RsyncInstall ==
    << If({"build"}, IfUnmarked({<<"rsync", "build">>},
         Giving({"noinstall"}, Call(<<"rsync", "build">>)))),
       If({"build"}, Do(<<"rsync", "profile">>)),
       If({"build"}, Do(<<"rsync", "bin">>)),
       Unless({"build"}, Call(<<"package", "rsync">>)) >>
RsyncConfigure == << Call(<<"rsync", "install">>) >>

\* Class PrefabS3Scality: the tree that npm has prepared is moved away.
S3Install ==
    << Call(<<"package", "mdupdate">>),
       Call(<<"package", "build-essential">>),
       Call(<<"package", "python2.7">>),
       Do(<<"s3", "dirs">>),
       Do(<<"s3", "src">>),
       Do(<<"s3", "profile">>),
       Call(<<"nodejs", "install">>),
       Do(<<"s3", "npm">>),
       Undo({<<"s3", "app">>}),
       Do(<<"s3", "app">>),
       Undo({<<"s3", "src">>}),
       Do(<<"s3", "package.json">>),
       If({"start"}, Call(<<"s3", "start">>)) >>
S3Start ==
    << Do(<<"s3", "data">>),
       IfLacks(<<"s3", "run-all">>, Do(<<"s3", "run-all">>)),
       Do(<<"s3", "node.path">>),
       Needs(<<"s3", "app">>),
       Do(<<"s3", "running">>) >>

\* Class PrefabAydoStor: it needs Go and does not install it.
AydoBuild ==
    << Unless({"reset"}, IfThere(<<"aydostor", "bin">>, Stop)),
       Call(<<"package", "mdupdate">>),
       Call(<<"package", "build-essential">>),
       Undo(GoSources),
       Needs(<<"golang", "bin">>),
       Do(<<"gosrc", "stor">>),
       Do(<<"aydostor", "gobin">>),
       Call(<<"aydostor", "install">>) >>
AydoInstall ==
    << Needs(<<"aydostor", "gobin">>),
       Do(<<"aydostor", "bin">>),
       Do(<<"aydostor", "path">>) >>
    \o StopService("aydostor")
    \o << Do(<<"aydostor", "backend">>),
          Do(<<"aydostor", "config">>),
          Call(<<"aydostor", "start">>) >>
AydoStart ==
    << Needs(<<"aydostor", "config">>) >>
    \o Ensure("aydostor")

\* Class PrefabZDisk.
ZdiskBuild ==
    << Unless({"reset"}, IfThere(<<"zdisk", "bin">>, Stop)),
       Call(<<"package", "git">>),
       Call(<<"golang", "install">>),
       Do(<<"gosrc", "0-disk">>),
       Do(<<"zdisk", "bin">>) >>
ZdiskInstall == << Passing({"reset"}, Call(<<"zdisk", "build">>)) >>
ZdiskStart ==
    << Do(<<"zdisk", "config">>) >>
    \o StopService("zdisk")
    \o << Needs(<<"zdisk", "bin">>),
          Do(<<"zdisk", "running">>) >>
ZdiskStop == StopService("zdisk")

\* Class PrefabSyncthing: install builds, and build, unless told otherwise,
\* ends with install.
SyncthingBuild ==
    << Check(<<"syncthing", "build">>),
       Call(<<"golang", "install">>),
       Undo({<<"gosrc", "syncthing">>}),
       Do(<<"gosrc", "syncthing">>),
       Do(<<"gosrc", "syncthing.bin">>),
       Do(<<"syncthing", "builddir">>),
       Done(<<"syncthing", "build">>),
       Call(<<"syncthing", "install">>) >>
SyncthingInstall ==
    << Check(<<"syncthing", "install">>),
       Call(<<"syncthing", "build">>),
       Call(<<"pip", "syncthing">>),
       Do(<<"syncthing", "cfg.dir">>),
       Do(<<"syncthing", "bin">>),
       Done(<<"syncthing", "install">>),
       Call(<<"syncthing", "start">>) >>
SyncthingStart ==
    << If({"reset"}, Undo({<<"syncthing", "running">>, <<"syncthing", "cfg.dir">>,
                           <<"syncthing", "config">>})),
       IfLacks(<<"syncthing", "cfg.dir">>, Needs(<<"syncthing", "bin">>)),
       IfLacks(<<"syncthing", "cfg.dir">>, Do(<<"syncthing", "config">>)) >>
    \o Ensure("syncthing")
SyncthingStop == StopService("syncthing")
SyncthingRestart == SyncthingStop \o << Call(<<"syncthing", "start">>) >>

\* Class PrefabPyFTPServer: prefab.storage has no btrfs.
FtpInstall ==
    << Check(<<"pyftpserver", "install">>),
       Call(<<"pip", "pyftpdlib">>),
       Call(<<"pyftpserver", "configure">>),
       Done(<<"pyftpserver", "install">>),
       Call(<<"pyftpserver", "start">>) >>
FtpConfigure ==
    << PackageEnsure("btrfs-tools"),
       Raise >>
FtpStart == Ensure("pyftpserver")
FtpStop == StopService("pyftpserver")

\* Classes PrefabVolumeDriver and PrefabAlba: package.install knows no
\* allow_unauthenticated.
VolumeDriverBuild ==
    << Unless({"reset"}, IfThere(<<"volumedriver", "bin">>, Stop)),
       Do(<<"volumedriver", "sources.list">>),
       Call(<<"package", "mdupdate">>),
       Call(<<"package", "upgrade">>),
       Raise >>
AlbaBuild ==
    << Call(<<"package", "mdupdate">>),
       Call(<<"package", "upgrade">>),
       Raise >>

-------------------------------------------------------------------------------
LangBody ==
    <<"python", "reset">> :> PythonReset
    @@ <<"python", "build">> :> PythonBuild
    @@ <<"python", "_pip_env_install">> :> PythonPipEnv
    @@ <<"python", "_include_jumpscale">> :> PythonIncludeJumpscale
    @@ <<"python", "_pip_all">> :> PythonPipAll
    @@ <<"celery", "install">> :> CeleryInstall
    @@ <<"celery", "start">> :> CeleryStart
    @@ <<"lua", "package">> :> LuaPackage
    @@ <<"fuse", "install">> :> FuseInstall
    @@ <<"capnp", "install">> :> CapnpInstall
    @@ <<"mercurial", "install">> :> MercurialInstall
    @@ <<"mercurial", "pullRepo">> :> MercurialPullRepo
    @@ <<"git", "build">> :> GitBuild

NetBody ==
    <<"coredns", "install">> :> CoreDnsInstall
    @@ <<"coredns", "start">> :> CoreDnsStart
    @@ <<"coredns", "register_a_record">> :> CoreDnsRegister
    @@ <<"zerotier", "reset">> :> ZerotierReset
    @@ <<"zerotier", "build">> :> ZerotierBuild
    @@ <<"zerotier", "install">> :> ZerotierInstall
    @@ <<"zerotier", "start">> :> ZerotierStart
    @@ <<"zerotier", "stop">> :> ZerotierStop
    @@ <<"zerotier", "network_join">> :> ZerotierJoin
    @@ <<"zerotier", "network_leave">> :> ZerotierLeave
    @@ <<"zeroboot", "install">> :> ZeroBootInstall
    @@ <<"gateone", "build">> :> GateOneBuild
    @@ <<"gateone", "install">> :> GateOneInstall
    @@ <<"gateone", "start">> :> GateOneStart
    @@ <<"gateone", "stop">> :> GateOneStop
    @@ <<"gateone", "restart">> :> GateOneRestart
    @@ <<"gateone", "reset">> :> GateOneReset
    @@ <<"geodns", "reset">> :> GeoDnsReset
    @@ <<"geodns", "install">> :> GeoDnsInstall
    @@ <<"geodns", "start">> :> GeoDnsStart
    @@ <<"geodns", "stop">> :> GeoDnsStop
    @@ <<"skydns", "build">> :> SkyDnsBuild
    @@ <<"skydns", "install">> :> SkyDnsInstall
    @@ <<"skydns", "start">> :> SkyDnsStart

VirtualBody ==
    <<"docker", "_init_docker">> :> DockerInit
    @@ <<"docker", "install">> :> DockerInstall
    @@ <<"docker", "ubuntuBuild">> :> DockerUbuntuBuild
    @@ <<"docker", "dockerStart">> :> DockerStart
    @@ <<"dockercompose", "_init_docker">> :> ComposeInit
    @@ <<"dockercompose", "install">> :> ComposeInstall
    @@ <<"dockercompose", "ubuntuBuild">> :> ComposeUbuntuBuild
    @@ <<"dockercompose", "dockerStart">> :> ComposeStart
    @@ <<"openvswitch", "install">> :> OvsInstall
    @@ <<"openvswitch", "uninstall">> :> OvsUninstall
    @@ <<"kvm", "install">> :> KvmInstall
    @@ <<"kvm", "uninstall">> :> KvmUninstall
    @@ <<"grafana", "build">> :> GrafanaBuild
    @@ <<"grafana", "install">> :> GrafanaInstall
    @@ <<"grafana", "start">> :> GrafanaStart
    @@ <<"smartmontools", "install">> :> SmartmontoolsInstall

JumpscaleBody ==
    <<"zdb", "build">> :> ZdbBuild
    @@ <<"zdb", "install">> :> ZdbInstall
    @@ <<"zdb", "start">> :> ZdbStart
    @@ <<"zdb", "stop">> :> ZdbStop
    @@ <<"zstor", "build">> :> ZstorBuild
    @@ <<"crm", "build">> :> CrmBuild
    @@ <<"crm", "install">> :> CrmInstall
    @@ <<"crm", "configure">> :> CrmConfigure
    @@ <<"crm", "start">> :> CrmStart
    @@ <<"jumpscalecore", "install">> :> JumpscaleInstall
    @@ <<"jumpscalecore", "_install">> :> JumpscaleScript
    @@ <<"zeroaccess", "build">> :> ZeroaccessBuild
    @@ <<"zeroaccess", "install">> :> ZeroaccessInstall
    @@ <<"zeroaccess", "start">> :> ZeroaccessStart
    @@ <<"zeroaccess", "stop">> :> ZeroaccessStop
    @@ <<"apps.tfchain", "build">> :> TfchainAppBuild
    @@ <<"apps.tfchain", "install">> :> TfchainAppInstall

StoreBody ==
    <<"rsync", "reset">> :> RsyncReset
    @@ <<"rsync", "build">> :> RsyncBuild
    @@ <<"rsync", "install">> :> RsyncInstall
    @@ <<"rsync", "configure">> :> RsyncConfigure
    @@ <<"s3", "install">> :> S3Install
    @@ <<"s3", "start">> :> S3Start
    @@ <<"aydostor", "build">> :> AydoBuild
    @@ <<"aydostor", "install">> :> AydoInstall
    @@ <<"aydostor", "start">> :> AydoStart
    @@ <<"zdisk", "build">> :> ZdiskBuild
    @@ <<"zdisk", "install">> :> ZdiskInstall
    @@ <<"zdisk", "start_nbdserver">> :> ZdiskStart
    @@ <<"zdisk", "stop_nbdserver">> :> ZdiskStop
    @@ <<"syncthing", "build">> :> SyncthingBuild
    @@ <<"syncthing", "install">> :> SyncthingInstall
    @@ <<"syncthing", "start">> :> SyncthingStart
    @@ <<"syncthing", "stop">> :> SyncthingStop
    @@ <<"syncthing", "restart">> :> SyncthingRestart
    @@ <<"pyftpserver", "install">> :> FtpInstall
    @@ <<"pyftpserver", "configure">> :> FtpConfigure
    @@ <<"pyftpserver", "start">> :> FtpStart
    @@ <<"pyftpserver", "stop">> :> FtpStop
    @@ <<"volumedriver", "build">> :> VolumeDriverBuild
    @@ <<"alba", "build">> :> AlbaBuild
===============================================================================
