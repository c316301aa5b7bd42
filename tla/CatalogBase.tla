----------------------------- MODULE CatalogBase -----------------------------
(***************************************************************************)
(* Recipes of src/modules/system, runtimes and lib: packages, the base of  *)
(* every target, and the languages the other modules build with.           *)
(***************************************************************************)
EXTENDS PrefabStep, Sequences, TLC

-------------------------------------------------------------------------------
(* Class PrefabPackage. *)

PackageMdupdate ==
    << Check(<<"package", "mdupdate">>),
       Do(<<"package", "metadata">>),
       Done(<<"package", "mdupdate">>) >>

PackageUpgrade ==
    << Check(<<"package", "upgrade">>),
       Call(<<"package", "mdupdate">>),
       Unless({"cygwin"}, Do(<<"package", "upgraded">>)),
       If({"cygwin"}, Stop),
       Done(<<"package", "upgrade">>) >>

PackageClean == << Do(<<"package", "cleaned">>) >>

\* Some packages have another name on Arch and Mac; the flag that is set at
\* the end carries that name.
ArchName(p) ==
    CASE p \in {"python3", "python3-dev", "python3-pip"} -> "extra/python"
      [] p \in {"libpython3.5-dev", "libffi-dev", "build-essential",
                "libpq-dev", "libsqlite3-dev"} -> "devel"
      [] OTHER -> p
MacName(p) ==
    CASE p \in {"libsnappy-dev", "libsnappy1v5"} -> "snappy"
      [] p = "wget" -> "wget --enable-iri"
      [] OTHER -> p

\* install of one package; the second attempt after a failure is part of Do.
PackageInstall(p) ==
    << Check(<<"package", p>>),
       If({"cygwin"}, IfThere(<<"pkg", p>>, Stop)),
       Unless({"ubuntu", "alpine", "arch", "mac", "cygwin"}, Raise),
       Do(<<"pkg", p>>),
       Unless({"arch", "mac"}, Done(<<"package", p>>)),
       If({"arch"}, Done(<<"package", ArchName(p)>>)),
       If({"mac"}, Done(<<"package", MacName(p)>>)) >>

\* A list of packages is installed one by one, each behind its own flag.
Packages(ps) == [i \in DOMAIN ps |-> Call(<<"package", ps[i]>>)]

-------------------------------------------------------------------------------
(* Services.  processmanager.get always prefers tmux, whose ensure stops the *)
(* service before it starts it; a kill of the process before ensure adds     *)
(* nothing to that.                                                          *)

StopService(s) == << Undo({<<s, "running">>}) >>
Ensure(s) == StopService(s) \o << Do(<<s, "running">>) >>

-------------------------------------------------------------------------------
(* Class PrefabBase of src/modules/system. *)

BaseUpgrade ==
    << Check(<<"base", "upgrade">>),
       Unless({"noupdate"}, Passing({"reset"}, Call(<<"package", "mdupdate">>))),
       Passing({"reset"}, Call(<<"package", "upgrade">>)),
       Call(<<"package", "clean">>),
       Done(<<"base", "upgrade">>) >>

BaseInstall ==
    << Check(<<"base", "install">>),
       Call(<<"base", "upgrade">>),
       IfUndone({<<"base", "fixlocale">>}, Do(<<"base", "locale">>)),
       IfUndone({<<"base", "fixlocale">>}, Done(<<"base", "fixlocale">>)),
       Do(<<"base", "dirs">>),
       Call(<<"package", "mdupdate">>),
       If({"arch"}, Call(<<"package", "wpa_actiond">>)),
       If({"arch"}, Call(<<"package", "redis-server">>)),
       Unless({"mac"}, Call(<<"package", "sudo">>)),
       Unless({"mac"}, Call(<<"package", "net-tools">>)),
       Unless({"mac"}, Call(<<"package", "python3">>)) >>
    \o Packages(<<"openssl", "wget", "curl", "git", "mc", "tmux", "rsync">>)
    \o << Do(<<"base", "profile">>),
          Giving({"noupdate"}, Passing({"reset"}, Call(<<"base", "upgrade">>))),
          Done(<<"base", "install">>) >>

BaseDevelopment ==
    << Call(<<"base", "install">>),
       Check(<<"base", "development">>) >>
    \o Packages(<<"autoconf", "gcc", "make", "libtool", "pkg-config">>)
    \o << If({"mac"}, Call(<<"package", "libffi">>)),
          If({"mac"}, Call(<<"package", "automake">>)),
          Unless({"mac"}, Call(<<"package", "libffi-dev">>)),
          Unless({"mac"}, Call(<<"package", "build-essential">>)),
          Unless({"mac"}, Call(<<"package", "libsqlite3-dev">>)),
          Unless({"mac"}, Call(<<"package", "libpq-dev">>)),
          Unless({"nopython"}, Call(<<"package", "python3-dev">>)),
          Done(<<"base", "development">>) >>

-------------------------------------------------------------------------------
(* Class PrefabPIP. *)

PipEnsure ==
    << Check(<<"pip", "ensure">>),
       If({"18.04"}, Call(<<"package", "python3-pip">>)),
       If({"18.04"}, Done(<<"pip", "ensure">>)),
       If({"18.04"}, Stop),
       Do(<<"pip", "bin">>),
       Done(<<"pip", "ensure">>) >>

\* package_install: the list of what is to do is emptied before each package,
\* so that only the last one decides and is remembered.
PipInstall(ps) ==
    LET flag(i) == <<"pip", ps[i]>>
        n == Len(ps)
    IN << Call(<<"pip", "_ensure">>) >>
       \o [i \in DOMAIN ps |-> IfUndone({flag(i), flag(n)}, Do(<<"pypi", ps[i]>>))]
       \o << IfUndone({flag(n)}, Done(flag(n))) >>

\* The same package alone and at the end of a list.
PipAlone == PipInstall(<<"last">>)
PipPair == PipInstall(<<"first", "last">>)

\* package_remove returns before it records anything.
PipRemove == << IfUndone({<<"pip", "pip_remove_late">>}, Undo({<<"pypi", "late">>})) >>

-------------------------------------------------------------------------------
(* Class PrefabGolang. *)

\* The source trees that go get and pullRepo leave below $GOPATH/src.
GoSources ==
    {<<"gosrc", x>> : x \in
        {"godep", "ledisdb", "etcd", "oauth2", "gowncloud",
         "gitea", "gitea.remote", "gitea.branch", "gitea.conf", "gitea.bin",
         "gogs", "gogs.remote", "gogs.branch", "gogs.bin", "gogs.ini", "gogs.section",
         "tendermint", "tendermint.vendor",
         "mattermost", "mattermost.webapp", "mattermost.remote", "mattermost.branch",
         "mattermost.conf", "mattermost.dist",
         "restic", "atomicswap", "tfchain", "go-ethereum", "teleport", "teleport.bin",
         "coredns", "coredns.plugins", "coredns.bin", "geodns", "skydns", "stor", "0-disk",
         "syncthing", "syncthing.bin"}}

\* get empties $GOPATH/src before it fetches the next tree.
GoGet(x) == << Undo(GoSources), Do(x) >>

\* isInstalled runs the go command, then looks for the flag.
GolangInstall ==
    << IfThere(<<"golang", "bin">>, Check(<<"golang", "install">>)),
       Unless({"ubuntu", "mac"}, Raise),
       Undo({<<"golang", "bin">>}),
       Do(<<"golang", "profile">>),
       Do(<<"golang", "bin">>) >>
    \o GoGet(<<"gosrc", "godep">>)
    \o << Done(<<"golang", "install">>) >>

\* reset takes go off the path and forgets no flag: it does not call the
\* reset of PrefabBase.
GolangReset == << Undo({<<"golang", "bin">>, <<"golang", "profile">>}) >>

GolangBindata ==
    << Check(<<"golang", "bindata">>),
       Do(<<"golang", "bindata.bin">>),
       Done(<<"golang", "bindata">>) >>

GolangGoraml ==
    << Check(<<"golang", "goraml">>),
       Call(<<"golang", "install">>),
       Passing({"reset"}, Call(<<"golang", "bindata">>)),
       Do(<<"golang", "goraml.bin">>),
       Done(<<"golang", "goraml">>) >>

\* glide has no reset argument.
GolangGlide ==
    << Check(<<"golang", "glide">>),
       Do(<<"golang", "glide.bin">>),
       Done(<<"golang", "glide">>) >>

-------------------------------------------------------------------------------
(* Classes PrefabNodeJS and PrefabRust. *)

NodePhantomjs ==
    << Check(<<"nodejs", "phantomjs">>),
       If({"ubuntu"}, Do(<<"nodejs", "phantomjs.bin">>)),
       If({"ubuntu"}, Call(<<"package", "libfontconfig">>)),
       If({"mac"}, Call(<<"package", "phantomjs">>)),
       Unless({"ubuntu", "mac"}, Raise),
       Done(<<"nodejs", "phantomjs">>) >>

NpmInstall(p) ==
    << Check(<<"nodejs", p>>),
       Do(<<"npm", p>>),
       Done(<<"nodejs", p>>) >>

NodeInstall ==
    << IfThere(<<"nodejs", "bin">>, Check(<<"nodejs", "install">>)),
       Undo({<<"nodejs", "bin.link">>, <<"nodejs", "npm.app">>}),
       Unless({"reset"}, IfThere(<<"nodejs", "npm.link">>, Stop)),
       Unless({"ubuntu", "mac"}, Raise),
       Undo({<<"nodejs", "bin">>}),
       Do(<<"nodejs", "bin">>),
       Do(<<"nodejs", "profile">>),
       Do(<<"nodejs", "npm.conf">>),
       Do(<<"npm", "bower">>),
       Done(<<"nodejs", "install">>) >>

RustInstall ==
    << Check(<<"rust", "install">>),
       Do(<<"rust", "bin">>),
       Do(<<"rust", "profile">>),
       Done(<<"rust", "install">>) >>

-------------------------------------------------------------------------------
(* src/modules/lib. *)

CmakeBuild ==
    << Do(<<"cmake", "src">>),
       Do(<<"cmake", "made">>),
       Done(<<"cmake", "build">>) >>

CmakeInstall ==
    << IfThere(<<"cmake", "bin">>, Stop),
       IfUndone({<<"cmake", "build">>}, Call(<<"cmake", "build">>)),
       Do(<<"cmake", "bin">>) >>

BrotliBuild ==
    << Unless({"reset"}, IfThere(<<"brotli", "bin">>, Stop)),
       Check(<<"brotli", "build">>),
       IfLacks(<<"cmake", "bin">>, Call(<<"cmake", "install">>)),
       Do(<<"brotli", "src">>),
       Do(<<"brotli", "made">>),
       Done(<<"brotli", "build">>) >>

\* The build is skipped on its flag whatever reset says.
BrotliInstall ==
    << Unless({"reset"}, IfThere(<<"brotli", "bin">>, Stop)),
       IfUnmarked({<<"brotli", "build">>}, Call(<<"brotli", "build">>)),
       Do(<<"brotli", "bin">>),
       Call(<<"pip", "brotli>=0.5.2">>) >>

ProtobufInstall ==
    << Check(<<"protobuf", "install">>),
       Call(<<"package", "mdupdate">>),
       If({"mac"}, Call(<<"package", "protobuf">>)),
       Unless({"mac"}, Do(<<"protobuf", "bin">>)),
       Call(<<"pip", "protobuf3">>),
       Done(<<"protobuf", "install">>) >>

\* reset of a class that also removes what it has built.
LibffiReset ==
    << Forget("libffi"),
       Undo({<<"libffi", "made">>}),
       Undo({<<"libffi", "src">>}) >>

LibffiBuild ==
    << If({"reset"}, Call(<<"libffi", "reset">>)),
       Check(<<"libffi", "build">>),
       Call(<<"package", "mdupdate">>),
       Unless({"mac"}, Call(<<"package", "dh-autoreconf">>)),
       Do(<<"libffi", "src">>),
       IfUndone({<<"libffi", "compile">>}, Do(<<"libffi", "made">>)),
       IfUndone({<<"libffi", "compile">>}, Done(<<"libffi", "compile">>)),
       Done(<<"libffi", "build">>) >>

OpensslReset == << Forget("openssl"), Undo({<<"openssl", "src">>, <<"openssl", "made">>}) >>

OpensslBuild ==
    << Check(<<"openssl", "build">>),
       Giving({"nopython"}, Call(<<"base", "development">>)),
       Do(<<"openssl", "src">>),
       IfUndone({<<"openssl", "compile">>}, Do(<<"openssl", "made">>)),
       IfUndone({<<"openssl", "compile">>}, Done(<<"openssl", "compile">>)),
       Done(<<"openssl", "build">>) >>

-------------------------------------------------------------------------------
BaseBody ==
    <<"package", "mdupdate">> :> PackageMdupdate
    @@ <<"package", "upgrade">> :> PackageUpgrade
    @@ <<"package", "clean">> :> PackageClean
    @@ <<"base", "upgrade">> :> BaseUpgrade
    @@ <<"base", "install">> :> BaseInstall
    @@ <<"base", "development">> :> BaseDevelopment
    @@ <<"pip", "_ensure">> :> PipEnsure
    @@ <<"pip", "last">> :> PipAlone
    @@ <<"pip", "pair">> :> PipPair
    @@ <<"pip", "package_remove">> :> PipRemove
    @@ <<"golang", "install">> :> GolangInstall
    @@ <<"golang", "reset">> :> GolangReset
    @@ <<"golang", "bindata">> :> GolangBindata
    @@ <<"golang", "goraml">> :> GolangGoraml
    @@ <<"golang", "glide">> :> GolangGlide
    @@ <<"nodejs", "phantomjs">> :> NodePhantomjs
    @@ <<"nodejs", "npm_install">> :> NpmInstall("less")
    @@ <<"nodejs", "install">> :> NodeInstall
    @@ <<"rust", "install">> :> RustInstall
    @@ <<"cmake", "build">> :> CmakeBuild
    @@ <<"cmake", "install">> :> CmakeInstall
    @@ <<"brotli", "build">> :> BrotliBuild
    @@ <<"brotli", "install">> :> BrotliInstall
    @@ <<"protobuf", "install">> :> ProtobufInstall
    @@ <<"libffi", "reset">> :> LibffiReset
    @@ <<"libffi", "build">> :> LibffiBuild
    @@ <<"openssl", "reset">> :> OpensslReset
    @@ <<"openssl", "build">> :> OpensslBuild
===============================================================================
