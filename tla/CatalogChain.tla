----------------------------- MODULE CatalogChain -----------------------------
(***************************************************************************)
(* Recipes of src/modules/blockchain and storage.                          *)
(***************************************************************************)
EXTENDS CatalogApps

-------------------------------------------------------------------------------
(* Class PrefabBitcoin: the archive is downloaded when no file of its name *)
(* is there, whole or not; file_expand fails on half an archive.           *)

BitcoinDownload ==
    << Do(<<"bitcoin", "archive.file">>),
       Do(<<"bitcoin", "archive">>) >>
BitcoinBuild ==
    << Check(<<"bitcoin", "build">>),
       IfLacks(<<"bitcoin", "archive.file">>, Call(<<"bitcoin", "download">>)),
       Needs(<<"bitcoin", "archive">>),
       Do(<<"bitcoin", "expanded">>),
       Done(<<"bitcoin", "build">>) >>
BitcoinInstall ==
    << Check(<<"bitcoin", "install">>),
       Passing({"reset"}, Call(<<"bitcoin", "build">>)),
       Do(<<"bitcoin", "bin">>),
       Do(<<"bitcoin", "lib">>),
       Done(<<"bitcoin", "install">>) >>

-------------------------------------------------------------------------------
(* Class PrefabElectrum: build returns the directory only when it works;   *)
(* where it returns early, install raises on the path it lacks.            *)

ElectrumBuild ==
    << Check(<<"electrum", "build">>),
       Call(<<"package", "mdupdate">>),
       Call(<<"package", "git">>),
       Do(<<"electrum", "src">>),
       Done(<<"electrum", "build">>) >>
ElectrumInstall ==
    << Check(<<"electrum", "install">>),
       IfDone({<<"electrum", "build">>}, Raise),
       Passing({"reset"}, Call(<<"electrum", "build">>)),
       Do(<<"electrum", "bin">>),
       Done(<<"electrum", "install">>) >>
\* start looks at the process that holds the port.
ElectrumStart ==
    << IfThere(<<"electrum", "running">>, Stop),
       Do(<<"electrum", "config">>),
       Do(<<"electrum", "running">>) >>

-------------------------------------------------------------------------------
(* Classes PrefabEthereum, PrefabRipple, PrefabAtomicswap, PrefabTFChain.  *)

EthereumBuild ==
    << Check(<<"ethereum", "build">>),
       Call(<<"base", "install">>),
       Call(<<"golang", "install">>),
       Done(<<"ethereum", "build">>) >>
EthereumInstall ==
    << Check(<<"ethereum", "install">>),
       Passing({"reset"}, Call(<<"ethereum", "build">>)),
       Call(<<"package", "build-essential">>),
       Do(<<"gosrc", "go-ethereum">>),
       Do(<<"ethereum", "bin">>),
       Done(<<"ethereum", "install">>) >>

RippleBuild ==
    << Check(<<"ripple", "build">>) >>
    \o Packages(<<"yum-utils", "alien">>)
    \o << Do(<<"ripple", "rpm">>),
          Done(<<"ripple", "build">>) >>
\* install does not build.
RippleInstall ==
    << Check(<<"ripple", "install">>),
       Needs(<<"ripple", "rpm">>),
       Do(<<"ripple", "bin">>),
       Done(<<"ripple", "install">>) >>

\* Atomicswap and TFChain make and install a Go tree in the same way.
RivineBuild(c) ==
    << Check(<<c, "build">>),
       Call(<<"package", "mdupdate">>),
       Call(<<"package", "git">>),
       Call(<<"golang", "install">>),
       Do(<<"gosrc", c>>),
       Do(<<c, "gobin">>),
       Done(<<c, "build">>) >>
RivineInstall(c) ==
    << Check(<<c, "install">>),
       Passing({"reset"}, Call(<<c, "build">>)),
       Do(<<c, "bin">>),
       Done(<<c, "install">>) >>
AtomicswapBuild == RivineBuild("atomicswap")
AtomicswapInstall == RivineInstall("atomicswap")
TfchainBuild == RivineBuild("tfchain")
TfchainInstall == RivineInstall("tfchain")

-------------------------------------------------------------------------------
(* Class PrefabRestic. *)

ResticReset ==
    << Forget("restic"),
       Undo({<<"restic", "archive.file">>, <<"restic", "archive">>, <<"restic", "expanded">>}),
       Undo({<<"gosrc", "restic">>}) >>
ResticDownload ==
    << Do(<<"restic", "archive.file">>),
       Do(<<"restic", "archive">>) >>
\* file_expand of a .bz2 runs bzip2 -d, which fails when its result is there
\* and removes the archive when it succeeds.
ResticQuickInstall ==
    << Unless({"reset"}, IfThere(<<"restic", "bin">>, Stop)),
       Check(<<"restic", "quick_install">>),
       IfLacks(<<"restic", "archive.file">>, Call(<<"restic", "download">>)),
       Needs(<<"restic", "archive">>) >>
    \o Fresh(<<"restic", "expanded">>)
    \o << Undo({<<"restic", "archive.file">>, <<"restic", "archive">>}),
       Done(<<"restic", "quick_install">>),
       Giving({"source"}, Call(<<"restic", "install">>)) >>
ResticBuild ==
    << Unless({"reset"}, IfThere(<<"restic", "bin">>, Stop)),
       Check(<<"restic", "build">>),
       If({"reset"}, Call(<<"restic", "reset">>)),
       Call(<<"golang", "install">>),
       Do(<<"gosrc", "restic">>),
       Do(<<"gosrc", "restic">>),
       Done(<<"restic", "build">>),
       Call(<<"restic", "install">>) >>
ResticInstall ==
    << Check(<<"restic", "install">>),
       If({"source"}, Needs(<<"restic", "expanded">>)),
       Unless({"source"}, Needs(<<"gosrc", "restic">>)),
       Do(<<"restic", "bin">>),
       Done(<<"restic", "install">>) >>

-------------------------------------------------------------------------------
(* Classes PrefabMinio, PrefabDuplicacy, PrefabIPFS, PrefabBtrfsProgs. *)

MinioBuild ==
    << Check(<<"minio", "build">>),
       Do(<<"minio", "download">>),
       Done(<<"minio", "build">>),
       If({"install"}, Call(<<"minio", "install">>)) >>
MinioInstall ==
    << Check(<<"minio", "install">>),
       Needs(<<"minio", "download">>),
       Do(<<"minio", "bin">>),
       Done(<<"minio", "install">>),
       If({"start"}, Call(<<"minio", "start">>)) >>
MinioStart == Ensure("minio")
MinioReset == << >>

DuplicacyBuild ==
    << Check(<<"duplicacy", "build">>),
       Do(<<"duplicacy", "download">>),
       Done(<<"duplicacy", "build">>),
       If({"install"}, Call(<<"duplicacy", "install">>)) >>
DuplicacyInstall ==
    << Check(<<"duplicacy", "install">>),
       Needs(<<"duplicacy", "download">>),
       Do(<<"duplicacy", "bin">>),
       Done(<<"duplicacy", "install">>) >>

IpfsInstall ==
    << Unless({"reset"}, IfThere(<<"ipfs", "bin">>, Stop)),
       Do(<<"ipfs", "archive">>),
       Undo({<<"ipfs", "expanded">>}),
       Do(<<"ipfs", "expanded">>),
       Do(<<"ipfs", "bin">>) >>
IpfsUninstall == << Undo({<<"ipfs", "bin">>}) >>
IpfsStart ==
    << IfLacks(<<"ipfs", "config">>, Do(<<"ipfs", "config">>)) >>
    \o Ensure("ipfs")

BtrfsReset ==
    << Forget("btrfsprogs"),
       Undo({<<"btrfsprogs", "made">>, <<"btrfsprogs", "src">>}),
       Unset(<<"btrfsprogs", "build">>),
       Undo({<<"btrfsprogs", "lib.links">>, <<"btrfsprogs", "bin">>}),
       Forget("pip") >>
BtrfsBuild ==
    << Unless({"reset"}, IfThere(<<"btrfsprogs", "bin">>, Stop)),
       Check(<<"btrfsprogs", "build">>),
       Do(<<"btrfsprogs", "doctools">>),
       Call(<<"package", "uuid-dev libattr1-dev zlib1g-dev libacl1-dev e2fslibs-dev libblkid-dev liblzo2-dev autoconf">>),
       Do(<<"btrfsprogs", "src">>),
       Do(<<"btrfsprogs", "made">>),
       Done(<<"btrfsprogs", "build">>) >>
\* ln -s fails when the link is there.
BtrfsInstall ==
    << Needs(<<"btrfsprogs", "made">>),
       Do(<<"btrfsprogs", "bin">>) >>
    \o Fresh(<<"btrfsprogs", "lib.links">>)

-------------------------------------------------------------------------------
ChainBody ==
    <<"bitcoin", "download">> :> BitcoinDownload
    @@ <<"bitcoin", "build">> :> BitcoinBuild
    @@ <<"bitcoin", "install">> :> BitcoinInstall
    @@ <<"electrum", "build">> :> ElectrumBuild
    @@ <<"electrum", "install">> :> ElectrumInstall
    @@ <<"electrum", "start">> :> ElectrumStart
    @@ <<"ethereum", "build">> :> EthereumBuild
    @@ <<"ethereum", "install">> :> EthereumInstall
    @@ <<"ripple", "build">> :> RippleBuild
    @@ <<"ripple", "install">> :> RippleInstall
    @@ <<"atomicswap", "build">> :> AtomicswapBuild
    @@ <<"atomicswap", "install">> :> AtomicswapInstall
    @@ <<"tfchain", "build">> :> TfchainBuild
    @@ <<"tfchain", "install">> :> TfchainInstall
    @@ <<"restic", "reset">> :> ResticReset
    @@ <<"restic", "download">> :> ResticDownload
    @@ <<"restic", "quick_install">> :> ResticQuickInstall
    @@ <<"restic", "build">> :> ResticBuild
    @@ <<"restic", "install">> :> ResticInstall
    @@ <<"minio", "build">> :> MinioBuild
    @@ <<"minio", "install">> :> MinioInstall
    @@ <<"minio", "start">> :> MinioStart
    @@ <<"minio", "reset">> :> MinioReset
    @@ <<"duplicacy", "build">> :> DuplicacyBuild
    @@ <<"duplicacy", "install">> :> DuplicacyInstall
    @@ <<"ipfs", "install">> :> IpfsInstall
    @@ <<"ipfs", "uninstall">> :> IpfsUninstall
    @@ <<"ipfs", "start">> :> IpfsStart
    @@ <<"btrfsprogs", "reset">> :> BtrfsReset
    @@ <<"btrfsprogs", "build">> :> BtrfsBuild
    @@ <<"btrfsprogs", "install">> :> BtrfsInstall
===============================================================================
