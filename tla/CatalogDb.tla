------------------------------ MODULE CatalogDb ------------------------------
(***************************************************************************)
(* Recipes of src/modules/db: the databases.                               *)
(***************************************************************************)
EXTENDS CatalogBase, Naturals, TLC

-------------------------------------------------------------------------------
(* Class PrefabARDB. *)

ArdbBuild ==
    << Check(<<"ardb", "build">>),
       Unless({"reset"}, IfThere(<<"ardb", "bin">>, Stop)),
       If({"reset"}, Raise),                    \* self.BUILDDIR does not exist
       Passing({"reset"}, Call(<<"ardb", "buildARDB">>)),
       Done(<<"ardb", "build">>) >>

ArdbBuildForestDB ==
    << Check(<<"ardb", "buildforestdb">>) >>
    \o Packages(<<"git-core", "cmake", "libsnappy-dev", "g++">>)
    \o << Do(<<"ardb", "forestdb.src">>),
          Do(<<"ardb", "forestdb.made">>),
          Done(<<"ardb", "buildforestdb">>) >>

ArdbBuildARDB ==
    << Check(<<"ardb", "buildardb">>) >>
    \o Packages(<<"wget", "bzip2", "git", "cmake", "libsnappy-dev", "g++", "libbz2-dev", "unzip">>)
    \o << Do(<<"ardb", "src">>),
          Do(<<"ardb", "made">>),
          Done(<<"ardb", "buildardb">>) >>

ArdbInstall ==
    << Check(<<"ardb", "install-main">>),
       Call(<<"ardb", "buildARDB">>),
       IfLacks(<<"ardb", "bin">>, Do(<<"ardb", "bin">>)),
       Do(<<"ardb", "conf">>),
       Done(<<"ardb", "install-main">>),
       If({"start"}, Passing({"reset"}, Call(<<"ardb", "start">>))) >>

\* stop leaves the flag of start alone.
ArdbStart ==
    << Check(<<"ardb", "start-main">>) >>
    \o Ensure("ardb")
    \o << Done(<<"ardb", "start-main">>) >>
ArdbStop == StopService("ardb")

-------------------------------------------------------------------------------
(* Classes PrefabCockroachDB and PrefabMongodb. *)

CockroachInstall ==
    << Check(<<"cockroachdb", "install">>),
       Do(<<"cockroachdb", "archive">>),
       Do(<<"cockroachdb", "bin">>),
       Done(<<"cockroachdb", "install">>),
       If({"start"}, Passing({"reset"}, Call(<<"cockroachdb", "start">>))) >>
CockroachStart ==
    << Unless({"reset"}, IfThere(<<"cockroachdb", "running">>, Stop)) >>
    \o Ensure("cockroachdb")
CockroachStop == StopService("cockroachdb")

MongodbInstall ==
    << Check(<<"mongodb", "install">>),
       If({"mac"}, Try(<<"mongodb", "uninstalled">>)),
       If({"arch"}, Call(<<"package", "mongodb">>)),
       Unless({"ubuntu", "arch", "mac"}, Raise),
       Unless({"arch"}, Do(<<"mongodb", "archive">>)),
       Unless({"arch"}, Do(<<"mongodb", "bin">>)),
       Do(<<"mongodb", "datadir">>),
       Done(<<"mongodb", "install">>),
       If({"start"}, Passing({"reset"}, Call(<<"mongodb", "start">>))) >>
MongodbStart ==
    << Unless({"reset"}, IfThere(<<"mongodb", "running">>, Stop)),
       Do(<<"mongodb", "datadir">>) >>
    \o Ensure("mongodb")
MongodbStop == StopService("mongodb")

-------------------------------------------------------------------------------
(* Class PrefabEtcd. *)

EtcdBuild ==
    << Check(<<"etcd", "build">>),
       Call(<<"golang", "install">>),
       Do(<<"gosrc", "etcd">>),
       Do(<<"etcd", "bin">>),
       Do(<<"etcd", "path">>),
       Done(<<"etcd", "build">>) >>

\* install takes no reset; the download directory is removed in any case.
EtcdInstall ==
    << Check(<<"etcd", "install">>),
       Do(<<"etcd", "bin">>),
       Done(<<"etcd", "install">>) >>

EtcdBuildFlist ==
    << IfLacks(<<"etcd", "bin">>, Call(<<"etcd", "install">>)),
       Do(<<"etcd", "flist">>) >>

EtcdStart == Ensure("etcd")

-------------------------------------------------------------------------------
(* Class PrefabInfluxdb: the flag is checked and never set. *)

InfluxInstall ==
    << Check(<<"influxdb", "install">>),
       If({"dependencies"}, Call(<<"package", "mdupdate">>)),
       If({"mac"}, Call(<<"package", "influxdb">>)),
       Unless({"mac"}, If({"ubuntu"}, Do(<<"influxdb", "bin">>))),
       Unless({"mac", "ubuntu"}, Raise),
       Do(<<"influxdb", "profile">>),
       Do(<<"influxdb", "conf">>),
       If({"start"}, Call(<<"influxdb", "start">>)) >>
InfluxStart == Ensure("influxdb")

-------------------------------------------------------------------------------
(* Class PrefabLedis: install names a variable that does not exist. *)

LedisBuild ==
    << Check(<<"ledis", "build">>),
       Unless({"ubuntu"}, Stop),
       Call(<<"golang", "install">>),
       Do(<<"gosrc", "ledisdb">>),
       Do(<<"ledis", "leveldb">>),
       Do(<<"ledis", "conf">>),
       Do(<<"ledis", "made">>),
       Call(<<"ledis", "install">>),
       Done(<<"ledis", "build">>) >>
LedisInstall == << Raise >>
LedisStart == Ensure("ledis")

-------------------------------------------------------------------------------
(* Class PrefabMariadb. *)

\* The start that ends install may fail silently; it is the last step, so
\* that its exception and its success both end the call.
MariadbInstall ==
    << Check(<<"mariadb", "install">>),
       Call(<<"package", "mariadb-server">>),
       Do(<<"mariadb", "datadir">>),
       Done(<<"mariadb", "install">>),
       If({"start"}, StopService("mariadb")[1]),
       If({"start"}, Try(<<"mariadb", "running">>)) >>
MariadbStart == Ensure("mariadb")

-------------------------------------------------------------------------------
(* Class PrefabPostgresql: install checks its flag and never sets it, and its *)
(* initdb refuses the directory that an earlier install has initialised.      *)

PostgresqlBuild ==
    << Check(<<"postgresql", "build">>),
       Do(<<"postgresql", "src">>),
       Do(<<"postgresql", "dirs">>) >>
    \o Packages(<<"build-essential", "zlib1g-dev", "libreadline-dev">>)
    \o << Do(<<"postgresql", "made">>),
          Done(<<"postgresql", "build">>) >>

PostgresqlInstall ==
    << Check(<<"postgresql", "install">>),
       Passing({"reset"}, Call(<<"postgresql", "build">>)),
       Do(<<"postgresql", "bin">>),
       IfLacks(<<"postgresql", "user">>, Do(<<"postgresql", "user">>)) >>
    \o Fresh(<<"postgresql", "initdb">>)
    \o << If({"start"}, Call(<<"postgresql", "start">>)) >>

\* start waits up to ten seconds for the server, then raises.
PostgresqlStart ==
    Ensure("postgresql")
    \o << Do(<<"postgresql", "ready">>),
          Do(<<"postgresql", "password">>) >>
PostgresqlStop == StopService("postgresql")

-------------------------------------------------------------------------------
(* Classes PrefabRocksDB and PrefabTIDB. *)

RocksdbInstall ==
    << Check(<<"rocksdb", "install">>),
       Call(<<"pip", "rocksdb">>),
       Done(<<"rocksdb", "install">>) >>
RocksdbBuild == << Giving({"reset"}, Call(<<"rocksdb", "install">>)) >>

\* The flag of build is set before the install it ends with.
TidbBuild ==
    << Check(<<"tidb", "build">>),
       Do(<<"tidb", "archive">>),
       Done(<<"tidb", "build">>),
       Call(<<"tidb", "install">>) >>
TidbInstall ==
    << Check(<<"tidb", "install">>),
       IfLacks(<<"tidb", "archive">>, Raise),
       Do(<<"tidb", "bin">>),
       Done(<<"tidb", "install">>),
       If({"start"}, Call(<<"tidb", "start">>)) >>
\* start waits for each service (_check_running) and raises when it does not come.
Awaited(service) == << Do(<<service, "running">>) >>
TidbStart ==
    Ensure("pd-server") \o Awaited("pd-server")
    \o Ensure("tikv-server") \o Awaited("tikv-server")
    \o Ensure("tidb-server") \o Awaited("tidb-server")
TidbStop == StopService("tidb-server") \o StopService("pd-server") \o StopService("tikv-server")

-------------------------------------------------------------------------------
(* Class PrefabTarantool: five groups, each behind a flag of its own. *)

TarantoolGroup(k, steps) ==
    [i \in DOMAIN steps |-> If({"ubuntu"}, IfUndone({<<"tarantool", k>>}, steps[i]))]
    \o << If({"ubuntu"}, IfUndone({<<"tarantool", k>>}, Done(<<"tarantool", k>>))) >>

\* PrefabBuild.build fetches and makes a repository in one script.
TarantoolInstall ==
    << Check(<<"tarantool", "install">>),
       Call(<<"base", "development">>) >>
    \o [i \in 1..5 |-> If({"mac"}, Packages(<<"lua", "tarantool", "luajit", "cmake", "msgpuck">>)[i])]
    \o << If({"mac"}, Do(<<"tarantool", "mac">>)) >>
    \o TarantoolGroup("dependencies",
         Packages(<<"build-essential", "cmake", "coreutils", "sed", "libreadline-dev",
                    "libncurses5-dev", "libyaml-dev", "libssl-dev", "libcurl4-openssl-dev",
                    "libunwind-dev", "luarocks">>)
         \o << Do(<<"tarantool", "requirements">>) >>)
    \o TarantoolGroup("tarantool",
         << Call(<<"package", "cmake">>), Call(<<"package", "libicu-dev">>),
            Do(<<"tarantool", "bin">>) >>)
    \o TarantoolGroup("luajit", << Do(<<"tarantool", "luajit.bin">>) >>)
    \o TarantoolGroup("tdb", << Do(<<"tarantool", "tdb.bin">>) >>)
    \o TarantoolGroup("msgpuck",
         << Call(<<"package", "cmake">>), Call(<<"package", "libicu-dev">>),
            Do(<<"tarantool", "msgpuck.lib">>) >>)
    \o << If({"ubuntu"}, Done(<<"tarantool", "install">>)) >>

TarantoolRock ==
    << IfUnmarked({<<"tarantool", "install">>}, Raise),
       Do(<<"tarantool", "rock">>) >>
TarantoolStart == << Do(<<"tarantool", "lua">>) >> \o Ensure("tarantool")

-------------------------------------------------------------------------------
(* Class PrefabRedis: build and install are the same. *)

RedisBuild ==
    << Check(<<"redis", "build">>),
       Do(<<"base", "locale">>),
       Unless({"reset"}, IfThere(<<"redis", "bin">>, Stop)),
       Unless({"ubuntu"}, Raise),
       Call(<<"package", "mdupdate">>),
       Call(<<"package", "build-essential">>),
       Undo({<<"redis", "made">>}),
       Do(<<"redis", "made">>),
       Do(<<"redis", "bin">>),
       Done(<<"redis", "build">>),
       If({"start"}, Call(<<"redis", "start">>)) >>
RedisInstall == << Passing({"reset"}, Call(<<"redis", "build">>)) >>
RedisStart ==
    << Do(<<"redis", "conf">>),
       IfThere(<<"redis", "running">>, Stop) >>
    \o Ensure("redis")
RedisStop == StopService("redis")

-------------------------------------------------------------------------------
(* Class PrefabArakoon remembers nothing. *)

ArakoonBuild ==
    Packages(<<"curl", "make", "m4", "gcc", "patch", "unzip", "git", "pkg-config",
               "libprotobuf9v5", "libprotoc9v5", "protobuf-compiler", "libsnappy-dev",
               "libssl-dev", "libssl-doc", "zlib1g-dev", "bzip2-doc", "libbz2-dev",
               "libncurses5-dev", "libtinfo-dev", "libgmp-dev", "libgmpxx4ldbl",
               "libev-dev", "libev4">>)
    \o << Do(<<"arakoon", "opam">>),
          Do(<<"arakoon", "ocaml">>),
          IfLacks(<<"arakoon", "bin">>, Do(<<"arakoon", "src">>)),
          IfLacks(<<"arakoon", "bin">>, Do(<<"arakoon", "bin">>)),
          Do(<<"arakoon", "datadir">>),
          If({"start"}, Call(<<"arakoon", "start">>)) >>
ArakoonStart == << Do(<<"arakoon", "datadir">>) >> \o Ensure("arakoon")

HadoopInstall ==
    << Unless({"ubuntu"}, Raise),
       Do(<<"hadoop", "bin">>),
       Do(<<"hadoop", "profile">>) >>

-------------------------------------------------------------------------------
DbBody ==
    <<"ardb", "build">> :> ArdbBuild
    @@ <<"ardb", "buildForestDB">> :> ArdbBuildForestDB
    @@ <<"ardb", "buildARDB">> :> ArdbBuildARDB
    @@ <<"ardb", "install">> :> ArdbInstall
    @@ <<"ardb", "start">> :> ArdbStart
    @@ <<"ardb", "stop">> :> ArdbStop
    @@ <<"cockroachdb", "install">> :> CockroachInstall
    @@ <<"cockroachdb", "start">> :> CockroachStart
    @@ <<"cockroachdb", "stop">> :> CockroachStop
    @@ <<"mongodb", "install">> :> MongodbInstall
    @@ <<"mongodb", "start">> :> MongodbStart
    @@ <<"mongodb", "stop">> :> MongodbStop
    @@ <<"etcd", "build">> :> EtcdBuild
    @@ <<"etcd", "install">> :> EtcdInstall
    @@ <<"etcd", "build_flist">> :> EtcdBuildFlist
    @@ <<"etcd", "start">> :> EtcdStart
    @@ <<"influxdb", "install">> :> InfluxInstall
    @@ <<"influxdb", "start">> :> InfluxStart
    @@ <<"ledis", "build">> :> LedisBuild
    @@ <<"ledis", "install">> :> LedisInstall
    @@ <<"ledis", "start">> :> LedisStart
    @@ <<"mariadb", "install">> :> MariadbInstall
    @@ <<"mariadb", "start">> :> MariadbStart
    @@ <<"postgresql", "build">> :> PostgresqlBuild
    @@ <<"postgresql", "install">> :> PostgresqlInstall
    @@ <<"postgresql", "start">> :> PostgresqlStart
    @@ <<"postgresql", "stop">> :> PostgresqlStop
    @@ <<"rocksdb", "build">> :> RocksdbBuild
    @@ <<"rocksdb", "install">> :> RocksdbInstall
    @@ <<"tidb", "build">> :> TidbBuild
    @@ <<"tidb", "install">> :> TidbInstall
    @@ <<"tidb", "start">> :> TidbStart
    @@ <<"tidb", "stop">> :> TidbStop
    @@ <<"tarantool", "install">> :> TarantoolInstall
    @@ <<"tarantool", "rock">> :> TarantoolRock
    @@ <<"tarantool", "start">> :> TarantoolStart
    @@ <<"redis", "build">> :> RedisBuild
    @@ <<"redis", "install">> :> RedisInstall
    @@ <<"redis", "start">> :> RedisStart
    @@ <<"redis", "stop">> :> RedisStop
    @@ <<"arakoon", "build">> :> ArakoonBuild
    @@ <<"arakoon", "start">> :> ArakoonStart
    @@ <<"hadoop", "install">> :> HadoopInstall
===============================================================================
