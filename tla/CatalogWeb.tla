------------------------------ MODULE CatalogWeb ------------------------------
(***************************************************************************)
(* Recipes of src/modules/web and of the applications in src/modules/apps  *)
(* that sit on a web server and a database.                                *)
(***************************************************************************)
EXTENDS CatalogChain

-------------------------------------------------------------------------------
(* Class PrefabTeleport. *)

TeleportBuild ==
    << Check(<<"teleport", "build">>),
       Call(<<"golang", "install">>) >>
    \o GoGet(<<"gosrc", "teleport">>)
    \o << Do(<<"gosrc", "teleport.bin">>),
          Done(<<"teleport", "build">>) >>
TeleportPackageInstall ==
    << Do(<<"teleport", "archive">>),
       Do(<<"teleport", "bin">>) >>
TeleportInstall ==
    << Check(<<"teleport", "install">>),
       Do(<<"teleport", "datadir">>),
       Needs(<<"gosrc", "teleport.bin">>),
       Do(<<"teleport", "bin">>),
       Done(<<"teleport", "install">>) >>
TeleportWriteConfig == << Do(<<"teleport", "config">>) >>
TeleportStart == Ensure("teleport")
TeleportStop == StopService("teleport")
TeleportRestart == TeleportStop \o << Call(<<"teleport", "start">>) >>

\* tctl talks to the running service; the first waits for it, then raises.
TeleportPermissions ==
    << Do(<<"teleport", "github.yaml">>),
       Needs(<<"teleport", "running">>),
       Do(<<"teleport", "github">>) >>
TeleportTrustedCluster ==
    << Do(<<"teleport", "cluster.yaml">>),
       Needs(<<"teleport", "running">>),
       Do(<<"teleport", "cluster">>) >>

TeleportFullSetup ==
    << Check(<<"teleport", "full_setup">>),
       Unless({"dev"}, Call(<<"teleport", "package_install">>)),
       If({"dev"}, Passing({"reset"}, Call(<<"teleport", "build">>))),
       If({"dev"}, Passing({"reset"}, Call(<<"teleport", "install">>))),
       Call(<<"teleport", "write_config">>),
       Call(<<"teleport", "start">>),
       Call(<<"teleport", "apply_permissions">>),
       Done(<<"teleport", "full_setup">>) >>

-------------------------------------------------------------------------------
(* Sites of PrefabCaddy: the vhost is written beside a configuration that  *)
(* must be there, and the server restarts.                                 *)

CaddyConfigure == << Do(<<"caddy", "conf">>) >>
AddWebsite(site) ==
    << Needs(<<"caddy", "conf">>),
       Do(<<"caddy", site>>),
       Call(<<"caddy", "stop">>),
       Call(<<"caddy", "start">>) >>

-------------------------------------------------------------------------------
(* Class PrefabWordpress. *)

WordpressBuild ==
    << Check(<<"wordpress", "build">>) >>
    \o Packages(<<"php7.0-fpm", "php7.0-mysql", "php7.0-curl", "php7.0-gd", "php7.0-mbstring",
                  "php7.0-mcrypt", "php7.0-xml", "php7.0-xmlrpc">>)
    \o << Giving({"start"}, Call(<<"mariadb", "install">>)),
          Call(<<"caddy", "install">>),
          Do(<<"wordpress", "wp-cli">>),
          IfLacks(<<"wordpress", "user">>, Do(<<"wordpress", "user">>)),
          Done(<<"wordpress", "build">>) >>

\* mariadb.install starts the server only when it installs it, and nothing
\* else here does.
WordpressInstall ==
    << Check(<<"wordpress", "install">>),
       Passing({"reset"}, Call(<<"wordpress", "build">>)),
       Needs(<<"mariadb", "running">>),
       Do(<<"wordpress", "database">>),
       Try(<<"wordpress", "dbuser">>),
       Do(<<"wordpress", "dir">>) >>
    \o AddWebsite("vhost.wordpress")
    \o << Undo({<<"wordpress", "files">>, <<"wordpress", "config">>}),
          Do(<<"wordpress", "files">>),
          Do(<<"wordpress", "config">>),
          Do(<<"wordpress", "site">>),
          Try(<<"wordpress", "theme">>),
          Try(<<"wordpress", "plugins">>),
          Do(<<"wordpress", "constants">>),
          Do(<<"wordpress", "owner">>),
          Done(<<"wordpress", "install">>) >>

\* The directory of the copies is new at every call and removed at the end.
WordpressBackup ==
    << Needs(<<"mariadb", "running">>),
       Needs(<<"wordpress", "files">>),
       Do(<<"wordpress", "backup.dir">>),
       Do(<<"wordpress", "backup">>),
       Undo({<<"wordpress", "backup.dir">>}) >>

-------------------------------------------------------------------------------
(* Classes PrefabSynapse and PrefabSynapsebot: matrix users cannot be      *)
(* registered twice.                                                       *)

SynapseBuild ==
    << Check(<<"synapse", "build">>),
       Call(<<"package", "mdupdate">>),
       PackageEnsure("build-essential"), PackageEnsure("python2.7"),
       PackageEnsure("python2.7-dev"), PackageEnsure("libffi-dev"),
       PackageEnsure("python-pip"), PackageEnsure("python-virtualenv"),
       PackageEnsure("python-setuptools"), PackageEnsure("libssl-dev"),
       PackageEnsure("libjpeg-dev"), PackageEnsure("libxslt1-dev"),
       PackageEnsure("libpq-dev"),
       IfLacks(<<"postgresql", "bin">>, Call(<<"postgresql", "install">>)),
       IfLacks(<<"caddy", "bin">>, Call(<<"caddy", "install">>)),
       Do(<<"synapse", "virtualenv">>),
       Do(<<"synapse", "riot">>),
       Done(<<"synapse", "build">>) >>

SynapseConfigure ==
    << Do(<<"synapse", "homeserver.yaml">>),
       Needs(<<"synapse", "riot">>),
       Do(<<"synapse", "config.json">>),
       Call(<<"synapse", "start">>) >>
    \o Fresh(<<"synapse", "admin">>)
    \o AddWebsite("vhost.riot_client")

SynapseInstall ==
    << Passing({"reset"}, Call(<<"synapse", "build">>)),
       IfLacks(<<"postgresql", "running">>, Call(<<"postgresql", "start">>)),
       Try(<<"synapse", "database">>),
       Call(<<"synapse", "_configure">>),
       Unless({"start"}, Call(<<"synapse", "stop">>)) >>
SynapseStart ==
    << Call(<<"synapse", "stop">>),
       IfLacks(<<"postgresql", "running">>, Call(<<"postgresql", "start">>)),
       Do(<<"synapse", "running">>) >>
SynapseStop == StopService("synapse")

SynapsebotBuild ==
    << Check(<<"synapsebot", "build">>),
       Call(<<"package", "mdupdate">>),
       PackageEnsure("python3-pip"),
       PackageEnsure("python3-setuptools"),
       Do(<<"synapsebot", "src">>),
       Do(<<"synapsebot", "setup">>),
       Done(<<"synapsebot", "build">>) >>
SynapsebotConfigure ==
    Fresh(<<"synapsebot", "user">>)
    \o << Do(<<"synapsebot", "conf">>) >>
SynapsebotInstall ==
    << Passing({"reset"}, Call(<<"synapsebot", "build">>)),
       Call(<<"synapsebot", "_configure">>),
       If({"start"}, Call(<<"synapsebot", "start">>)) >>
SynapsebotStart == Ensure("synapsebot")
SynapsebotStop == StopService("synapsebot")

-------------------------------------------------------------------------------
(* Class PrefabOwnCloud. *)

\* prefab.apps has no apache2: installAll raises before it installs anything
\* but the client.
OwncloudInstallAll ==
    << Call(<<"package", "mysql-client-core-5.7">>),
       Raise >>

\* The script makes the storage directory in its last line and fails when the
\* directory is there.
OwncloudInstall ==
    << Call(<<"package", "mdupdate">>),
       Call(<<"package", "bzip2">>),
       Call(<<"package", "mysql-client-core-5.7">>),
       Do(<<"owncloud", "archive">>) >>
    \o Fresh(<<"owncloud", "storage">>)
    \o << Undo({<<"owncloud", "files">>}),
          Do(<<"owncloud", "files">>),
          Do(<<"owncloud", "config">>),
          If({"start"}, Call(<<"owncloud", "start">>)) >>

\* Both web servers are looked up under prefab.apps, where they are not.
OwncloudStart ==
    << Do(<<"owncloud", "database">>),
       Do(<<"owncloud", "occ">>),
       Do(<<"owncloud", "vhost">>),
       Raise >>

-------------------------------------------------------------------------------
(* Classes PrefabNGINX, PrefabPHP and PrefabApache2 keep no flags. *)

NginxBuild ==
    << Do(<<"base", "locale">>),
       Unless({"ubuntu"}, Raise),
       Call(<<"package", "mdupdate">>),
       Call(<<"package", "build-essential libpcre3-dev libssl-dev">>),
       Undo({<<"nginx", "made">>}),
       Do(<<"nginx", "made">>),
       Call(<<"nginx", "install">>) >>
NginxInstall ==
    << Needs(<<"nginx", "made">>),
       Do(<<"nginx", "bin">>),
       Do(<<"nginx", "conf">>),
       Call(<<"nginx", "start">>) >>
NginxStart ==
    << Needs(<<"nginx", "bin">>),
       Needs(<<"nginx", "conf">>) >>
    \o Ensure("nginx")
NginxStop == StopService("nginx")

\* configure and make may fail unseen; install runs make again.  A second build
\* moves its source tree into that of the first, a third one finds it there.
PhpBuild ==
    [i \in 1..20 |-> PackageEnsure(
        <<"libxml2-dev", "libpng-dev", "libcurl4-openssl-dev", "libzip-dev", "zlibc", "zlib1g",
          "zlib1g-dev", "libmysqld-dev", "libmysqlclient-dev", "re2c", "bison", "bzip2",
          "build-essential", "libaprutil1-dev", "libapr1-dev", "openssl", "pkg-config",
          "libssl-dev", "libsslcommon2-dev", "file">>[i])]
    \o << IfThere(<<"php", "src.nested">>, Raise),
          IfThere(<<"php", "src">>, Do(<<"php", "src.nested">>)),
          IfLacks(<<"php", "src">>, Do(<<"php", "src">>)),
          Try(<<"php", "configured">>),
          Try(<<"php", "made">>) >>
PhpInstall ==
    << Needs(<<"php", "configured">>),
       Do(<<"php", "bin">>),
       Do(<<"php", "conf">>),
       Do(<<"php", "profile">>),
       Do(<<"php", "ini">>),
       If({"start"}, Call(<<"php", "start">>)) >>
PhpStart ==
    << Needs(<<"php", "bin">>),
       Do(<<"php", "fpm">>) >>
    \o Ensure("php")
PhpStop == StopService("php")

\* reset is True unless the caller says otherwise: a second build removes what
\* install has put in place.
ApacheBuild ==
    Packages(<<"wget", "curl", "gcc", "libssl-dev", "zlib1g-dev", "libaprutil1-dev",
               "libapr1-dev", "libpcre3-dev", "libxml2-dev", "build-essential", "unzip">>)
    \o << IfThere(<<"apache2", "src">>, Undo({<<"apache2", "bin">>, <<"apache2", "conf">>})),
          IfLacks(<<"apache2", "archive.file">>, Call(<<"apache2", "download">>)),
          Needs(<<"apache2", "archive">>),
          Do(<<"apache2", "src">>),
          Do(<<"apache2", "made">>) >>
\* The download is interrupted between its first byte and its last.
ApacheDownload ==
    << Do(<<"apache2", "archive.file">>),
       Do(<<"apache2", "archive">>) >>
ApacheInstall ==
    << Needs(<<"apache2", "made">>),
       Do(<<"apache2", "bin">>) >>
ApacheConfigure ==
    << Needs(<<"apache2", "bin">>),
       Do(<<"apache2", "conf">>) >>
ApacheStart ==
    << Needs(<<"apache2", "bin">>),
       Do(<<"apache2", "running">>) >>
ApacheStop ==
    << Needs(<<"apache2", "bin">>) >>
    \o StopService("apache2")
ApacheRestart == ApacheStop \o ApacheStart

-------------------------------------------------------------------------------
(* Class PrefabPortal reads and links the repository jumpscale_portal_classic *)
(* and fetches another one.                                                *)

PortalConfigure ==
    << Needs(<<"portal", "config">>),
       Do(<<"portal", "settings">>),
       Call(<<"portal", "stop">>),
       Call(<<"portal", "start">>) >>
PortalAddConfiguration ==
    << Needs(<<"portal", "config">>),
       Do(<<"portal", "added">>) >>
PortalLinkCode ==
    << Needs(<<"portal", "code">>),
       Do(<<"portal", "links">>) >>
PortalGetcode == << Do(<<"portal", "portal9">>) >>
PortalInstallDeps ==
    << Check(<<"portal", "installdeps">>),
       PackageEnsure("build-essential"), PackageEnsure("libssl-dev"),
       PackageEnsure("libffi-dev"), PackageEnsure("python3-dev") >>
    \o Packages(<<"libjpeg-dev", "libffi-dev", "zlib1g-dev">>)
    \o << PackageEnsure("libsnappy-dev"), PackageEnsure("libsnappy1v5"),
          Call(<<"pip", "python-snappy">>),
          Needs(<<"portal", "code">>),
          Do(<<"portal", "deps">>),
          Done(<<"portal", "installdeps">>) >>
PortalInstall ==
    << Do(<<"portal", "dir">>),
       Do(<<"base", "locale">>),
       IfDone({<<"portal", "install">>}, Call(<<"portal", "linkCode">>)),
       If({"start"}, IfDone({<<"portal", "install">>}, Call(<<"portal", "start">>))),
       IfDone({<<"portal", "install">>}, Stop),
       Passing({"start"}, Call(<<"mongodb", "install">>)),
       Do(<<"portal", "profile">>),
       Needs(<<"portal", "code">>),
       Do(<<"portal", "config">>),
       Passing({"reset"}, Call(<<"portal", "installDeps">>)),
       Call(<<"portal", "getcode">>),
       Call(<<"portal", "linkCode">>),
       If({"start"}, Call(<<"portal", "start">>)),
       Done(<<"portal", "install">>) >>
PortalNodeJSLibs ==
    << Call(<<"nodejs", "install">>),
       Do(<<"portal", "bower">>) >>
PortalAddSpace == << Do(<<"portal", "space">>) >>
PortalAddActor == << Do(<<"portal", "actor">>) >>
PortalStart ==
    << Call(<<"mongodb", "start">>) >>
    \o Ensure("portal")
PortalStop == StopService("portal")

\* Class PrefabZrobotPortal adds its directories to the portal's settings.
ZrobotPortalInstall ==
    << Check(<<"zrobotportal", "install">>),
       Do(<<"zrobotportal", "src">>),
       Needs(<<"portal", "config">>),
       Do(<<"zrobotportal", "contentdirs">>),
       Call(<<"portal", "start">>),
       Done(<<"zrobotportal", "install">>) >>

-------------------------------------------------------------------------------
(* Class PrefabTraefik is a copy of PrefabCaddy and works on caddy's       *)
(* configuration and service.                                              *)

TraefikConfigure == << Do(<<"caddy", "conf">>) >>
TraefikStart ==
    << Needs(<<"caddy", "conf">>) >>
    \o Ensure("caddy")
TraefikStop == StopService("caddy")
TraefikReset ==
    << Call(<<"traefik", "stop">>),
       Forget("traefik"),
       Undo({<<"traefik", "bin">>}) >>
TraefikInstall == << Raise >>

-------------------------------------------------------------------------------
WebBody ==
    <<"teleport", "full_setup">> :> TeleportFullSetup
    @@ <<"teleport", "build">> :> TeleportBuild
    @@ <<"teleport", "package_install">> :> TeleportPackageInstall
    @@ <<"teleport", "install">> :> TeleportInstall
    @@ <<"teleport", "write_config">> :> TeleportWriteConfig
    @@ <<"teleport", "apply_trusted_cluster">> :> TeleportTrustedCluster
    @@ <<"teleport", "apply_permissions">> :> TeleportPermissions
    @@ <<"teleport", "start">> :> TeleportStart
    @@ <<"teleport", "stop">> :> TeleportStop
    @@ <<"teleport", "restart">> :> TeleportRestart
    @@ <<"caddy", "configure">> :> CaddyConfigure
    @@ <<"wordpress", "build">> :> WordpressBuild
    @@ <<"wordpress", "install">> :> WordpressInstall
    @@ <<"wordpress", "download_backup">> :> WordpressBackup
    @@ <<"synapse", "build">> :> SynapseBuild
    @@ <<"synapse", "_configure">> :> SynapseConfigure
    @@ <<"synapse", "install">> :> SynapseInstall
    @@ <<"synapse", "start">> :> SynapseStart
    @@ <<"synapse", "stop">> :> SynapseStop
    @@ <<"synapsebot", "build">> :> SynapsebotBuild
    @@ <<"synapsebot", "_configure">> :> SynapsebotConfigure
    @@ <<"synapsebot", "install">> :> SynapsebotInstall
    @@ <<"synapsebot", "start">> :> SynapsebotStart
    @@ <<"synapsebot", "stop">> :> SynapsebotStop
    @@ <<"owncloud", "installAll">> :> OwncloudInstallAll
    @@ <<"owncloud", "install">> :> OwncloudInstall
    @@ <<"owncloud", "start">> :> OwncloudStart
    @@ <<"nginx", "build">> :> NginxBuild
    @@ <<"nginx", "install">> :> NginxInstall
    @@ <<"nginx", "start">> :> NginxStart
    @@ <<"nginx", "stop">> :> NginxStop
    @@ <<"php", "build">> :> PhpBuild
    @@ <<"php", "install">> :> PhpInstall
    @@ <<"php", "start">> :> PhpStart
    @@ <<"php", "stop">> :> PhpStop
    @@ <<"apache2", "build">> :> ApacheBuild
    @@ <<"apache2", "download">> :> ApacheDownload
    @@ <<"apache2", "install">> :> ApacheInstall
    @@ <<"apache2", "configure">> :> ApacheConfigure
    @@ <<"apache2", "start">> :> ApacheStart
    @@ <<"apache2", "stop">> :> ApacheStop
    @@ <<"apache2", "restart">> :> ApacheRestart
    @@ <<"portal", "configure">> :> PortalConfigure
    @@ <<"portal", "add_configuration">> :> PortalAddConfiguration
    @@ <<"portal", "install">> :> PortalInstall
    @@ <<"portal", "installNodeJSLibs">> :> PortalNodeJSLibs
    @@ <<"portal", "installDeps">> :> PortalInstallDeps
    @@ <<"portal", "getcode">> :> PortalGetcode
    @@ <<"portal", "linkCode">> :> PortalLinkCode
    @@ <<"portal", "addSpace">> :> PortalAddSpace
    @@ <<"portal", "addActor">> :> PortalAddActor
    @@ <<"portal", "start">> :> PortalStart
    @@ <<"portal", "stop">> :> PortalStop
    @@ <<"zrobotportal", "install">> :> ZrobotPortalInstall
    @@ <<"traefik", "reset">> :> TraefikReset
    @@ <<"traefik", "install">> :> TraefikInstall
    @@ <<"traefik", "configure">> :> TraefikConfigure
    @@ <<"traefik", "start">> :> TraefikStart
    @@ <<"traefik", "stop">> :> TraefikStop
===============================================================================
