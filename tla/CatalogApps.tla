----------------------------- MODULE CatalogApps -----------------------------
(***************************************************************************)
(* Recipes of src/modules/apps, web, blockchain and storage.  Several of   *)
(* them run from, or are built in, the source tree below $GOPATH/src.      *)
(***************************************************************************)
EXTENDS CatalogDb

\* The package is installed when dpkg does not know it.
PackageEnsure(p) == IfLacks(<<"pkg", p>>, Call(<<"package", p>>))

\* The next command works on x and fails when x is not there.
Needs(x) == IfLacks(x, Raise)

-------------------------------------------------------------------------------
(* Classes PrefabGitea and PrefabGogs. *)

GiteaInstallDeps ==
    << Call(<<"package", "mdupdate">>),
       PackageEnsure("git-core"),
       PackageEnsure("gcc"),
       Call(<<"golang", "install">>),
       Call(<<"postgresql", "install">>) >>

\* git remote add fails when the remote is known; golang.get has just
\* emptied the tree.
GiteaBuild ==
    << Check(<<"gitea", "build">>) >>
    \o GiteaInstallDeps
    \o GoGet(<<"gosrc", "gitea">>)
    \o Fresh(<<"gosrc", "gitea.remote">>)
    \o << Do(<<"gosrc", "gitea.branch">>),
          Do(<<"gitea", "custom">>),
          Do(<<"gosrc", "gitea.conf">>),
          Do(<<"gosrc", "gitea.bin">>),
          Done(<<"gitea", "build">>) >>

GiteaStart ==
    << IfLacks(<<"postgresql", "running">>, Call(<<"postgresql", "start">>)) >>
    \o Ensure("gitea")
GiteaStop == StopService("gitea")

GiteaInstall ==
    << Passing({"reset"}, Call(<<"gitea", "build">>)),
       IfLacks(<<"postgresql", "running">>, Call(<<"postgresql", "start">>)),
       Try(<<"gitea", "database">>),
       Call(<<"gitea", "start">>),
       Do(<<"gitea", "login">>),
       Unless({"start"}, Call(<<"gitea", "stop">>)),
       Unless({"start"}, Call(<<"postgresql", "stop">>)) >>

GiteaReset ==
    << Forget("gitea"),
       Undo({x \in GoSources : x[2] \in {"gitea", "gitea.remote", "gitea.branch",
                                         "gitea.conf", "gitea.bin"}}) >>

GogsBuild ==
    << Check(<<"gogs", "build">>),
       Call(<<"golang", "install">>),
       Call(<<"golang", "glide">>),
       Do(<<"gogs", "env">>) >>
    \o GoGet(<<"gosrc", "oauth2">>)
    \o GoGet(<<"gosrc", "gogs">>)
    \o Fresh(<<"gosrc", "gogs.remote">>)
    \o << Do(<<"gosrc", "gogs.branch">>),
          Do(<<"gosrc", "gogs.bin">>),
          Done(<<"gogs", "build">>) >>
GogsInstall == << Passing({"reset"}, Call(<<"gogs", "build">>)) >>

\* The flag is set even where there was no file to extend.
GogsConfig ==
    << Check(<<"gogs", "config">>),
       IfThere(<<"gosrc", "gogs.ini">>, Do(<<"gosrc", "gogs.section">>)),
       Done(<<"gogs", "config">>) >>
GogsStart == Ensure("gogs")
GogsReset ==
    << Forget("gogs"),
       Undo({x \in GoSources : x[2] \in {"gogs", "gogs.remote", "gogs.branch",
                                         "gogs.bin", "gogs.ini", "gogs.section"}}) >>

-------------------------------------------------------------------------------
(* Class PrefabTendermint. *)

TendermintBuild ==
    << Check(<<"tendermint", "build">>),
       Call(<<"golang", "install">>),
       Call(<<"golang", "glide">>) >>
    \o GoGet(<<"gosrc", "tendermint">>)
    \o << Do(<<"gosrc", "tendermint.vendor">>),
          Done(<<"tendermint", "build">>) >>
TendermintInstall ==
    << Unless({"reset"}, IfThere(<<"tendermint", "bin">>, Stop)),
       Needs(<<"gosrc", "tendermint">>),
       Do(<<"tendermint", "bin">>),
       Done(<<"tendermint", "install">>) >>
TendermintStart == Ensure("tendermint")
TendermintReset == << >>

-------------------------------------------------------------------------------
(* Classes PrefabMattermost and PrefabMattermostBot. *)

MattermostInstallDeps ==
    << Call(<<"package", "mdupdate">>),
       PackageEnsure("git-core"),
       PackageEnsure("postfix"),
       PackageEnsure("gcc"),
       PackageEnsure("make"),
       Call(<<"golang", "install">>),
       Do(<<"mattermost", "nodesource">>),
       PackageEnsure("nodejs"),
       PackageEnsure("pngquant"),
       PackageEnsure("zip"),
       Call(<<"mariadb", "install">>) >>

MattermostBuild ==
    << Check(<<"mattermost", "build">>) >>
    \o MattermostInstallDeps
    \o << Call(<<"mariadb", "start">>),
          Try(<<"mattermost", "database">>),
          Try(<<"mattermost", "dbuser">>) >>
    \o GoGet(<<"gosrc", "mattermost">>)
    \o << Do(<<"gosrc", "mattermost.webapp">>) >>
    \o Fresh(<<"gosrc", "mattermost.remote">>)
    \o << Do(<<"gosrc", "mattermost.branch">>),
          Do(<<"gosrc", "mattermost.conf">>),
          Do(<<"gosrc", "mattermost.dist">>),
          Done(<<"mattermost", "build">>) >>

MattermostInstall ==
    << Check(<<"mattermost", "install">>),
       Call(<<"mattermost", "build">>),
       Needs(<<"gosrc", "mattermost.dist">>),
       Do(<<"mattermost", "server">>),
       Needs(<<"gosrc", "mattermost.webapp">>),
       Do(<<"mattermost", "client">>),
       Done(<<"mattermost", "install">>),
       If({"start"}, Call(<<"mattermost", "start">>)) >>
MattermostStart == Ensure("mattermost")

BotBuild ==
    << Check(<<"mattermostbot", "build">>),
       Do(<<"mattermostbot", "src">>),
       Done(<<"mattermostbot", "build">>) >>
\* platform user create fails when the user is there already.
BotConfigure ==
    << Check(<<"mattermostbot", "configure">>) >>
    \o Fresh(<<"mattermostbot", "user">>)
    \o << Do(<<"mattermostbot", "settings">>),
          Done(<<"mattermostbot", "configure">>) >>
BotInstall ==
    << Check(<<"mattermostbot", "install">>),
       Passing({"reset"}, Call(<<"mattermostbot", "build">>)),
       Passing({"reset"}, Call(<<"mattermostbot", "_configure">>)),
       Do(<<"mattermostbot", "bin">>),
       Done(<<"mattermostbot", "install">>) >>

-------------------------------------------------------------------------------
(* Classes PrefabOdoo, PrefabGowncloud, PrefabXRDP, PrefabMicroEditor. *)

OdooPip2 ==
    << IfThere(<<"odoo", "pip2">>, Stop) >>
    \o Packages(<<"python2.7", "python2.7-dev">>)
    \o << Do(<<"odoo", "pip2">>) >>

\* build never sets the flag that install looks for.
OdooBuild ==
    << IfLacks(<<"postgresql", "bin">>, Call(<<"postgresql", "install">>)),
       Call(<<"odoo", "_install_pip2">>) >>
    \o Packages(<<"python-ldap", "libldap2-dev", "libsasl2-dev", "libssl-dev",
                  "libxml2-dev", "libxslt-dev", "python-six", "libpq-dev">>)
    \o << Call(<<"nodejs", "install">>),
          Do(<<"npm", "less">>),
          Do(<<"odoo", "src">>),
          Do(<<"odoo", "requirements">>) >>

\* createuser fails when the role is there already.
OdooInstall ==
    << Check(<<"odoo", "install">>),
       IfUnmarked({<<"odoo", "build">>}, Call(<<"odoo", "build">>)),
       IfLacks(<<"postgresql", "running">>, Call(<<"postgresql", "start">>)),
       Do(<<"odoo", "user">>) >>
    \o Fresh(<<"odoo", "role">>)
    \o << Do(<<"odoo", "bin">>),
          Done(<<"odoo", "install">>) >>

\* reset is accepted and ignored.
GowncloudBuild ==
    << Check(<<"gowncloud", "build">>),
       Call(<<"golang", "install">>),
       Call(<<"golang", "bindata">>),
       Do(<<"gosrc", "gowncloud">>),
       Do(<<"gowncloud", "bin">>),
       Done(<<"gowncloud", "build">>) >>
GowncloudInstall == << Call(<<"gowncloud", "build">>) >>

XrdpBuildAgain ==            \* mutated: no doneSet
    << Check(<<"xrdp", "build">>),
       Do(<<"xrdp", "bin">>) >>
XrdpBuild ==
    << Check(<<"xrdp", "build">>),
       Do(<<"xrdp", "bin">>),
       Done(<<"xrdp", "build">>) >>

MicroInstallFresh ==         \* mutated: the download refuses an existing archive
    << Check(<<"microeditor", "install">>),
       Unless({"mac", "ubuntu"}, Raise) >>
    \o Fresh(<<"microeditor", "archive">>)
    \o << Do(<<"microeditor", "bin">>),
          Done(<<"microeditor", "install">>) >>
MicroInstall ==
    << Check(<<"microeditor", "install">>),
       Unless({"mac", "ubuntu"}, Raise),
       Do(<<"microeditor", "archive">>),
       Do(<<"microeditor", "bin">>),
       Done(<<"microeditor", "install">>) >>

-------------------------------------------------------------------------------
(* Class PrefabCaddy. *)

CaddyReset ==
    StopService("caddy")
    \o << Forget("caddy"),
          Undo({<<"caddy", "built">>}),
          Undo({<<"caddy", "bin">>}) >>

CaddyBuildEarly ==           \* mutated: the flag is set before the work
    << Check(<<"caddy", "build">>),
       Call(<<"base", "install">>),
       Call(<<"golang", "install">>),
       Done(<<"caddy", "build">>),
       Do(<<"caddy", "caddyman">>),
       Do(<<"caddy", "gobin">>) >>
CaddyBuild ==
    << Check(<<"caddy", "build">>),
       Call(<<"base", "install">>),
       Call(<<"golang", "install">>),
       Do(<<"caddy", "caddyman">>),
       Do(<<"caddy", "gobin">>),
       Done(<<"caddy", "build">>) >>

\* The port of the configuration must be free when install ends.
CaddyInstall ==
    << Passing({"reset"}, Call(<<"caddy", "build">>)),
       Check(<<"caddy", "install">>),
       Do(<<"caddy", "bin">>),
       Do(<<"caddy", "profile">>),
       IfLacks(<<"caddy", "conf">>, Do(<<"caddy", "conf">>)),
       Try(<<"caddy", "firewall">>),
       IfThere(<<"caddy", "running">>, Raise),
       Done(<<"caddy", "install">>) >>
CaddyStart ==
    << Needs(<<"caddy", "conf">>) >>
    \o Ensure("caddy")
CaddyStop == StopService("caddy")

-------------------------------------------------------------------------------
AppsBody ==
    <<"gitea", "build">> :> GiteaBuild
    @@ <<"gitea", "start">> :> GiteaStart
    @@ <<"gitea", "stop">> :> GiteaStop
    @@ <<"gitea", "install">> :> GiteaInstall
    @@ <<"gitea", "reset">> :> GiteaReset
    @@ <<"gogs", "build">> :> GogsBuild
    @@ <<"gogs", "install">> :> GogsInstall
    @@ <<"gogs", "write_itsyouonlineconfig">> :> GogsConfig
    @@ <<"gogs", "start">> :> GogsStart
    @@ <<"gogs", "reset">> :> GogsReset
    @@ <<"tendermint", "build">> :> TendermintBuild
    @@ <<"tendermint", "install">> :> TendermintInstall
    @@ <<"tendermint", "start">> :> TendermintStart
    @@ <<"tendermint", "reset">> :> TendermintReset
    @@ <<"mattermost", "build">> :> MattermostBuild
    @@ <<"mattermost", "install">> :> MattermostInstall
    @@ <<"mattermost", "start">> :> MattermostStart
    @@ <<"mattermostbot", "build">> :> BotBuild
    @@ <<"mattermostbot", "_configure">> :> BotConfigure
    @@ <<"mattermostbot", "install">> :> BotInstall
    @@ <<"odoo", "_install_pip2">> :> OdooPip2
    @@ <<"odoo", "build">> :> OdooBuild
    @@ <<"odoo", "install">> :> OdooInstall
    @@ <<"gowncloud", "build">> :> GowncloudBuild
    @@ <<"gowncloud", "install">> :> GowncloudInstall
    @@ <<"xrdp", "build">> :> XrdpBuild
    @@ <<"microeditor", "install">> :> MicroInstall
    @@ <<"caddy", "reset">> :> CaddyReset
    @@ <<"caddy", "build">> :> CaddyBuild
    @@ <<"caddy", "install">> :> CaddyInstall
    @@ <<"caddy", "start">> :> CaddyStart
    @@ <<"caddy", "stop">> :> CaddyStop
===============================================================================
