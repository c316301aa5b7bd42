------------------------------- MODULE MCRecipe -------------------------------
(***************************************************************************)
(* PrefabRecipe on the catalogue, for TLC.  (TLC evaluates the definition  *)
(* that a configuration gives a constant at every use, and the definitions *)
(* that it refers to once: hence the second names.  The LET keeps its      *)
(* coverage statistics from unfolding the catalogue at each use.)          *)
(***************************************************************************)
EXTENDS PrefabRecipe, Catalogue

MCNoCopy == {<<"no", "copy">>}      \* not a set of flags
MCBody == LET it == TheBody IN it
MCMethod == LET it == TheMethod IN it
MCFlag == LET it == TheFlag IN it
MCFact == LET it == TheFact IN it
MCVolatile == LET it == TheVolatile IN it
MCPlatform == ThePlatform
MCArg == TheArg
MCOwnReset == LET it == TheOwnReset IN it
MCGained == LET it == TheGained IN it
MCPromised == LET it == ThePromised IN it
MCRemembering == LET it == TheRemembering IN it

-------------------------------------------------------------------------------
(* Playbooks and arguments. *)

\* Two methods that two agents both want: a chain of calls that check flags of
\* their own, and one that takes away what it has installed.
SharedApps == {<<"base", "upgrade">>, <<"golang", "install">>}

\* Methods that build nothing themselves and raise until another method has.
Dependent ==
    {<<"tendermint", "install">>, <<"restic", "install">>, <<"tidb", "install">>,
     <<"tarantool", "rock">>, <<"caddy", "start">>, <<"ripple", "install">>,
     <<"minio", "install">>, <<"duplicacy", "install">>,
     <<"teleport", "install">>, <<"teleport", "apply_permissions">>,
     <<"teleport", "apply_trusted_cluster">>, <<"wordpress", "download_backup">>,
     <<"synapse", "_configure">>, <<"nginx", "install">>, <<"nginx", "start">>,
     <<"php", "install">>, <<"php", "start">>, <<"apache2", "install">>,
     <<"apache2", "configure">>, <<"apache2", "start">>, <<"apache2", "restart">>,
     <<"apache2", "stop">>, <<"portal", "configure">>, <<"portal", "add_configuration">>,
     <<"portal", "linkCode">>, <<"portal", "installDeps">>, <<"portal", "install">>,
     <<"zrobotportal", "install">>, <<"traefik", "start">>,
     <<"python", "_pip_env_install">>, <<"python", "_include_jumpscale">>,
     <<"python", "_pip_all">>, <<"coredns", "register_a_record">>,
     <<"zerotier", "network_join">>, <<"zerotier", "network_leave">>, <<"geodns", "install">>,
     <<"skydns", "install">>, <<"grafana", "install">>, <<"crm", "configure">>,
     <<"s3", "start">>, <<"aydostor", "build">>, <<"aydostor", "install">>,
     <<"aydostor", "start">>, <<"zdisk", "start_nbdserver">>, <<"syncthing", "start">>,
     <<"syncthing", "restart">>, <<"gateone", "install">>}

\* Methods that always raise.
Broken ==
    {<<"ledis", "build">>, <<"zeroboot", "install">>, <<"docker", "dockerStart">>,
     <<"dockercompose", "dockerStart">>, <<"openvswitch", "uninstall">>, <<"kvm", "install">>,
     <<"kvm", "uninstall">>, <<"zdb", "install">>, <<"zstor", "build">>, <<"crm", "build">>,
     <<"crm", "install">>, <<"capnp", "install">>, <<"pyftpserver", "install">>,
     <<"pyftpserver", "configure">>, <<"volumedriver", "build">>, <<"alba", "build">>,
     <<"traefik", "install">>, <<"owncloud", "start">>}

\* Methods that one interrupted attempt makes fail for good.
Stuck ==
    {<<"gitea", "build">>, <<"gitea", "install">>,
     <<"bitcoin", "build">>, <<"bitcoin", "install">>, <<"electrum", "install">>,
     <<"restic", "quick_install">>, <<"odoo", "install">>,
     <<"mattermostbot", "_configure">>, <<"mattermostbot", "install">>,
     <<"wordpress", "install">>, <<"synapse", "install">>, <<"synapsebot", "_configure">>,
     <<"synapsebot", "install">>, <<"owncloud", "install">>,
     <<"owncloud", "installAll">>, <<"apache2", "build">>}
LiveApps == AllApps \ (Dependent \cup Broken \cup Stuck)

EachAlone == {{m} : m \in Apps}
EachClass == {{m \in Apps : m[1] = c} : c \in {n[1] : n \in Apps}}
EachAlive == {{m} : m \in LiveApps}
OneBook == {Apps}
MaybeReset == {{}, {"reset"}}
AnyArgs == {{}, {"reset"}, {"start"}, {"reset", "start"}}
===============================================================================
