-------------------------------- MODULE MCTmux --------------------------------
(* Scripts, services and commands for TLC. *)
EXTENDS PrefabTmuxec

Ensure(n, c, autostart) ==
    [op |-> "ensure", session |-> Main, name |-> n, cmd |-> c, autostart |-> autostart]
Stop(n, c) == [op |-> "stop", session |-> Main, name |-> n, cmd |-> c, autostart |-> FALSE]
Remove(n, c) == [Stop(n, c) EXCEPT !.op = "remove"]
Execute(s, n, c) == [Stop(n, c) EXCEPT !.op = "execute", !.session = s]

TheSession == {"main"}
TheName == {"crm", "mailer"}
TheCmd == {"crm.py", "mailer.py"}
OwnComm == {<<"crm", "crm.py">>, <<"mailer", "mailer.py">>}

\* One script for both services (as in PrefabCrm.py).
OneScript ==
    [a \in Agent |->
        {Ensure("crm", "crm.py", TRUE), Ensure("mailer", "mailer.py", TRUE),
         Stop("crm", "crm.py"), Remove("mailer", "mailer.py")}]

\* Two scripts, one for each service.
TwoScripts ==
    [a \in Agent |->
        IF a = "first" THEN {Ensure("crm", "crm.py", TRUE), Stop("crm", "crm.py")}
        ELSE {Execute("main", "mailer", "mailer.py"), Remove("mailer", "mailer.py")}]

\* Two scripts that each start their service.
TwoStarts ==
    [a \in Agent |-> IF a = "first" THEN {Ensure("crm", "crm.py", FALSE)}
                     ELSE {Ensure("mailer", "mailer.py", FALSE)}]

\* A script that executes in the same window again, as execute_script does.
SameWindow == [a \in Agent |-> {Execute("main", "crm", "crm.py")}]

\* What the theorems assume.
ASSUME NamesApart /\ CommandsApart
ASSUME (Calls = OneScript) => ServicesAlone
===============================================================================
