------------------------------- MODULE Catalogue -------------------------------
(***************************************************************************)
(* The recipes of the catalogue modules put together: the methods that an  *)
(* operator's playbook reaches, and, computed from their steps, the flags  *)
(* and facts in play, what each flag stands for and what each method's     *)
(* normal return vouches for.                                              *)
(***************************************************************************)
EXTENDS CatalogNet, FiniteSets

CONSTANT Apps       \* the methods that operators want done

-------------------------------------------------------------------------------
(* The methods: those of the catalogue, and one for each package they call. *)

StepsOf(recipe) == {recipe[i] : i \in DOMAIN recipe}
CallsOf(recipe) == {s.arg : s \in {t \in StepsOf(recipe) : t.op = "call"}}

Listed == BaseBody @@ DbBody @@ AppsBody @@ ChainBody @@ WebBody
            @@ LangBody @@ NetBody @@ VirtualBody @@ JumpscaleBody @@ StoreBody
WithPackages(listed) ==
    LET called == (UNION {CallsOf(listed[m]) : m \in DOMAIN listed}) \ DOMAIN listed
    IN listed @@ [m \in {c \in called : c[1] = "package"} |-> PackageInstall(m[2])]
              @@ [m \in {c \in called : c[1] = "pip"} |-> PipInstall(<<m[2]>>)]

\* The methods that those in ms call, directly or not: no chain of calls in the
\* catalogue is longer than DeepestCall.
DeepestCall == 12
Reached(calls, ms) ==
    LET R[n \in 0..DeepestCall] ==
          IF n = 0 THEN ms
          ELSE LET near == R[n - 1] IN near \cup UNION {calls[m] : m \in near}
    IN R[DeepestCall]

\* (@@ makes TLC evaluate a function once.)
Play(table) ==
    LET calls == [m \in DOMAIN table |-> CallsOf(table[m])]
    IN [m \in Reached(calls, Apps) |-> table[m]] @@ << >>
TheBody == Play(WithPackages(Listed))

TheMethod == DOMAIN TheBody
AllSteps(body) == UNION {StepsOf(body[m]) : m \in DOMAIN body}
FlagsIn(steps) ==
    {s.arg : s \in {t \in steps : t.op \in {"check", "done", "unset"}}}
      \cup UNION {s.undone \cup s.done \cup s.unmarked : s \in steps}
FactsIn(steps) ==
    {s.arg : s \in {t \in steps : t.op \in {"do", "try"}}}
      \cup UNION {s.gone : s \in steps}
      \cup (({s.lacks : s \in steps} \cup {s.there : s \in steps}) \ {NoFact})

TheFlag == FlagsIn(AllSteps(TheBody))
TheFact == FactsIn(AllSteps(TheBody))
TheVolatile == {x \in TheFact : x[2] = "running"}
ThePlatform == {"ubuntu"}
TheArg == {"reset", "start", "noupdate", "nopython", "source", "install", "dependencies",
           "dev", "full", "branch", "push", "noinstall", "build"}
TheOwnReset == {m[1] : m \in {n \in DOMAIN Listed : n[2] = "reset"}}

-------------------------------------------------------------------------------
(* What flags stand for, and what returns vouch for. *)

\* The facts that no reboot and no method in play takes away.
LastingIn(steps) ==
    {x \in FactsIn(steps) : x[2] # "running"} \ UNION {s.gone : s \in steps}

\* Only flags, and neither arguments nor the target, can make Python skip s.
Always(s) ==
    /\ s.when \subseteq ThePlatform
    /\ s.not \cap (ThePlatform \cup TheArg) = {}
    /\ s.there = NoFact
    /\ s.done = {}
Possible(s) == s.when \subseteq ThePlatform \cup TheArg /\ s.not \cap ThePlatform = {}
Under(s) == s.undone \cup s.unmarked

\* The step belongs to a group that ends by setting the flag it stands under.
Closed(recipe, s) ==
    \/ Under(s) = {}
    \/ \E d \in StepsOf(recipe) :
         d.op = "done" /\ {d.arg} = Under(s) /\ Under(d) \in {{}, Under(s)}
\* The guard of the steps that the setting of a flag closes.
GroupOf(recipe, d) ==
    IF \E s \in StepsOf(recipe) : Under(s) = {d.arg} THEN {d.arg} ELSE Under(d)

\* Flags that are set before the install that their method ends with: when it
\* fails, the flag stays and the next build returns at once.
Hasty == {<<"tidb", "build">>, <<"restic", "quick_install">>, <<"restic", "build">>,
          <<"zerotier", "build">>, <<"rsync", "build">>, <<"syncthing", "build">>}

\* A step of m brings its own fact; a call brings what the callee vouches for,
\* unless it is made only when a fact is missing: then it brings that fact.  So
\* does a step that raises when a fact is missing.
Deep(s) == s.op = "call" /\ s.lacks = NoFact
Own(s) ==
    CASE s.op = "stop" -> {}
      [] s.op # "stop" /\ s.lacks # NoFact -> {s.lacks}
      [] s.lacks = NoFact /\ s.op = "do" -> {s.arg}
      [] OTHER -> {}

\* A normal return has behind it the steps before the first one at which the
\* method may return early because of something else than a flag, or sets a
\* hasty flag; an early return because a fact is there vouches for that fact.
Exits(recipe) ==
    {i \in DOMAIN recipe :
       \/ recipe[i].op = "stop" /\ Possible(recipe[i])
       \/ recipe[i].op = "done" /\ recipe[i].arg \in Hasty}
Sure(recipe) ==
    {i \in DOMAIN recipe : Always(recipe[i]) /\ Closed(recipe, recipe[i])}
OwnSure(recipe) ==
    UNION {{x \in Own(recipe[i]) :
              \A k \in Exits(recipe) : k < i => recipe[k].there = x} : i \in Sure(recipe)}
CallsSure(recipe) ==
    {recipe[i].arg : i \in {j \in Sure(recipe) :
                              Deep(recipe[j]) /\ \A k \in Exits(recipe) : j < k}}

GainedIn(body) ==
    LET lasting == LastingIn(AllSteps(body))
        own == [m \in DOMAIN body |-> OwnSure(body[m])] @@ << >>
        calls == [m \in DOMAIN body |-> CallsSure(body[m])] @@ << >>
    IN [m \in DOMAIN body |-> lasting \cap UNION {own[c] : c \in Reached(calls, {m})}] @@ << >>
TheGained == GainedIn(TheBody)

\* A flag stands for the whole lasting work of its method, or of the steps
\* under the same guard, wherever among them it is set; a hasty flag stands
\* for the work before it.
PromisedIn(body) ==
    LET gained == GainedIn(body)
        lasting == LastingIn(AllSteps(body))
        brings(s) == IF Deep(s) THEN gained[s.arg] ELSE Own(s)
        group(m, guard) ==
            UNION {brings(s) : s \in {t \in StepsOf(body[m]) :
                     Always(t) /\ (Under(t) = guard \/ (guard = {} /\ Closed(body[m], t)))}}
        sets == {md \in UNION {{m} \X StepsOf(body[m]) : m \in DOMAIN body} :
                   md[2].op = "done" /\ Possible(md[2])}
        work(m, d) == IF d.arg \in Hasty THEN gained[m] ELSE group(m, GroupOf(body[m], d))
        claims == {<<md[2].arg, work(md[1], md[2])>> : md \in sets}
    IN [k \in FlagsIn(AllSteps(body)) |->
          {f \in lasting : \A c \in claims : c[1] = k => f \in c[2]}] @@ << >>
ThePromised == PromisedIn(TheBody)
TheLasting == LastingIn(AllSteps(TheBody))

-------------------------------------------------------------------------------
(* Which methods remember their work. *)

\* Methods that check a flag first and may return without it: influxdb,
\* postgresql, python and crm never set theirs, redis and ardb return early when
\* they find their binary.
Forgetful ==
    {<<"influxdb", "install">>, <<"postgresql", "install">>, <<"redis", "build">>,
     <<"ardb", "build">>, <<"crm", "build">>,
     <<"python", "build">>, <<"python", "_include_jumpscale">>}

RememberingIn(body) ==
    {m \in DOMAIN body : /\ body[m] # << >>
                         /\ body[m][1].op = "check"
                         /\ body[m][1].there = NoFact
                         /\ m \notin Forgetful}
TheRemembering == RememberingIn(TheBody)

\* The flags that a call may take away, itself or through the methods it calls.
LosingIn(body) ==
    LET flags == FlagsIn(AllSteps(body))
        lost(s) ==
          {f \in flags :
             \/ s.op = "unset" /\ f = s.arg
             \/ s.op = "forget" /\ f[1] = s.arg[1]
             \/ s.op = "wipe"}
        own == [m \in DOMAIN body |-> UNION {lost(s) : s \in StepsOf(body[m])}] @@ << >>
        calls == [m \in DOMAIN body |-> CallsOf(body[m])] @@ << >>
    IN [m \in DOMAIN body |-> UNION {own[c] : c \in Reached(calls, {m})}] @@ << >>
TheLosing == LosingIn(TheBody)

AllApps == DOMAIN Listed
===============================================================================
