# A formal model of prefab

Prefab (`src/JumpscalePrefab`, `src/modules`) installs, builds and starts software on a
target machine through an executor. It has no daemon and no plan: every module is a
Python class with methods `install`, `build`, `configure`, `start`, and the only memory
between two calls is a dictionary of *done flags* saved on the target. A method asks
`doneCheck`, works, and ends with `doneSet`. Everything that can be relied on hangs on
those flags telling the truth, after failures, interruptions, retries, resets and other
agents. Three parts keep memories of their own besides: `file_download` has a marker file
beside what it fetched, the process manager a window and a line in a start-up script for each
service, and the installer of a kubernetes cluster the flags of several machines. This project models
the flags and these three.

Contents: 1 inventory, 2 modules and the code, 3 runs, 4 fairness, 5 proofs, 6 where the
code and its own words disagree, 7 what is not modelled, 8 plan.

## 1. Inventory

| part | state it keeps | operations | what makes it correct |
|---|---|---|---|
| `PrefabBase` (`PrefabBase.py`): base class of all modules | per class a `done` dictionary inside `executor.state`; a copy in the agent's memory, the saved state on the target | `doneCheck`, `doneGet`, `doneSet`, `doneDelete`, `doneReset`, `reset`, `cacheReset`, `configSave`, each of whose saves may fail | the copy is stale only behind a failed save, until the next one; no class loses marks through another; a mark is lost only by a call that says so |
| factory (`PrefabFactory.py`) | `prefabs_instance` (executor id to object), `_local` | `get`, `local`, `reset` | `reset` reaches every target that remembers something |
| recipes: the methods of `src/modules/*` | facts on the target (packages, archives, source trees, binaries, services) | 287 modelled methods (catalogue), and one for each package that they install | a flag never lies; a call that returns has done its work; work is remembered; retrying converges |
| command execution (`PrefabCore.run`) | none of its own | a command succeeds, fails and raises, or fails unnoticed (`die=False`) | nothing after a failing command runs |
| downloads and archives (`PrefabCore.file_download`, `file_expand`) | the file, its `.downloadok`, the directory unpacked into | fetch, resume, refuse, mark, unpack, flatten | a marked file is whole; a call that returns has its file; a whole file is left alone; a repeated call gets it |
| process managers (`ProcessManager.py`); the preferred one is always tmux | the start-up script; a window per service in the session `main` | `list`, `ensure`, `stop`, `remove` | a service has one window, also after a reboot; nobody else's is taken away; every call ends |
| tmux (`PrefabTmux.py`), processes (`PrefabProcess.py`) | sessions, windows, what stands on their screens | `createWindow`, `createSession`, `executeInScreen`, `getPid`, `killWindow`; `find`, `kill` | the answer that is read belongs to the command; waits end |
| kubernetes (`PrefabKubernetes.py`) | flags of the controller and of every node, certificates, the members of etcd, what kubeadm leaves on a node | `multihost_install` and all it calls, node by node | kubeadm starts on a clean etcd; a cluster that is remembered is whole; what failed before kubeadm ran is healed by calling again |
| web servers, portals, network services, monitoring, zero-os, virtualization, other storage and applications | as the recipes | as the recipes, in the catalogue | as the recipes |
| names (`PrefabNS.py`, the `hostname` setter) | the cached hosts file, `sudomode` | `hostfile_set`, `hostname` | not modelled (section 7) |
| users, groups, ssh keys | `/etc/group`, `authorized_keys` | `ensure`, `remove`, `authorize`, `unauthorize` | not modelled (section 7) |
| firewall, network | rule set, interface file, a backup of each | `setRuleset`, `setInterfaceFile` | not modelled (section 7) |
| loader, sandboxes, images, machines of libvirt, physical machines, test scripts | none between two calls | | not modelled (section 7) |

How they interact. A script gets a prefab object from the factory; the object hangs one
instance per module class below itself; the instances share one executor and so one copy
of the state. Methods call methods of other classes on the same object
(`self.prefab.system.package.install`, `self.prefab.runtimes.golang.get`), up to twelve
calls deep, and pass some of their arguments on. Every doneSet writes the state of **all**
classes from the agent's copy to the target. Two scripts (`testscripts/test_prefabs.py`
starts several processes and terminates those that take too long) share the target and
its saved state, and the tmux server with its windows and the start-up script. Every method of
tmux and of the process manager, and every download, is a row of single commands to the target; what
one prints decides the next, and pids, indexes and return codes are used several commands after they
were read. The installer of kubernetes works on several targets in turn, with flags on each of them.

Which behaviours are hard to test, each at its line with the properties that would catch
it, is the list `hazards` of `PROJECT.json`. In short: an agent that dies between work and
mark; a command that fails in the middle of a chain of calls; lost updates between the
agents' copies; a save that fails and leaves the mark in the agent's memory only; a reset that writes an empty state; objects the factory no longer knows;
flags set before the work they stand for; steps that cannot be repeated; one method that
removes what another has left; half a file that looks like a file; an `rm` that fails without notice; a wait that gives up on a command that runs on; windows and pids that are somebody
else's by the time they are used; a retry that finds the members of a cluster on the certificates of
the attempt before.

## 2. Modules and the code

```
PrefabDone ── PrefabRecipe ── PrefabPromise ── PrefabPromise_proofs
   │  PrefabStep ┘   │            │   └ INSTANCE PrefabLedger ── PrefabLedger_proofs
   │     └ CatalogBase ─ CatalogDb ─ CatalogApps ─ CatalogChain ─ CatalogWeb ─ CatalogNet
   │                     │        │                                  └ Catalogue
   └ MCDone, PrefabDone_proofs    │     MCRecipe = PrefabRecipe + Catalogue
       └ PrefabPromise_proofs     └──── MCPromise = PrefabPromise + MCRecipe
PrefabFactory ── PrefabFactory_proofs
PrefabTmux ── PrefabTmuxec ── PrefabTmuxec_proofs ── PrefabTmuxecAlone_proofs
                  ├ MCTmux
                  └ INSTANCE PrefabServices
PrefabDownload ── PrefabDownload_proofs, MCDownload
   └ INSTANCE PrefabStore
PrefabKubernetes ── PrefabKubernetes_proofs
```

* **PrefabDone**: `mem[a]` is `executor.state` as agent `a` has it (or `NoCopy` before the
  first access), `disk` is what is saved on the target; a flag is a pair of class and
  key. One action per operation of `PrefabBase`, and one for its failing save (`DoneSetFails` and so on):
  the copy is changed first (lines 81 and 91) and saved afterwards (line 38), so that a save that raises
  may have changed nothing, the copy only, or, when only its answer was lost, both. `unsaved` is a history
  variable: the agents whose last save failed and who have neither saved nor read the state since.
  A `False` entry and a missing one are
  the same to `doneGet`, so a state is a set. `executor.cacheReset` is outside the
  repository; whether it drops the copy is left open (both are allowed). `ConfigSave` is a save
  of a class whose flags are as before, `ResetState` the reset of the
  factory as this target sees it.
* **PrefabFactory**: objects are numbered in the order of their making, and a script may
  hold on to any of them. `strays` is a history variable. A reset may fail when some targets are cleared
  (`ResetFails`); `prefabs_instance` is emptied behind the loop only.
* **PrefabStep**: the language of recipes: a step is one statement of a method with the
  `if`s around it, as a record.
* **CatalogBase, CatalogDb, CatalogApps, CatalogChain, CatalogWeb, CatalogNet**: one operator per
  method of `src/modules`, the statements in the order of the code. Adjacent commands whose
  intermediate results nothing else looks at are one fact, which holds when the last of
  them has succeeded: a failure in the middle leaves no fact, as in the code it leaves
  nothing that a later check looks at. A check of the target (`if not exists(...)`)
  becomes `IfThere`/`IfLacks` on a fact of its own. Methods that raise on their way (an undefined
  name, a missing attribute) end with `Raise` where the code does. `Wipe` is the factory's `reset`, which
  `reset` of `PrefabPython` calls first: it may or may not reach the memory of this target, and is
  `ResetState` of PrefabDone or nothing.
* **Catalogue** computes from the recipes, and from nothing else, the flags and facts in
  play, what each flag stands for (`ThePromised`: the lasting work of the steps under the
  guard that the `doneSet` stands under), what a normal return vouches for
  (`TheGained`) and which flags a call may take away at any depth (`TheLosing`). *Lasting* are the
  facts that no reboot and no method takes away; running services and `$GOPATH/src` (which
  `golang.get` empties) are not. Two lists name the methods that deviate from the pattern, with the
  reason beside them: `Hasty` (the flag is set before the rest of the work) and `Forgetful` (checks a
  flag it may not set).
* **PrefabRecipe** is Python executing recipes for several agents: a stack of calls per
  agent; `SkipStep` for an `if` not taken, `CheckStep`, `ReturnStep`, `EndOfMethod`,
  `RaiseStep`, `CallStep`, `DoStep`, `UndoStep`, `MarkStep` for statements, `FailStep` for
  a command or a save that fails (`MarkFails`: PrefabDone's failing operation, and the call is over),
  `Begin`, `ResetClass` and `ResetClassFails` for the operator, `Crash` for the agent's
  process, `Reboot` for the target.
* **PrefabLedger** is what flags promise, abstractly: a ledger that a flag enters only
  when its facts hold, beside a world that changes on its own but keeps what lasts (`Lasting`, the
  constant `Kept` of PrefabPromise).
* **PrefabPromise** states the *discipline* that makes flags reliable: `Discipline` (`Sound(m, i)`
  of every step) and `Remembrance` (a method's own flag is set on every way out, and no step or call
  behind that takes it away), conditions on the text of the recipes alone. It also has `CallsSound`,
  the half of the inductive invariant that is about running calls, and the refinement mapping to
  `PrefabLedger`.
* **PrefabDownload** is `file_download` with `file_expand` behind it, one action per command: `Clear` and
  `Delete` to `Drop` are what happens before curl, `Curl`, `Again` and `Anew` curl and its second try
  after rc 33, `Size`, `Judge`, `Touch` the tests and the marker, `Tar` to `Remove` unpacking and
  flattening. A file is nothing, a part, the whole, an error page, or a mixture; `Fail` is a command
  that fails or the agent's death, with half of its work done. The commands of `dir_remove` end in `; true`:
  when their `rm` fails nobody notices and the call goes on (`Unnoticed`: `ClearFails`, `DeleteFails`,
  `RemoveFails`); `uncleared` is the history of which calls did not empty their directory. `MCDownload` has the kinds of calls that
  `src/modules` makes.
* **PrefabStore** is what `file_download` promises, abstractly: names that are complete and names that are
  trusted. A call fetches what is not trusted, trusts what is complete, gives up a trusted file only
  when it is told to start anew, and returns only with a trusted one. PrefabDownload implements
  it: complete is `file[n] = Whole(url)`, trusted is there with its marker, and every command of a call
  except these four is invisible.
* **PrefabKubernetes** is `multihost_install`: `pc` is the command of the controller, `at` the node it is for,
  and the loops over masters and minions are unfolded (`EachMaster`, `EachMinion`). A certificate is
  known by the authority that made it, an etcd member by the certificates it has read. `preflight` is the
  call's `skip_flight_checks`: with it kubeadm does not refuse a node on which it has run, and may fail on
  what it finds there or get through. kubeadm,
  etcd and systemd are modelled from how the code calls them.
* **PrefabTmux** is the tmux server as prefab sees it: `win[p]` is the window whose shell has
  pid `p` (pids are what `getPid` returns and `kill` takes), with its session, index, name, the
  command that runs, the lines typed ahead and its screen; `front[s]` is the current window of a
  session, which is what `capture-pane` without a target reads. Of a screen only that remains
  which `checkOutput` can tell apart: whether `**START**` can be read, and which of `**OK**`
  and `**ERROR**` stand behind the first `**ERROR**`. `FirstPids` and `PaneOf` are `getPid`
  (the first window of that name in any session, because of `-a`) and `_pane_get` (the last
  one in the session, because a dictionary is inverted). Shells start, commands end, output
  scrolls away and dead windows close in steps of their own.
* **PrefabTmuxec** adds the scripts: `call[a]` is the method a script is in, `pc[a]` its next
  command, `heard[a]` what earlier commands have printed and the method still needs.
  `List` to `KillFound` are `stop` and `remove`, `ReadStartup` and `AppendStartup` the
  start-up script, `Sessions` to `CaptureFails` are `executeInScreen`: `Answer` is an `**OK**` or `**ERROR**` that is
  read, `WaitOver` the end of the call without one (the expected text, no wait asked for, or time-out with
  rc 999, while the command runs on). `ensure` is all
  three in this order. `Find` hears any part of the processes whose line holds the name, because a pid that
  `ps` pads with a blank is skipped. Between any two commands other scripts, the target, `Crash` and
  `Reboot` may come in. A kill of a process that has ended raises and leaves the method
  where it is (`Leaves`). What a shell shows of lines typed ahead (`Reecho`) and which
  commands print more than the pane keeps (`Chatty`) are constants.
* **PrefabServices** is what the process manager promises, abstractly: a service has no window, an idle
  one, one in which its command runs or is to run, or a dead one; a call changes the service that it is for
  and no other; `ensure` opens a window only where there is none, with autostart only after it has
  registered the service; a command is started once in a window; a reboot opens windows for what is
  registered, and for nothing else. One script in PrefabTmuxec implements it: the status is that
  of the only window of this name (`StatusIn`, which would show a second window as a status that
  PrefabServices does not have), registered is what the start-up script lists.
* The `MC` modules give the constants values for TLC. Mutated forms of definitions
  (`...Early`, `FailUnseen`, `SaveLater` and so on) stand before the definitions and are
  marked as such; nothing uses them.

## 3. Runs

| run | asks | bounds |
|---|---|---|
| `done_one` | do copy and saved state agree, do classes keep their marks, for one agent whose saves may fail | 3 classes with 2 keys: two classes to disturb each other, a third to be disturbed with neither |
| `factory` | which states the factory's `reset` can still reach | 2 targets (the local one and another), 4 objects: two per target |
| `recipes_all` | every method of the catalogue alone, again and again with any of the arguments `reset`, `start`: types, truthful flags, done work, remembered work | one agent, `MaxFaults = 1`: a failing command or save, a death or a reboot |
| `recipes_two` | two agents on one target with the saved flags in common; the refinement of the ledger; `CallsSound` | two methods that both agents want: `base.upgrade`, a chain of calls with flags of their own, and `golang.install`, which removes Go before it installs it; `MaxFaults = 1`; symmetry of the agents |
| `recipes_live` | does retrying converge; also evaluates `Discipline` and `Remembrance` on the whole catalogue | one agent, every method but those of section 4, `MaxFaults = 1` |
| `tmux_one` | one script with two services, killed or rebooted at any command: unique windows, nothing of the other service harmed, an `**ERROR**` that is the command's own, calls that end; the refinement of PrefabServices | 5 windows: one more than two services and the first window of a restarted session need, and one that is closing; `MaxTyped = 1`: one line typed ahead; no chatty command |
| `tmux_two` | two scripts, a service each, on one server: unique windows, no start with autostart that a reboot forgets | as above, `crm.py` is chatty |
| `download` | are markers and returns true, are whole files left alone, does a call get over what earlier ones have left, does repeating get the file; the refinement of PrefabStore | one agent, two files, six kinds of calls in any order; one site that sometimes answers with a page; `MaxFaults = 2`: an interrupted transfer or an `rm` that failed unnoticed, and an interruption of the next call |
| `kubernetes` | does kubeadm start clean, is a remembered cluster whole, is one that was begun never finished by a later attempt with preflight checks, does an attempt raise over what others have left, does calling again heal | two masters and two minions: a first one, and one that is not; `MaxFaults = 3`: one in each of two attempts, and a reboot in between |
| `tmux_start`, `tmux_answer`, `download_page` | section 6 | the calls concerned |

Why one fault is enough for what is asked of recipes: flags are sets that only grow between resets,
and a fault at any step of any method, at any depth, followed by any number of repeated
calls with and without `reset` reaches every half-built target that one interruption
leaves; what a second one adds is the same again from such a target. That this intuition is
right for `TypeOK`, `FlagSound`, `CallsSound`, `SuccessInstalls`, `RemembersWork` and the ledger is
proved for every `MaxFaults`, any number of agents and any disciplined catalogue (section 5). For `Converges`
it stays an assumption. The platform of the runs is Ubuntu; the steps for other platforms
are in the recipes and are skipped. The invariants of downloads, of kubernetes and of a single script
in tmux are proved for any number of faults, files, nodes, services and windows as well; for `Fetched`, `Heals` and
`CallEnds` the bounds of the runs are what is known.

The properties:

* `FlagSound`: what a remembered flag stands for is on the target, in every state.
* `CallsSound`: a running call never runs ahead of the target, at any depth.
* `SuccessInstalls`: a call that returns without an exception has done its work, itself, by a callee
  or in an earlier attempt.
* `RemembersWork`: it leaves behind, in its agent's copy, the flag that its next call looks at first; and on
  the target, unless the agent's last save has failed. (With several agents only the first is asked: what is
  saved another agent may overwrite, which costs repeated work and no truth.)
* `LedgerSpec`: the saved flags and the facts are the ledger of PrefabLedger.
* `Converges`: whoever repeats a call until it works gets it. Behind a failed `doneSet` the retry finds the
  mark in the agent's copy and returns at once: the work is there, and the target does not know of it until
  the agent's next save (`Remembered` allows this, and nothing more).
* `CopyIsCurrent`, `ClassesAreIsolated`, `MarksAreKept`: the memory itself, with one agent. The copy is ahead of
  the target after a failed save and no longer than until the next; what a save changes beyond the marks on which
  copy and target agreed belongs to one class; a mark that both have is lost by `doneDelete` and resets only.
* `StateIsReachable`: the factory.
* `MarkedIsWhole`: a file with a `.downloadok` is whole. `ReturnIsWhole`: a call that returns has its file, or
  the whole archive where it was to be unpacked; moved up, if it flattens, where the directory was really
  emptied before. Elsewhere the archive may stay in its top directory beside leftovers, as the code has it. `WholeIsKept`: a complete file changes only by a call that is
  told to overwrite or delete it. `Fetched`: a call that is repeated comes back with its file.
  `RaisesForCause`: a call raises of itself only when its own transfer was cut off or the site may not have
  the file; whatever earlier calls have left, it gets over. `StoreSpec`: downloads implement PrefabStore.
* `CleanStart`: kubeadm init finds every etcd member on the certificates of its own attempt.
  `DoneIsCluster`: a remembered cluster is whole, in etcd, kubelets, masters and minions.
  `RaisesForCause`: an attempt raises of itself only when the binaries are not there, or after something
  has failed from kubeadm init on: what earlier attempts and reboots have left never does it.
  `OneAttempt`: a cluster that an attempt has begun and not remembered is remembered by a later attempt only
  with `skip_flight_checks`; `DoneIsCluster` holds of that one as well.
  `Heals`: what failed before kubeadm ran is healed by calling again.
* `OneWindow`: a service never has two windows; `PrefabTmuxec!TypeOK` says besides the types that
  a script between two calls has no pid and no index in mind.
* `StartsAgain`: a service that `ensure` starts with autostart is in the start-up script, in a line for its
  own window, before the window is made.
* `ServicesSpec`: with one script, services in tmux implement PrefabServices.
* `OnlyOwnWindows`: `ensure`, `stop` and `remove` of a service take away no window, shell or
  command but its own. With one script it holds; with two it does not (section 6).
* `ErrorIsReal`: the `**ERROR**` for which `executeInScreen` reports a failure is that of its own command,
  which has ended. It rests on `ensure` stopping the service first, so that the window it types in is new;
  the mutant that skips `list` breaks it. A failure by time-out is another matter: with a `wait` that expires
  the call returns rc 999, or raises, while the command runs on (`WaitOver`), and no property excludes that.
* `CallEnds`: a call ends, for commands whose output the pane can hold.

## 4. Fairness

`PrefabRecipe!LiveSpec` assumes weak fairness of `Execute(a)` (Python runs on), of `LoadState(a)` (the
next access to the state reads it), and strong fairness of the repeated call with the arguments
`Insist`: the operator may reset classes, try other arguments and be interrupted, but
comes back to the same call. Strong, because every other call of his disables it for a while. No
fairness is assumed of failures, crashes or reboots, and `MaxFaults` bounds them: "once
commands stop failing".

`recipes_live` leaves out three lists (`MCRecipe`), with 206 methods left. `Dependent` are methods
that build nothing and raise until another method has been called: nobody calls it in a playbook of one
method. `Broken` are methods that raise whenever they are called. `Stuck` are
methods that one interrupted attempt makes fail for good, because a step cannot be repeated: `bitcoin.build` takes
a partial archive for a whole one, `odoo.install` and the bots of mattermost and synapse create a user
a second time, `synapse` its administrator, `owncloud.install` its storage directory, `electrum.install` and
`restic.quick_install` depend on a result that the second attempt skips, `apache2.build` takes a partial archive for a whole one,
`gitea.build`, and `gitea.install` with it, call `postgresql.install` again, whose `initdb` refuses the directory
that it has initialised,
and `wordpress.install` needs the database server that only a first `mariadb.install` starts.

`PrefabTmuxec!LiveSpec` assumes weak fairness of the next command of each script, and nothing of the
target: commands in windows need not end, shells need not start. Reboots and crashes only end calls.

`PrefabDownload!LiveSpec`: weak fairness of an agent's commands, and strong fairness of the calls in
`Repeated` (those that continue what they find): whoever wants the file asks for it again. A server
may refuse to continue a file as often as it likes.

`PrefabKubernetes!LiveSpec`: weak fairness of the controller's commands and of the registration of a
node whose kubelet runs, strong fairness of the repeated call with its defaults (`install_binaries=True`, `skip_flight_checks=False`). `Heals`
excepts what fails from kubeadm init on (`late`): kubeadm refuses a node on which it has run, and the
code has no way back.

## 5. Proofs

All of it is checked by TLAPS for every value of the constants.

`PrefabPromise_proofs`: from `DoneAssumption`, `PromiseAssumption`, `KeptAssumption` and `Discipline` follow
`TypeOK`, `FlagSound`, `CallsSound` (`TypeCorrect`, `FlagsSound`, `CallsAreSound`),
`SuccessInstalls` (`ReturnsInstall`) and the refinement of `PrefabLedger` (`KeepsLedger`); with
`LosingAssumption` and `Remembrance` also `RemembersWork` (`WorkRemembered`).
The assumptions are conditions on the text of recipes; TLC evaluates them on the whole
catalogue in `recipes_live`, so that the theorems apply to the recipes of `src/modules`.

`FlagSound` is not inductive: a `doneSet` keeps it only if the running call has done the
work. `CallsSound` says so: each call of a stack has on the target whatever its earlier
steps must have brought about (`Before`), and stands, unless it is the last, at the call of
the next. That in turn needs `FlagSound`, because a step can be skipped on a flag. So the
induction is over the conjunction `Reliable == TypeOK /\ FlagSound /\ CallsSound`:

* `MustPass`: a skipped step that had to run has its yield on the target, since the flag
  or the check that skipped it is truthful;
* `ReturnsSound`: at every way out of a method, what it vouches for is there;
* `BehindGoto`, `BehindBack`, `BehindPush`: what moving on, returning and calling do to a
  stack; `BehindStays`: a target that keeps the lasting facts keeps all of it;
* `ExecuteStays`, `MarkStays`, `BeginStays`, `SurroundingsStay`: one step per action.

`RemembersWork` needs a second invariant, `Mindful`. An agent's copy is its own, so that no other agent
can take a flag out of it; but its own calls can, and a callee at any depth may be one that does. `Heeds`
says of a stack whose outermost call is past the setting of its flag that the flag is in the copy and that
no call above it is of a method that may lose it. `HeedsOn`, `HeedsBack` and `HeedsCall` are the three ways
a stack moves; `Losing` closes the argument over the depth of calls, so that it is no induction over the stack.

That the flag is on the target too, for an agent alone without a failed save, follows from `CopyCurrent` of
`PrefabDone_proofs`: the lemma `KeepsDone` says that the steps of PrefabRecipe use the memory through the
operations of PrefabDone only (by construction, but for a reset of a class without flags), so that what is
proved there holds in the middle of recipes.

`PrefabLedger_proofs`: a ledger is honest (`LedgerHonest`), the shortest form of the
argument. `PrefabDone_proofs`: types, and for one agent currency (but behind a failed save), isolation and
permanence of marks. `PrefabFactory_proofs`: types, and what the next reset reaches.

`PrefabDownload_proofs`: `TypeCorrect` without conditions; `MarkersAreTrue`, `ReturnsAreTrue`,
`WholesAreKept`, `RaisesRightly` and `KeepsStore` for calls that are `Apart` (no two agents share a file or
a directory, and a file is always fetched from the same place) and wary (a URL that may be missing is
fetched by overwriting calls with the size test; `deletedest` is not enough, since its `rm` may fail unnoticed). The invariant says where in `file_download` an agent may meet
which contents (`Before`, `After`, `Unpacks`): a file without a marker may be a part or a page, and the
marker is set only behind the tests that rule both out. `Confinement` shows that a step touches the files of
its own call only; that is what `Apart` is for. Without wariness the theorem is false: `download_page`.
`RaisesRightly` needs besides (`Careful`) that curl's refusal to continue (rc 33) never gets as far as the
tests, since the second try starts anew, and that behind the tests the marker is set and stays, so that a
call does not give up on its own file while it unpacks. `KeepsStore` maps each command to the step of
PrefabStore that it is, or to none; that `Fetch` never writes to a trusted file is in `Before` and
`After` (no file that has a marker from `resume` to `judge`), and that `Give` finds the file trusted is
`Careful`.

`PrefabKubernetes_proofs`: `TypeCorrect`, `StartsClean`, `RememberedIsWhole`, `RaisesRightly`,
`OneAttemptOnly`, for any number of masters and minions. The invariant follows the loops: `Fresh` (the
masters before the present one have this attempt's certificates, on the disk and in etcd; a reboot makes a
member read what is on its disk, which is why both are needed), `Reached` (what the attempt that has passed
kubeadm init has behind it), `Enlisted` (a minion that remembers has joined) and `Remembered`.
`RaisesRightly` rests on `Early`: as long as nothing has failed from kubeadm init on, a cluster that has
begun is the one of the running attempt or remembered, no flag of the first master is there before a cluster
has begun, and no minion has joined before its turn. `OneAttemptOnly`, a property of whole behaviours, is
the invariant `Over` from the moment that it speaks of: kubeadm has begun on the first master, and only an
attempt that skips the preflight checks is past kubeadm init, which otherwise raises on a node that it has run
on. (`RememberedIsWhole` holds for those attempts too: kubeadm may get through on a used node, and everything
behind it is done again.)

`PrefabTmuxec_proofs`: types (`TypeCorrect`), and one window for each service (`OneWindowEach`), for
any number of scripts, sessions, services and windows. `OneWindowEach` assumes `NamesApart`: a
service belongs to one script and keeps its command; the module `MCTmux` has TLC evaluate it for
the calls of the runs. `OneWindow` is not inductive. A reboot makes windows from the
start-up script, so no window may be in it twice (`StartupOnce`); a line is looked for by its
command, so each line must be that of a call (`StartupKnown`); and between the command that has
looked and the one that adds, what was seen must still hold (`AppendsFirst`, `OpensFirst`). Each of these
survives the other scripts' steps because of `NamesApart`, which is where two scripts for one
service would break it. The effect of a step on windows is stated once (`WindowsStay`,
`AddsWindow`) and proved per action.

`StartedAgain` (`StartsAgain`, any number of scripts) adds `CommandsApart` to these assumptions: no two
services have the same command line. Between the command that reads the start-up script and the start of the
service other scripts append to it, but no step takes a line out (`WorksKeepsLines`), and a line with the
command of a service is a line for its window by `StartupKnown` and `CommandsApart`. Without the latter the
property is false: see section 6.

`PrefabTmuxecAlone_proofs`: `ErrorsAreReal` and `OwnWindowsOnly` for one script (`ServicesAlone`: it
ensures, stops and removes services, and no name of a service is part of another's command line). The pids
and indexes that the script has in mind must be those of its own service (`MindsOwn`, `ClosesOwn`), although
windows end, close and come back by a reboot in between; the window that it types in must be new and in
front (`TypesInOwn`, from `ClosesFirst`: between `stop` and `new-window` there is none of that name), so
that the `**ERROR**` on its screen can only be that of the command it has just typed. `AloneInv` is the
conjunction with the invariant of `OneWindow`.

`KeepsServices` (the refinement of PrefabServices, with `CommandsApart` besides) is over `ServiceInv`:
`AloneInv` and `StartsAgain`, to which it adds that a window has one command line at most, running or typed
ahead (`AllSole`), and that a call is where its kind of call can be (`Serves`). As a service has one window
(`OneWindow`), its status is that of this window, and a step on another window leaves it alone; so the proof
is about one window at a time: `StopTakesOwn` (only the service of the call loses anything), `RegisterStep`,
`OpenStep`, `RunStep` (a command is started once), `OnTargetStep` (what a shell does of itself),
`RebootStep` (the windows that come back are those of the start-up script, whose names are all different by
`StartupOnce`).

No safety property of a run is left without a theorem. Only model-checked: the liveness properties
`Converges`, `CallEnds`, `Fetched` and `Heals`, since liveness under fairness is beyond the prover, and that
the catalogue keeps the discipline (an evaluation, not a theorem).

## 6. Where the code and its own words disagree

* `tmux_start`: `createWindow` sees no session `main`, `createSession` kills `main` before it makes it: of
  two scripts that start their first services together, the second takes the first's away.
* `tmux_answer`: the wait cuts the screen behind the first `**ERROR**`, which stands in the first
  command line of the window; the line of the next command contains `**OK**`: the second command in
  a window is reported done at once. Services get a new window each time, but
  `execute_script(tmux=True)` always takes the window `cmd`. (With `Reecho` the same happens
  in a new window whose shell was not there yet when the line was typed.)
* `download_page`: a call that was refused with an error page leaves the page; a later call with
  `overwrite=False` continues it, and marks the page with the rest of the file behind it as complete.

Other things that the models show are hazards with their lines: a retry of the kubernetes installer empties etcd's data on every master although only a minion had
failed, and cannot succeed afterwards; after an interrupted download every later `bitcoin.build` fails on
the partial archive; the second `reset` of the factory misses the local target, because the first has
emptied `prefabs_instance` and kept `_local`; without `**START**` on the screen the wait of
`executeInScreen` looks at no clock, so that a command that prints more than the pane keeps is waited for
without end; `ensure` looks through the start-up script for the command, whatever window the line is for, so
that of two services with one command line the second is started and never added, and a reboot brings back
the first alone (`StartsAgain` fails for such calls; its theorem excludes them).

## 7. Not modelled, and why

* The state of the executor's own implementation, of package managers, docker, libvirt and kubeadm (outside
  the repository; only their effect), texts of configuration files, version numbers, paths, wrappers of a
  single command (most of the file helpers).
* Users, groups, ssh keys: each method reads one file and hands the change to one command; what is wrong
  with them is wrong in a single call of a single script. Names: the hosts file is read and written whole,
  and `sudomode` belongs to the executor. Firewall and network: `setRuleset`'s script raises before it
  applies anything, and `setInterfaceFile`'s is the same. Routers, proxies and DHCP write a configuration
  and restart a service. All of these have their lines among the hazards where one is real.
* The cluster of `PrefabMongoCluster` (reads attributes before they exist and cannot run), sandboxes, system
  images, machines and disks of libvirt, the build driver, scripts for physical machines, the loader, test
  scripts: nothing is remembered between two of their calls.
* Facts that a flag does not stand for (running services, source trees below `$GOPATH`) are in the model and
  in no promise: `ardb.stop` leaves the flag of `start`, and no line of the repository promises more. A
  read-only executor is in `PrefabDone` and its proofs; no run has one. A list given to pip is decided on
  its last package (`PipPair`) and the reset of golang forgets no flag (`GolangReset`): both are in the
  catalogue as they are, and no property asks more of them.
* Of tmux: `logWindow`, `attachSession`, `configure`, `killSessions` and the arguments of `executeInScreen`
  that no caller passes; installing tmux itself; `createSession` called by itself, which returns before it
  does anything unless told otherwise. Of the process managers: Systemd and Runit, and the `sleep` lines in
  the start-up script.
* Of `multihost_install`: `reset=True` (for development only), and the empty `generate_new_token`; what
  kubeadm does with `--skip-preflight-checks` on a used node is left open between failing and getting through. Of
  downloads: a file that two agents fetch at the same time (the theorems exclude it), and archives that tar
  does not unpack.

## 8. Plan

Done: the memory, the factory, execution of recipes, the catalogue, services in tmux windows, downloads, the
kubernetes installer, a proof of every safety property that a run checks, and of the refinements: of the ledger, of
the store, and of services for one script. What is left, in this order:

1. Names and hosts: the cached hosts file between two scripts, `sudomode` over early returns and exceptions.
2. Groups and keys as read-modify-write of two scripts; apply, ping and restore of rule sets once the
   scripts get that far.
3. tmux with a second session (`getPid -a`); Systemd and Runit.
4. A run for hasty flags (`tidb`, `restic`) and one with a read-only agent.
5. Proofs: `OnlyOwnWindows` and PrefabServices for several scripts that start when the session `main` is there
   already (without it they are false: `tmux_start`).
