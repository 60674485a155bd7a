# X-port in TLA+

X-port is a single-binary Go panel for one Xray server. This directory holds its
specifications: TLA+ modules translated from the source, TLC configurations that
check them on small instances, and TLAPS proofs of their main properties for all
instances. Paths below are relative to the repository; the lines each definition
models are in `PROJECT.json` (`map`).

## 1. The system

| Component | State | Operations | Interacts with |
|---|---|---|---|
| Account service (`internal/service`) | SQLite table `accounts`, mutex `Accounts.mu` | create, update, delete, clone, toggle, advanced and expert edits, traffic reset, backup restore, global Xray configuration | store, Xray manager |
| Account editors (`internal/accountcfg`, `service/editor_transport.go`, `advanced.go`, `expert.go`) | the JSON of one account | show, validate, merge and write three forms | account service |
| Settings handler (`internal/server/operations.go`) | settings table, admin row, sessions | `updateSettings` (may move the Xray API port) | manager and store, *without* `Accounts.mu` |
| Runtime loop (`cmd/xport/main.go`) | ten-second ticker | read and reset Xray's counters, charge, monthly reset, quota, expiry | `xray api statsquery`, account service |
| Xray manager (`internal/xray/manager.go`, `restart.go`) | `config.json`, fields `APIPort` and `BaseConfigJSON`, mutex | validate, compare, rename, restart, verify, roll back | systemd, the Xray process |
| Restart gate (`restart.go`) | time of the last restart | spaces restarts by 3 s | systemd's start limit |
| Core updater, rollback, geodata (`updater.go`, `rollback.go`, `geodata.go`) | binary, `.previous`, geodata files, marker | install, verify, swap back | restart gate, systemd |
| Guarded firewall changes (`server/firewall*.go`, `ops/firewall_rollback.go`) | firewall rules, transient systemd timers, pending record and ownership notes in SQLite, `firewallMu` | change, confirm, pause, resume, edit external rule | firewalld, ufw, systemd-run |
| Firewall rules (`internal/firewall`) | none | inspect, normalise, mark contradictions | the former |
| Self-update (`internal/selfupdate`, `ops/system.go`) | panel binary, `.previous`, transient unit | stage, schedule a verified restart, restore | systemd-run, guarded firewall changes |
| Login limiters and sessions (`internal/auth`) | attempts and sessions in memory | allow, fail, success, create, clear | HTTP server |
| Ports and identifiers (`service/ports.go`) | none | suggest a port | account service |
| Backups, terminal manager (`internal/backup`, `cmd/xport/manager.go`) | snapshot files | create, import, restore; settings, administrator, updates from a second process | manager, store, panel service |
| Migration (`internal/migrate`, `scripts/migrate-xpanel.sh`) | source database, backup directory, units of both panels | convert, cut over, undo | store, systemd |
| Store (`internal/store`) | SQLite | transactions | all of them |

What is hard in it: one SQLite database, an in-memory manager, a file, a process
supervised by systemd and a firewall have to agree, although each may be changed
by several goroutines, by a second process, by a timer, and any step of a change
may fail or be the last one before a crash. `hazards` in `PROJECT.json` lists the
places with the properties that watch them.

What makes each part correct:

- Account service: after every request SQLite, the manager and Xray hold the same
  accounts and settings; after an error they are what they were or, when the error comes
  after the save, what was wanted.
- Editors: saving a form as it is shown changes nothing Xray sees, as far as the form can
  show what is stored; what was sent is what is shown afterwards; an account stays
  editable.
- Runtime loop: no byte is charged twice; quota and expiry are enforced in the
  end; an account that was suspended for its quota comes back, one that the user
  switched off does not.
- Xray manager: only tested configurations are installed; what a call reports is
  what happened.
- Restart gate, core updater: no more than four starts that a gated call waits for fall
  into systemd's window; the installed core is never lost; the report of a rollback is
  true.
- Firewall: a change that cuts the administrator off is undone without him, and
  a change that he confirmed is final; contradictory rules are marked exactly.
- Self-update, migration: there is something to go back to until the new version
  has proved itself, and going back restores what was there.
- Login: a limiter is bounded, a block lasts exactly its window. Settings: one
  administrator, a panel that can start again, no sessions of users that are gone.
- Terminal restore: what is taken away is in a backup; what is reported is true.

## 2. The modules

| Module | What it models | Checked in | Proofs |
|---|---|---|---|
| `ApplyOutcome` | the reports of `Manager.Apply` and how a call may end | (extended by others) | |
| `ConfigApply` | abstract: the installed configuration as a register | `Parts` (refinement) | |
| `XrayApply` | `applyLocked`, `restartAndVerify`, `restoreConfig`, in several processes | `TwoProcesses`, `Parts` | `XrayApplyProofs` |
| `AccountSync` | the requests that keep SQLite, the manager and Xray together | `AccountSync*` | `AccountSyncProofs` |
| `AccountPolicy` | traffic, quota, expiry and monthly reset of accounts | `AccountPolicy*`, `Parts` | `AccountPolicyProofs` |
| `FirewallRecovery` | guarded firewall changes, their timers and confirmations | `FirewallRecovery*`, `Parts` | `FirewallRecoveryProofs` |
| `RuleConflicts` | the order of the rules and `markRuleConflicts` | `Parts` | `PartsProofs` |
| `RestartGate` | the gate of a process and systemd's start limit | `Parts` | `PartsProofs` |
| `CoreUpdate` | `Updater.Update`, `Rollback`, `UpdateGeodata` | `Parts` | `CoreUpdateProofs` |
| `PanelUpdate` | `Stage`, `Restore`, the handler, the command, the transient unit | `Parts`, `PanelPending` | `PartsProofs` |
| `LoginLimiter` | both limiters and the login that asks them | `Parts` | `PartsProofs` |
| `AdminSettings` | administrator, sessions and TLS files, in panel and terminal | `TwoProcesses` | `TwoProcessesProofs` |
| `TerminalRestore` | `restoreSnapshotCLI` under a running panel | `TwoProcesses` | `TwoProcessesProofs` |
| `AccountEditor` | the ordinary, the advanced and the expert form | `Parts`, `EditorClears` | `AccountEditorProofs` |
| `Migration` | `migrate-xpanel.sh`, its undo and `rollback.sh` | `TwoProcesses` | `TwoProcessesProofs` |
| `TwoProcesses` | the parts that the panel and a terminal change both, side by side | `TwoProcesses` | `TwoProcessesProofs` |
| `Parts` | nine parts of the panel, side by side | `Parts` | `PartsProofs` |

`XrayApply`, `AccountSync` and `TerminalRestore` extend `ApplyOutcome`. `XrayApply`
with one process implements `ConfigApply`, whose `End` chooses among `Endings`; a
call of the manager in `AccountSync` and in `TerminalRestore` chooses among the same
`Endings`. So a call is eleven phases in the one module and one step in the
others, and the proof of `Implements` is what allows that.

`TwoProcesses` and `Parts` hold several *parts* that share no state: the first state
chooses a part, only that part moves, and the others rest in an initial state. The
reachable states are the sum, not the product, of those of the parts, and each property
speaks of one part. The part whose module is extended (`XrayApply` in the one,
`LoginLimiter` in the other) keeps its variable names; the others are instances `WITH`
prefixed variables. The MC modules give TLC its sets: `MCAccountSync`, `MCAccountPolicy`
and `MCFirewallRecovery` for one module each, `MCTwoProcesses` and `MCParts` for the
two compositions, where they also let the parts that rest do so in one state.

### XrayApply

`file` is the contents of `config.json`, `running` what the Xray process loaded
at its start, `want` and `prev` are the variables `cfg` and `previous` of
`applyLocked`. One action is one effect on the file or on the unit: `Validate` (write
and test the temporary file), `Compare` (read the current bytes), `Unchanged` and
`RecoverSame` (the short cut for equal bytes), `Rename`, `ApplyNew` (restart, verify),
`Rollback` and `Restore` (`restoreConfig`, the second restart). A restart has two
steps, since systemd returns before the process has proved itself; in between, any
process may do anything. `XrayExits` and `UnitStarts` stand for everything else
that starts and stops the unit. `clean` remembers whether a call was disturbed by
another process: `Manager.mu` does not reach across processes, and the promises of
a call are stated for calls that ran undisturbed, except `OnlyTestedInstalled`, which
holds always.

### AccountSync

`db` is the database as far as Xray is concerned (the ports of the enabled accounts, the
API port, the base configuration), `mem` the two fields of the manager, `xray` the
installed configuration. A request begins by reading `db` (`old`) and deciding what it
wants (`new`), then goes through *apply*, *save* and, if the transaction fails, *undo*;
`RestoreSnapshot` goes through *save*, *apply*, *unsave*, *undo*. `Target` is what the
manager builds from a request: only the part that belongs to it, the rest is the manager's
own or, for a request that does not change accounts, what the request read at its
beginning. This is where `updateSettings`, which does not take `Accounts.mu`, can install
accounts that are out of date. The history variable `upset` names the only causes after
which the copies may differ.

An error does not always mean that nothing happened: requests that change accounts read
the saved account again (`accounts.go:75-79`, `121-125`, `175-179`), and `updateSettings`
makes a session for a new administrator (`operations.go:353-356`), after the save. `Save`
may end in an error for these kinds (`Rereads`), and `AllOrNothing` says that all three
copies are then as before or all as wanted.

Three simplifications: `updateSettings` reads the API port and the accounts in one
step (lines 286 and 326); it checks a new port against all accounts, the model
against the enabled ones, as `BuildConfigWithBase` does; a restored backup is
consistent in itself.

### AccountPolicy

`row` is the row of an account. `Next` has one action per handler and three for a
tick of `runtimeLoop`: `ReadAndReset` takes the time and empties Xray's counters,
`AddTraffic` and `Enforce` are the two transactions of `ApplyTraffic`, and between
the first two any handler may run, and the clock too: the month the tick took may be
over. `Persist` is a change of the table with its installation, which may fail with
Xray left at the old or at the new inbounds, and which loses the counters not yet
read, since it restarts Xray. `Renewed`, `Judged`, `Resumed`, `Edited`, `Copy` are the
conditions of the code. Upload and download are one number; `UpdatedAt` is left out.
An account that moves to another port gets another tag, so that a delta that was
read before may be lost or charged to whoever has the tag now (`Tagged`).

### FirewallRecovery

A slot is a port with protocol and zone, a rule a slot with `allow` or `drop`.
`runtime` and `permanent` are firewalld's two configurations, `owned`, `paused` and
`pending` the three families of keys in the settings table, `timer[u]` a transient
systemd timer with the commands it has still to run, `job` the handler that holds
`firewallMu`, step by step. A guarded change is `Arm` (systemd-run), `ChangeRule` (and
`Move`, `CheckMove` for an edit), `SavePending`. A confirmation is `Confirm`,
`Stage`, `Query` and `Stop` (`CancelFirewallRestore`), `Verify`, `Finish`. Additions and
resumptions have no timer: `Begin`, `AddRule`, `Record`, `UndoAdd`. Every step may
fail, the panel may die, the machine may restart, another manager may change a rule.

`undue` and `forgone` are history: the rules that an unconfirmed change switched and
that are owed a recovery, and those for which nobody answers any more (another manager,
a restart, a recovery that removes instead of adding).

Time is counted in ticks of a minute or so: a fresh timer has `Delay` of them left;
with one left it may be due, with none it is overdue. `AccuracySec=1s` makes this
granularity enough. A handler that changes rules lives for 100 of the 120 seconds,
so its own timer does not come due before it ends: `Tick` waits for it while its timer
has two ticks left. The deadline of a record is not earlier than its timer.
A worker's commands succeed, and it finishes within a tick. Helpers that outlive their
cancelled request, ufw, notes, the protection of management ports and of listeners,
and the snapshot's annotations are not modelled.

### RuleConflicts

`rules` are the rules in the order `Inspect` lists them, `conflict` the indices that carry
the mark. Whoever manages the firewall adds or removes a rule, and the page is refreshed.
`Sweep` is the loop of `markRuleConflicts` over one group, `After` its body: all it keeps
is the end that reaches furthest and the rule it belongs to. A group stands for backend,
zone and protocol; with an address family it is a key of the code's map of groups
(`Keys`), which has the groups of the rules that are there and no others. The order of
equal keys is open (`Orders`), as `sort.Slice` leaves it. `MarkedExactly` compares the
result with the comparison of all pairs that the comment says it avoids.

### RestartGate

`at[c]` is a call of `restartAndVerify`: it waits for the mutex, then for the spacing
(`Go` records the time of the restart, as the code does before it calls `systemctl`),
then, for any time, for systemd to stop the old process; only then does systemd count the
start (`Start`). The gate stays closed while the start is judged, which takes 1.2 seconds
or longer (`Dwell`); if `systemctl` fails or reaches its twelve seconds, the call returns
at once (`GivesUp`). `since[p]` is the time since the restart the gate has recorded,
`stable[p]` the time since the start that is judged, `age` and `count` are systemd's
window of ten seconds (`Interval`), which `ClearStartLimit` resets in a rollback. Time is
in fifths of a second, the unit in which all these are whole numbers. `Ungated` is a start
the gate does not see: the restart button, a crash that systemd restarts, a command in a
shell, a start systemd makes after a call gave up, a terminal update (in `Parts` the
terminal's calls are among these, since its gate is another variable).

### CoreUpdate

`core` has the three names a core can have, `geo` and `geoPrev` the geodata files,
`marker` the release they are said to be. One action is one rename, copy, restart or
removal. `had` and `names` are the booleans and lists the code keeps for undoing;
`slipped` records that an error while undoing was ignored. A crash leaves the files as
they are; the next call works on them. `alone` is false once two calls have
overlapped: nothing serialises them, and overlapping calls do lose the core (the
second renames or removes what the first has put under `.previous`), so that the
properties are stated of calls that do not overlap.

### PanelUpdate

`bin` and `previous` are the two files, `serving` the build that runs, `unit[u]` the
transient unit an update has scheduled: a timer, then the ten seconds in which it
watches the service, then the fallback. A web request dies with the panel, a command
of the terminal does not. A broken build is down as soon as it is started. `pending`
is a firewall change that waits for its confirmation, for the sake of
`NotInterrupted`. `calm` is false after two updates overlapped, one was cut between
staging and scheduling, or an undo failed.

### LoginLimiter

`tries` and `ips` are the two limiters: entries with count and age, and the time of the
last cleanup. `Ask` is the first half of `login`, `Wrong`, `WrongIp` and `Right` are its
ends; between them others log in, because the limiter's mutex is held for one call
only. An age stops at the window, beyond which the code does not look.

### AdminSettings

`db` holds the administrator rows and the two TLS settings. A settings request reads
the session and the form (`Send`), compares and hashes (`Read`), writes (`Save`), and then
clears and creates sessions (`Clear`, `Create`); a login compares and then creates its
session; the terminal has its two menus, which write the certificate and the key one
after the other. `torn` says that a save of the terminal was cut or crossed, `lagging`
that the administrator changed while a session was about to be made.

### TerminalRestore

`step` walks through `restoreSnapshotCLI`: snapshot, backup, load, apply, replace,
re-apply, restart of the panel, and the two ways back. The panel meanwhile works on
accounts with the settings it started with (`mem`); `quiet` is false when it did. What
a call of the manager may end in is `Endings`.

### AccountEditor

A document is a function from the fields that are present to small values; a field is an
object and a key, and the key `"object"` says that the object itself is there, even when
it is empty. In a `WellFormed` document whatever has a key is there. `Texts` are the
values that can be typed into a field. Where the type of a value matters there are more:
lists of two texts, of a blank one, of a blank one and a text, a text that should be in a
list, and a value that is no text. What a form reads of them is a conversion of its own:
`Listed` (`expertStringSlice`), `Scalar` (`expertScalarString`), `FirstOf`
(`firstArrayString`), `Text` (`stringValue`).

`EditorView`, `AdvancedView`, `ExpertView` are what a form shows, `AfterUpdate`,
`AfterAdvanced`, `AfterExpert` what a save writes, with the spellings (`method`/`network`,
`ws`/`websocket`, `xhttp`/`splithttp`, `tcp`/`raw`, `target`/`dest`), the host of
WebSocket and its two headers, the merge of missing fields and the clearing of visible
ones, for WebSocket, HTTPUpgrade, XHTTP, gRPC and RAW. `Inputs` are all ordinary forms:
every field their page shows may come filled or empty; `Forms` are those a run sends.
`Serves` is what Xray makes of a document: only the active transport and security count.
The properties about saving a form as it is shown have premises, each for a place where
the code does change what Xray sees; their comments say which (section 5).

### Migration

`file`, `runs` are X-port's database, configuration and services; `on`, `rmask`, `active`
the old units; `copy`, `rec`, `script` the backup directory. One action is one command, or
one pass of a loop over the old units, with the commands whose failure is ignored
failing unseen (`slipped`) and the others leading to the trap, or, before the trap is
set, out. `RollbackScript` is the script left behind, run any time later, also after
reboots. The panel writes until it is stopped, a watchdog starts old units again, a
signal, a kill or a reboot may come between any two commands. The dry run and the
validation of a candidate touch a temporary directory only (`Decline`).

## 3. The runs

The checks are exhaustive for the instances given; the `.cfg` files hold the values.
Times are for two workers with coverage.

| Run | Instance | What it shows |
|---|---|---|
| `TwoProcesses` | `XrayApply` with panel and terminal manager, two good configurations and a bad one; `AdminSettings` with one request, two names, one pair of TLS files; `TerminalRestore` with two account tables and two settings, of which one combination cannot be built; `Migration` with two old units, two hosts, one cutover, two disturbances. 1.4 million states, 80 s | `OnlyTestedInstalled`, `NothingForeignRuns`, `SuccessIsInstalled`, `RestoredIsPrevious`; `OneAdmin`, `Startable`, `SessionsCurrent`; `NothingLost`, `RestoredWhole`, `RolledBackWhole`; `Recoverable`, `AsBefore` |
| `Parts` | the nine parts below. 725,000 states, 125 s | see below |
| `AccountSync` | two handlers, two account tables, two API ports, two base configurations. 1.3 million states, 60 s | `InSync`, `NeverWedged`, `AllOrNothing`, and its types |
| `AccountSyncRace` | the same, one base | *violated*: an account without an inbound after `updateSettings` raced it |
| `AccountSyncStats` | the same, one base | *violated*: the statistics reader keeps the old API port |
| `AccountPolicy` | one account, three months of two instants, quota 2, expiry in the second month, 2 bytes, one failure | `ChargedOnce`, `StaysOff`, and the liveness properties `Enforced`, `ComesBack` |
| `AccountPolicyManual` | one account, 3 bytes | *violated*: a manual disable is undone by the monthly reset |
| `FirewallRecovery` | two ports, one timer, edits and requests about drops, one failure; 147,000 states | `AlwaysGuarded` for both halves of an edit, and `Recovers` (liveness) |
| `FirewallRecoveryPause` | one port with both rules, two timers, all requests | *violated*: a confirmed pause loses the only copy of the rule |
| `FirewallRecoveryFinal` | the same | *violated*: an older timer re-opens a confirmed deletion |
| `PanelPending` | as `Parts` | *violated*: an update restarts the panel while a firewall change waits |
| `EditorClears` | as `Parts` | *violated*: an emptied path comes back from the old transport |

The parts of `Parts`:

| Part | Instance | Properties |
|---|---|---|
| gate | one process with two calls, starts outside the gate, stops of any length | `FourPerWindow`, `Headroom` |
| apply | one manager, two good configurations and a bad one | `ImplementsConfigApply` (refinement) |
| policy | two accounts, one byte each, no failure | `ChargedOnce` with clones |
| firewall | one port with both rules, two timers, requests about allowances, one failure | `AlwaysGuarded` when a second try meets the first timer |
| core | one call at a time, four calls, three releases, any failure and crash | `Survives`, `AsFound`, `GeoTrue` |
| panel | a web request and a terminal command, three builds, the second broken | `BuildKept`, `Serves` |
| login | two handlers, one address, three names, capacity two, limits 1 and 3, windows of three and four minutes | `Bounded`, `BlockLasts` |
| editor | six imported documents (`Documents`), VLESS and VMess, one text, 34 ordinary forms (`SentForms`), two edits through any form | `ExpertFaithful`, `AdvancedFaithful`, `OrdinaryFaithful`, `ShownAsSent`, `StaysEditable` |
| page | two groups, three ports, three rules (single ports and ranges, three families) | `MarkedExactly` |

Why the bounds are enough. `XrayApply` has no counter: two processes suffice for one to
disturb the other, and the values are only compared. In `AccountSync` the mutex leaves at
most one locked request, so two handlers give every pair, and requests repeat without
bound. In `AccountPolicy` the horizon covers a month before, during and after an expiry,
and two bytes reach the quota; ticks repeat without bound. In `FirewallRecovery` two
timers are needed for a second try while the first is still armed; names of timers are
used again once nothing refers to them. In `RestartGate` all clocks stop at the point
beyond which they do not matter, so time is unbounded. In `CoreUpdate` four calls with
three releases let a call work on what three others, cut short anywhere, left behind,
among them the old `.previous` of an earlier release. In `PanelUpdate` three builds give
good, broken, good. The login instance reaches the capacity with a third name and the
address limit with two handlers at once. Two edits lead from each form to each other one,
and in between and at the end every form is read and saved as shown; in `SentForms` each
field comes filled and empty with every transport and security, but not each pair of
fields in all four ways. `AccountEditorProofs` needs neither bound. Three rules are the
least for which the furthest rule is not the one before. One cutover with its
`rollback.sh` and two disturbances give a failure in the undo of a failure; the second
host is what a killed cutover has left, so that a cutover on top of another is covered.

`MaxFaults` bounds failures, crashes and other managers together, `MaxDisturbances` those
of the migration; `MaxCalls`, `MaxRelease`, `MaxBuild`, `MaxEdits`, `MaxRules`,
`MaxCutovers`, `Horizon`, `MaxSent` and `Forms` bound what their names say. The two calls
of the gate are interchangeable (`CallSymmetry`): no property or constant tells them
apart.

`CHECK_DEADLOCK FALSE` is set where the system really may stop: in `FirewallRecovery` on
a port whose rules belong to others every request is refused; in the runs of `MCParts`
when the calls, edits or releases of a part are used up.

Fairness. `AccountPolicy`: `WF(Loop)`, because the ticker of `runtimeLoop` fires every
ten seconds for ever and a tick calls its three steps in a row, and `WF(Clock)`.
`FirewallRecovery`: `SF(Tick)`, because time passes however many requests come (weak
fairness would let an endless series of requests disable `Tick` again and again);
`WF` for each timer's worker, which systemd runs; `WF(Handler)`, because every context
has a deadline. Users, failures and crashes have no fairness. The other modules state
safety only: their operations are single calls, and whether a call ends depends on
systemd and the network, of which the code promises nothing beyond a deadline.

## 4. What is proved

Every safety property the passing runs check is a theorem, for every value of the
constants that satisfies the `ASSUME`s of the modules. TLC evaluates these on its
instances: `GateAssumption`, `ManagerAssumption`, `PolicyAssumption`,
`FirewallAssumption`, `UpdaterAssumption`, `SelfUpdateAssumption`, `EditorAssumption`
and `PageAssumption` in `Parts`, `LoginAssumption` in `LoginLimiter`,
`CutoverAssumption` in `TwoProcesses`, and those of the modules that are extended.
`CoreUpdateProofs` and `AccountEditorProofs` state theirs (`Bounds`,
`DocumentAssumption`) in each theorem that needs it, since these modules are used as
instances. What the assumptions say is that bounds are numbers, that special values are
not ordinary ones, that the first build of the panel works, that imported documents are
well formed, that what is typed in is a text that is not empty, and that the ordinary forms
sent are forms of its page (`FormAssumption`). Of times nothing is assumed.

The shape is the same everywhere: the types, an inductive invariant, one lemma per
action or group of actions, and temporal theorems that combine them. In `PartsProofs`
and `TwoProcessesProofs` each part has a lemma (`ApplyRuns`, `LoginRuns`, ...) that its
variables follow its own specification; a theorem about a part with a module of
proofs of its own is taken from there through that lemma.

- `XrayApplyProofs`. `IInv` adds to `OnlyTestedInstalled` that the bytes a call holds
  past the test, and the previous bytes it may put back, were tested (`Tested`), and
  what is in the file and in the process in each phase of an undisturbed call
  (`CleanInv`). Theorems: `TestedOnly`, `NoForeignConfig`, `SuccessMeansInstalled`,
  `RestoredMeansPrevious`, and `Implements`, the refinement, under the assumption
  `OneProcess` that `Procs` is a singleton, which `Parts` discharges.
- `AccountSyncProofs`. `IInv` adds the bookkeeping of lock and phases (`Book`) and, while
  nothing is upset, what the one request in progress has done so far (`Editing`,
  `Restoring`): without the phase `InSync` is not inductive, since half-way through
  the copies do differ. Theorems: `Agreement`, `ApiPortStaysFree`, `NothingOrEverything`.
- `AccountPolicyProofs`. `IInv` adds `OffInv`: an account the user switched off is not off
  *for its quota*, which is what keeps the monthly reset away from it. Theorems:
  `SingleCharge`, `ManualRespected`.
- `FirewallRecoveryProofs`. `AlwaysGuarded` says of each rule owed a recovery that some
  timer still has the command for it. It is kept because a handler's timer is whole and
  not due until it has switched its rules (`Armed`), and because the timer a
  confirmation stops touches only the rules of that change, in the record (`Recorded`)
  and in the handler (`Held`). Theorem: `AlwaysCovered`.
- `CoreUpdateProofs`. While no two calls have overlapped only the last one is under way,
  and its phase says where the core and the geodata it found have gone (`CorePlace`,
  `GeoPlace`, `MarkPlace`). Nothing about earlier calls is needed: what they left may be
  anything. Theorems: `CoreSurvives`, `LeftAsFound`, `MarkerTrue`.
- `AccountEditorProofs`. What each operation on documents does to each field
  (`FieldSet`, `HasTidy`, `FieldProxied`, ...), what the ordinary form leaves of each
  (`Updated`, `EmptiedIsEmpty`), then what each form reads from what it
  has written (`ExpertKeeps`, `AdvancedKeeps`, `OrdinaryKeeps`, `Sent`). The properties
  hold of every well-formed document, not only of those the forms can produce, so
  that `WellFormed` is the only invariant needed (`DocumentWell`), and the ordinary form
  needs none. Theorems: `ExpertAlways`, `AdvancedAlways`, `OrdinaryAlways`,
  `SentIsShown`, `NeverOutOfReach`.
- `PartsProofs` proves about four parts itself:
  - *Login.* A count may exceed its maximum, by the logins that were admitted before any of
    them had told the limiter. `Accounted` adds the logins under way to the count, which
    gives the bound; `Fits` is the bound on the number of entries, for finite sets of any
    size. Theorems: `StaysBounded`, `BlocksLast`.
  - *Gate.* The gate measures from restart to restart, systemd from start to start, and
    between the two lies a stop of any length. `Aged` relates the clocks: the first gated
    start of a window was judged for 1.2 seconds before the gate was free again, and from
    then on the spacing lies between the restarts, so that the n-th comes no earlier than
    1.2 + 3(n-2) seconds into the window and a fifth would be at 10.2 seconds, when the
    window is over. The spacing alone would not do: after a slow stop the second start may
    follow the first by little more than the 1.2 seconds. Theorems: `AtMostFour`,
    `LeavesHeadroom`.
  - *Panel.* At most one update is not over while `calm`, and where it stands says which
    build runs and what can be gone back to (`UpdatePlace`). Theorems: `AlwaysKept`,
    `ServesAtRest`.
  - *Page.* `Knows` is the loop invariant of the sweep: after k rules the end it keeps is
    the greatest so far and belongs to the rule it keeps, and the rules marked are those
    that meet another of the first k. `Learns` is one pass: a rule that meets any earlier
    one meets the furthest one, since the rules come in the order of their first ports,
    and any other rule it meets met the furthest one before. The induction over k is made
    by a least counterexample (`Counting`), and the recursive function of the loop is
    shown to exist the same way (`LoopExists`). Theorem: `MarksExactly`.
- `TwoProcessesProofs` takes the managers' theorems from `XrayApplyProofs`
  (`TestedBySomeone`, `NoneForeign`, `SuccessIsTrue`, `RestoredIsTrue`) and proves about
  three parts itself:
  - *Administrator.* `Written`: what a request that has read is going to write;
    `Halfway`: what the terminal has written of its pair; `Making`: a session about to be
    made is of an administrator that is there. Each is needed because a save is several
    steps. Theorems: `KeepsOneAdmin`, `StaysStartable`, `SessionsAreCurrent`.
  - *Restore.* From the backup on the snapshot is among the backups (`Kept`); while the
    panel works on no account, the step says what the database and Xray hold (`Placed`).
    Theorems: `NeverLost`, `RestoresWhole`, `RollsBackWhole`.
  - *Migration.* What a cutover noted is what it found (`Noted`), the copies are of what it
    found (`CopiedFirst`), only units that were enabled are disabled and only after the
    proof (`Enabling`), and the step of an undo says what has been put back (`Undone`).
    Theorems: `Recovers`, `UndoneIsAsBefore`.

Only model-checked: the liveness properties (`Enforced`, `ComesBack`, `Recovers` of
`FirewallRecovery`), which need fairness and `ENABLED`, out of the prover's reach. The
properties of the violated runs are false and have no theorem.

## 5. Disagreements with the documentation

Shown by runs (`findings` in `PROJECT.json`):

- `updateSettings` works with an account list read without `Accounts.mu` and may remove
  the inbound of an account created meanwhile (`AccountSyncRace`).
- The statistics reader keeps the API port of the start of the panel; after the port is
  changed nothing is charged until the next start (`AccountSyncStats`).
- A manually disabled account that is over its quota is relabelled *quota* and switched
  on by the next reset (`AccountPolicyManual`).
- A pause that is confirmed a second time, after a first confirmation that stopped the
  timer and then failed, loses X-port's copy of the rule (`FirewallRecoveryPause`).
- A removal that failed leaves its timer, which re-opens the rule although a second
  removal was confirmed (`FirewallRecoveryFinal`).
- The scheduled restart of a panel update fires a second after the firewall lock was
  released, and the one of the terminal never asks: a firewall change may be waiting
  for its confirmation (`PanelPending`).
- A path emptied in the ordinary editor together with a change of the transport is
  filled in from the old transport (`EditorClears`).

Met while modelling, without a run of their own:

- `RestoreSnapshot` says it rolled back (`internal/service/runtime.go:95`) although
  both halves of its rollback drop their errors; the model has them fail.
- `ApplyTraffic` compares months with `!=` (`runtime.go:38`) and with the time of the
  beginning of the tick: an account created after that in a new month goes back to the
  old month once, and is reset once more.
- `CancelFirewallRestore` takes a timer for active while its worker already runs
  (`internal/ops/firewall_rollback.go:64`): a confirmation may report success for a
  change that is being undone, unless `Verify` sees it.
- When `Verify` fails after the timer was stopped (`firewall_pending.go:150`), the record
  stays with no timer behind it, and nothing undoes the change at its deadline.
- The removal of an allowance checks only its own pending record, so that it can run
  beside a pending change of the drop rule of the same port.
- An update of the core that fails has already removed the `.previous` of the one
  before, so that `Rollback` (`internal/xray/rollback.go:22`) has nothing older to go to.
- The expert form drops `rawSettings` that are left empty, so that `tcpSettings` behind
  them count again; the advanced form of an account whose network is `raw` saves the header
  it reads from `tcpSettings` into new `rawSettings`, which hide the rest of them (the
  premises of `ExpertFaithful` and `AdvancedFaithful`).
- The expert form, saved as it is shown, drops blank short ids and server names next to
  others (`expert.go:475-489`), deletes an ALPN that is a single text or only blank
  (`197-201`), puts an older `dest` in the place of a target that is not a text (`322`,
  `162-164`), and turns an XHTTP field such as `xPaddingBytes` that is not a text into its
  text (`465-474`, `237-249`): the premise `Readable`.
- The ordinary form, saved as it is shown, keeps the first of several REALITY short ids
  and server names (`account.go:484-486`) and erases a target that is not a text
  (`482-483`): the premises of `OrdinaryFaithful`.
- A WebSocket host that is sent is written to `headers.Host` (`account.go:511-514`), while
  `wsSettings.host`, where there is one, is shown before it (`617`): `HidesHost`. An
  emptied server name, target, key or short id is filled in again from the document
  (`741-752`): what `ShownAsSent` says of them.
- An error of an account request or of the settings handler may come after everything has
  been saved and installed (`accounts.go:75-79`, `121-125`, `175-179`,
  `operations.go:353-356`); a client that tries again then meets its own change.
- A call of the gate that gives up after twelve seconds (`restart.go:29`) releases it at
  once, and a start that systemd makes for it later is not spaced from the next.
- Two core updates, rollbacks or geodata updates at the same time can lose the core.
- Two changes of the administrator's password at the same time: the settings form
  writes back the hash it has read (`operations.go:302`).
- The migration script copies X-port's files before it stops X-port: what the panel
  writes in between is not in the copy, and lost when the cutover is undone (`wrote`).
- `restore_xport_snapshot` runs under `set -e`: a file that cannot be copied ends the
  undo before the old units are restored (the report `stuck`).
- A reboot before `finalize_old_units` starts both panels. `rollback.sh` after a reboot
  does not stop old units the boot or a watchdog started (`woken`).

## 6. Not modelled, and why

- Parsing: the output of firewalld, ufw, nftables and iptables, `/proc`, the rows and the
  configuration of an X-Panel, and share links are conversions of text without state.
  Of the editors, credentials and the creation of a new document are left out. A unit
  that is `enabled-runtime` or `linked`, which the migration restores as permanently
  enabled, is left out too.
- Ports: the search for a free port walks its range once around and asks the operating
  system; what depends on it is in `AccountSync`.
- Import, download, listing and deletion of backup files are input and output; creation
  and restore are modelled.
- The terminal's menus, repair and uninstallation call modelled operations or
  `systemctl`.
- HTTP routing, cookies, TLS, rendering and static files, system information, unit
  templates and build scripts have no state that outlives a request.
- SQLite is taken to be transactional; the schema and its upgrades are left out.
- Downloads, checksums and archives of releases are one choice: verified or not.
