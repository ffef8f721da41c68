# TLA+ for docpreview

docpreview is a daemon that builds the documentation of a pull request and serves
the result as a preview. It is one process: webhooks and dashboard buttons ask for
builds, a pool of workers takes them from a table in sqlite, a pipeline clones and
builds, an exposer (zrok, frontdoor, ziti, or a local listener) makes the site
reachable under a name, and the platform (GitHub, Bitbucket) is told in one comment
per pull request. This directory models the parts of it where order matters, checks
the models with TLC, and proves the central results with TLAPS.

## 1. Inventory

State, operations and hazards of each part; the line-by-line list of hazards is
`PROJECT.json`, `hazards`.

| Part | Source | State | Operations | What makes it correct |
|---|---|---|---|---|
| Build lifecycle | `internal/daemon/daemon.go`, `internal/store/store.go` | the `jobs` and `previews` tables, `d.running`, `d.live`, `d.commit` | `handleBuild`, `worker`/`build`/`runPipeline`, `teardown`, `CancelBuild`, `UnlinkPreview`, `LinkPR` | one commit at a time per preview; a superseded build changes nothing; table and publication agree; nobody waits for ever |
| Reports | `daemon.go` (`report`, `staleReport`), `publisher.go` | `d.reported`, the pending report and its timer | report, flush, Close | the last word is written; no state goes backwards |
| Comment | `scm/github/github.go` (`scm/bitbucket` has the same protocol) | remembered comment ids, the platform's comments | Publish, Retract | one comment per pull request; none after a teardown |
| Recovery and reaping | `daemon.go` (`recover`, `publishOrAdopt`, `republish`, `reaper`, `backfill*`), `store.go` | rows, build rows, artifacts, shares, names | startup, hourly sweep | what is recorded comes back after a crash; what is not is reclaimed; nothing live is reclaimed |
| zrok exposer | `expose/zrok.go`, `zrokenv.go` | `z.live`, controller shares and names | Publish, Adopt, Reap, ReleaseName, withdraw | no share is lost track of; a name serves one preview |
| Share gate | `expose/sharegate.go` | the state file under its lock file, a FIFO of callers | take, record, leave | the account's limit is respected; nobody is starved |
| Build log | `buildlog/` | current writers, subscribers, files | Begin, Write, Finish, Subscribe, Sweep | a reader sees each line once and in order; a slow reader is dropped |
| frontdoor, ziti, local exposers | `expose/frontdoor.go`, `ziti.go`, `local.go` | the live map, controller objects | Publish, Adopt, Reap | as zrok |
| Exposer settings and zrok enrolment | `expose/zrokenv.go`, `daemon/zrokadmin.go`, `cmd/docpreview/zrok.go` | the settings table, two zrok directories, the library's root | use, enable, disable, register, set the exposer; the start that reads them | a start publishes from the account of the last one; disable touches this installation only |
| Ziti provisioning | `zitiadmin/provision.go` | objects on the controller, an identity file, a token | configure ziti | a run that ends well leaves a setup that works |
| Platform clients | `scm/github`, `scm/bitbucket` | remembered ids, tokens | Publish, Retract, ChangedFiles, retries | nothing is posted twice |
| Naming and project settings | `expose/expose.go`, `model/model.go`, `daemon.go` (`applyProject`, `resolveProject`, `confineToDriver`) | none (pure) | render, sanitize, key, resolve | two previews never render to one key unnoticed; a project cannot leave its driver |
| Pipeline | `pipeline/` | workspace | clone, detect, build | the plan follows the changed files |
| Webhooks and ingress | `scm/*/webhook.go`, `daemon/ingress.go`, `listen.go` | deliveries, listeners | verify, dispatch | only authentic deliveries act |
| Login and OAuth | `daemon/login.go`, `oauth.go` | none: signed tokens with an expiry | begin, callback, check | an expired or altered token is refused |
| Vault, secrets | `vault/`, `daemon/secrets.go`, `redact/` | the sealed file, keys | open, put, rotate | a secret is never half written |
| Event stream | `daemon/stream.go`, `events.go` | ring of events, subscribers | publish, replay | no gap between replay and live |
| Dashboard, admin pages, CLI | `daemon/console.go`, `projects.go`, `cmd/docpreview` | none of their own | read and call the parts above | out of scope: presentation |

How they interact: a delivery calls `Handle`, which calls `handleBuild` or
`teardown`; these and the workers share the two tables and, under `d.mu`, the maps
`running`, `live`, `liveBuilds`, `commit` and `reported`. A commit calls the exposer,
and every state change calls `report`, which hands a snapshot to the publisher,
whose timers call the platform's client. At startup `recover` rebuilds `live` from
the tables; once an hour the reaper compares the tables with the exposer's objects.

## 2. Modules

| Module | Models | Checked by | Proved in |
|---|---|---|---|
| `Daemon` | the build lifecycle between two restarts | `MCDaemon` | `DaemonProofs` |
| `Reports` | lifecycle guard, debouncer, teardown and shutdown | `MCHandover` | `HandoverProofs` |
| `Comment` | the single-comment protocol of the GitHub client | `MCParts` | `PlatformProofs` |
| `ZrokNames` | reserved names of one preview on the zrok controller | `MCParts` | `PublishingProofs` |
| `Exposers` | the frontdoor, local and ziti exposers | `MCParts` | `PublishingProofs` |
| `ShareGate` | the machine-wide budget of share creations | `MCGate` | `ShareGateProofs` |
| `Intake` | deliveries, project rows, unlink and link, the scans of a start | `MCParts` | `PlatformProofs` |
| `Pipeline` | builds of one preview: workspace, container, log and row | `MCParts`, `MCPipe` | `PublishingProofs` |
| `Platform` | the requests of both platform clients and what is tried again | `MCParts` | `PlatformProofs` |
| `Provision` | `configure ziti`: objects on the controller and files on disk | `MCParts` | `OperatorProofs` |
| `Recovery` | rows, artifacts and shares across crashes, sweeps and teardowns | `MCHandover`, `MCRecovery` | `HandoverProofs` |
| `Setup` | the exposer's settings, the two zrok directories, the start that reads them | `MCParts`, `MCSetup` | `OperatorProofs` |
| `BuildLog` | the logs of one preview, their tails and the sweep | `MCBL`, `MCStream` | `StreamProofs` |
| `Dashboard` | startup, the event ring, the status stream | `MCStream` | `StreamProofs` |
| `RecentEvents` | what the activity feed promises; `Dashboard` implements it | `MCStream` | `StreamProofs` |
| `Vault` | the sealed file of secrets, its key, and everybody who replaces it | `MCParts` | `OperatorProofs` |

Modules that share no state are checked together: `MCParts` EXTENDS nine of them,
`MCHandover` and `MCStream` two each. A variable `part`, chosen at the start and never
changed, says which one moves, while the others stay in their initial state. The runs
explore each part in full, and say nothing about parts acting at once, because in the code
there is nothing for them to act on together.

### Daemon

One action is one step another goroutine can observe: an SQL statement, a critical
section of `d.mu`, a lock operation, a publish. The goroutines are processes with a
program counter: `Workers` (`wpc`), `Hooks` in `handleBuild` (`hpc`), `Closers` in
`teardown` (`tpc`) and `Cancellers` in `CancelBuild` (`xpc`).

| Variable | Code |
|---|---|
| `jobs`, `now` | table `jobs` (one row per preview) and the clock of `enqueued_at` |
| `row` | table `previews`: state and the request it records |
| `running`, `live` | `d.running` (the worker whose `*build` is registered), `d.live` |
| `epoch`, `held` | `d.commit`: which mutex the map hands out, and which are locked. `teardown` deletes the map's entry, so the next caller makes a new mutex: `epoch + 1` |
| `ignored` | table of unlinked pull requests |
| `wcut` | the build's context is cancelled |
| `turn`, `wturn`, `served` | history only: order of registration, and whose turn is served |

Clone, detection and build between registration and the commit phase are one step,
`Build`, with the four ways it can end. The build share and the pruning of old
artifacts that close the commit phase are inside `SaveRow`, which keeps the lock for
them; their own state is in `Recovery`. A `DELETE` of teardown that sqlite
refuses is reported to the caller and not modelled.

Fairness: a goroutine that can run does (WF of each worker, handler, teardown and
cancel step). `sync.Mutex` hands the lock to a waiter of more than a millisecond, so
acquiring the commit mutex is strongly fair. No delivery, close or cancel is owed.

### Reports and Comment

`Reports` keeps, per goroutine, the report between `staleReport` and
`publisher.send` (`out`), the debouncer's entry and its timer (`pending`), the writes
under way (`fl`), and those of them that were there before `Close` (`old`). Ready, failed and skipped are one state, since only their
rank matters here. What a write does on the platform is one step in `Reports` and is
taken apart in `Comment`: look at the remembered id, search the listing (which lags),
edit or post, remember. `Comment` assumes a refused request has been retried, and a
restart has taken, longer than the listing lags, and that a POST whose answer was lost
was not carried out.

### ZrokNames

A name on the controller is `reserved`, `spare` (de-reserved: it goes with its share) or not
there (`reg`), and `bound` to the share that holds it. Everything runs under the preview's
commit lock, so one step is under way at a time (`at`): the calls of `Publish` (`ensureName`,
create, `reapName` and the second create, listen), or those of a retirement or teardown, where
`releasing` is the list `releaseNames` works through. A call may be retried, on the schedule of
the error in hand, and a create that timed out may have happened. `refused` and `unnamed` are
the two ways a name is left to the operator: the controller refused to release it, or a
publication failed before any row recorded it. A restart drops what is in memory, reaps the
shares no row names and adopts the rest.

### Exposers

`kind` is chosen at the start. `live` is the exposer's own map and `holds` what the daemon
keeps; an entry is a number, so that "still the live one" can be asked. Frontdoor publishes in
four steps, `local` and `ziti` in one critical section. A create that times out may leave a
share of its own (`lost`), a deletion may be refused. `excused` lists the entries a
publication withdrew before it failed, that a newer build took the name from, or that were not
recorded when a sweep read its keep-set; `HeldIsServed` is about the others.

### ShareGate

`queue` is the FIFO of each process, `gpc` the place of a caller in `CreateShare` (`wait`,
`take`, the creation itself, `record`), `budget` the state file and `lock` the lock file,
which keeps the name of the caller that holds it. `g.changed`, the channel every change of
the queue closes and replaces, is `hot`: the callers whose captured channel is closed. A
file older than `staleLock` is one whose holder was killed (`dead`): `lock` looks at it
and removes it in two steps, and `raced` remembers that the second step removed a living
caller's file. Instants are ticks left, so that the states of one window and the next
are the same. Fairness: a goroutine that can run does, the clock moves, and a lock that is
free again and again is obtained (the retry loop of `lock`); giving up is never owed.

### Intake

One repository with pull requests, some from a fork, and the preview of its default branch.
`opened` is the platform; `inbox` the deliveries answered with 202, each in its goroutine;
`checked` the `handleBuild` calls between the ignore check and the enqueue; `asked` a job or a
build; `outcome` the rows. The scan of a start (`spc`) reads the rows, lists the open pull
requests, asks for what is missing and takes down what is closed. `calm` says that nobody but
the scan has done anything since it began, which is when its result can be judged; `raced` that
an unlink met a handler already past its check, or a process that stopped before the teardown.

### Pipeline

The builds of one preview with the directories they work in. `tree` names the build that made a
commit's directory, `output` the builds whose output is in it: a build writes into the directory
of its commit, whoever made it. Each step of `runPipeline` that can fail is one with that
choice. `Supersede` unregisters and cancels and waits for nobody, so a build that was overtaken
is still on its way through clone, container and cleanup. The container's deferred removal has
a context of its own; docker may refuse it (`kept`) or may have made a container whose id never
arrived (`lost`). `SiteIsOfItsCommit` holds although `OwnWorkspace` does not: what a build finds
in a shared directory is of the same commit.

### Platform

One call at a time (`ask`), as its sequence of requests: for a report the remembered comment
or the search, the edit or the post, then the check run or the build status; for the changed
files page after page. `Takes` is what a request does at the platform, and is part of the
request that succeeds, of one that answers 5xx and of one whose connection broke. `Repeats5xx`
is where the two clients differ. A GitHub token is minted when there is none, and once more
after a 401; a Bitbucket credential is looked up for each request. The page limit, 30, is 2.

### Provision

`task` walks through `Plan`, one call to the controller at a time, then through the host
identity (create, enroll, write) and the reviewer. `idFile` says whose identity is in the
file of each directory, `enrolled` whose one-time token has been used. `TaskFails` is a call
that failed or a process that was killed; what was made stays.

### Recovery

One preview with its builds, identified by the order they began. Keys are the preview
itself (`Site`) and its builds; a build's share is named for its commit, so a Rebuild
contends with its predecessor for one name, as in the code.

| Variable | Code |
|---|---|
| `dirs`, `row`, `urls` | artifact directories; the preview's row; the builds whose row has a URL. All survive a crash |
| `share` | the zrok controller: whose share is bound to each name. Survives a crash |
| `zlive` | `z.live`, and what each listener serves; `d.live` and `d.liveBuilds` follow it |
| `pub` | where `Publish` or `Adopt` of each key is: withdraw, create, listen |
| `up`, `adoptable`, `keep` | the stages of `recover`, `d.adoptable`, and the keep-set of `recover` or a sweep |
| `bpc`, `tpc`, `rpc` | the commit phase, `teardown` and the reaper's sweep |

The commit lock is `Unlocked`: commit phases and teardowns of a preview exclude one
another here, which `Daemon` checks and `DaemonProofs` proves (for one teardown at a
time). Every call to the controller may fail. A clean shutdown leaves the same state as
a crash between two commits, so `Crash` stands for both. Left out: the reservation of
names (in `ZrokNames`), a base URL that changes between builds, a statement of sqlite
that fails inside `recover`, and `BuildShares` switched off.

### Setup

`envOf` is what each of the two zrok directories holds, `issued` what the service still has.
`boot` is the start: read the stored choice, then adopt it, guess, record a guess that leaves
no doubt, and build the exposer, which may refuse. `looker` is the inspection that has the
library's global on another directory, and `Loads` what a request finds there. An enrolment is
four steps, a disable three. `lastRoot` and `chosen` remember what the last start used and
whether somebody has chosen since.

### BuildLog

`wpos` is the life of each build's writer, `liveLog` the entry of `Store.live`. A line is its
number, so that a file is the count of lines in it (`stored`) and a gap is a missing number;
the line that `Writer` holds back in `partial` is `heldBack`. A tail is its channel
(`tailChan`) and whether it is registered with the writer (`subscribed`). `Begin` is two steps,
since the file is there before the writer is registered; `Sweep` is three. `Leave` is the
return of a superseded or cancelled build, which does not `Finish`. A file whose directory was
removed is written on and no longer found (`onDisk`). Fairness: a build ends in its timeout at
the latest, and the stream's loop runs.

### Dashboard and RecentEvents

`boot` walks through `Run` up to the workers; the listeners serve before it (`Serve`). The ring
is kept as the code keeps it (`ring`, `next`, `full`) and read by `Recent`; `FeedIsRecent` maps
it to the sequence `RecentEvents` keeps. `Status` reads rows, queue, running builds, flag and
stage one after another into `payload`, and `Send` is the comparison with the last payload. One
preview stands for all. Fairness: startup, a build and the ticker each go on.

`MCStream` composes the two modules by running one or the other: `part` is chosen at the start.
They share no state in the code either.

### Vault

`sealed` is `vault.age` as the key it opens with and the names in it, and `Install` the
rename that replaces it. `vaults` are the vaults the daemon has opened: an unlock makes a
new one and swaps the pointer (`daemon`), so a request may go on with the one before. A
request (`req`) changes memory, takes a snapshot, renames, does the last two once more and
answers; a command (`cmd`) has a copy of its own. `keysKnown` are the keys a person has,
`keyFile` what the key source reads. `overtaken` are the secrets that a rename of an older
snapshot dropped: the code merges nothing, and `SecretsAreReadable` is about the others.

## 3. Runs

| Run | Expected | Properties | Shows |
|---|---|---|---|
| `daemon` | pass | `TypeOK`, `CommitExclusion`, `ReadyRowIsLive`, `PublishOrder`, `HandleKept` | Every interleaving of two workers with one webhook handler, one teardown and one cancellation of a preview, up to three builds: one commit at a time, published in the order the builds registered, the row and the publication in step, and no cancel handle lost. |
| `daemon_live` | pass | `BuildsFinish`, `TeardownReturns` | With fair goroutines and a fair mutex every build lets its worker go and every teardown returns, whichever step failed. |
| `newest_wins` | violation | `NewestWins` | Two workers between claim and registration swap, and the older push is published over the newer. |
| `own_job` | violation | `OwnJobSurvives` | The handler cancels the build of the very job it queued. |
| `gate` | pass | `GateTypeOK`, `BudgetKept`, `QuietIsKept`, `EveryoneIsServed` | Two goroutines of the daemon and a tunnel process share one budget through the state file and its lock, with a kill at any step: no more shares go through than the budget allows, a quiet period is kept, and every caller is let through or gives up. |
| `parts` | pass | `PartsTypeOK`, `ScanRepairs`, `UnlinkedStaysGone`, `SiteIsOfItsCommit`, `NothingLeftRunning`, `OneComment`, `ScanSparesOpen`, `ServedHoldsName`, `NamesGivenBack`, `HeldIsServed`, `BranchNameStays`, `SecretsAreReadable`, `DoneIsUsable`, `NothingTwice`, `AccountKept` | Parts that share no state, one at a time: what is asked to be built and what a start repairs (Intake), builds of one preview side by side (Pipeline), the single comment (Comment), the names of a preview on the zrok controller (ZrokNames), what the other exposers serve (Exposers), the sealed secrets (Vault), `configure ziti` (Provision), the requests of the platform clients (Platform), and which zrok account a start uses (Setup). |
| `own_workspace` | violation | `OwnWorkspace` | Two builds of one commit, a Rebuild while it builds, work in one directory, and the clone of an overtaken build prunes the directory of its successor. |
| `recovery` | pass | `TypeOK`, `RestoredIsServed`, `RestoredUrlsAnswer`, `ServedHasArtifacts`, `SweepSparesSettled`, `ReportsTypeOK`, `NewestKept`, `ClosedIsDrained` | Either Recovery: three builds of two commits, two crashes at any step, a sweep and a teardown; what recover restores is what the tables record, is answered, and has its artifacts, and no sweep takes a share that was live when it began. Or Reports: two builds of one preview, with Cancel, a teardown and a shutdown; the debouncer never drops the newest report or leaves it without a timer, and Close leaves none half written. |
| `sweep_takes_live` | violation | `ReadyRowIsServed` | The hourly sweep lists the share of a first publish before that publish is live or recorded, and deletes it after both. |
| `machine_env` | violation | `DisableSparesMachine` | A disable that is loading its environment while a status request inspects the machine's: the library's root is a global of the process, and the machine's environment is the one removed. |
| `stream` | pass | `StreamTypeOK`, `TailHasNoGap`, `ClosedLogIsWhole`, `FeedIsRecent`, `TailEnds`, `PageCatchesUp` | What a browser follows: a tail of a build log has no gap and ends with its build, a closed log is whole, the activity feed is the newest events across restarts, and an open page ends up showing how things are. |
| `log_left_open` | violation | `LogsEnd` | A build that is cancelled or superseded returns without Finish, and when no newer build begins its log stays the live one, open, for ever. |

`CHECK_DEADLOCK` is off where the bounds let a model come to rest with nothing left to
ask for. The bounds, where they are not plain from the run's `.cfg`:

| Run | Bounds | Why they are enough |
|---|---|---|
| `daemon` | 1 preview, 2 workers, 1 handler, 1 teardown, 1 canceller, 3 requests | a build being superseded, its successor and a third delivery; previews share only the worker pool and the order of the queue |
| `daemon_live` | 2 workers, 1 handler, 1 teardown, 2 builds | two builds and a teardown contend for one mutex |
| `recovery` (Reports) | 2 requests of 1 or 2 commits, 1 timer goroutine beside Close's, 1 teardown | a report, its replacement and a flush between them |
| `gate` | 3 callers in 2 processes, a budget of 2 in a window of 2 ticks, 4 shares, 1 kill | one waiter behind another, a full window, two refusals in a row, and the lock left by a killed process |
| `parts` | Intake: 2 pull requests of the repository, 1 of a fork, 4 things that happen; Pipeline: 2 builds of 1 or 2 commits; Comment: 2 goroutines, 4 comments | a close missed while down, with a push before it; a cancelled build beside its successor, of the same commit or another; a comment deleted, lost from memory and replaced three times |
| `parts` (Platform) | 3 calls about 2 commits, 2 troubles, 3 pages | an answer lost after its effect, then the same report, then a retraction; a token that dies while a request is repeated |
| `parts` (Provision) | 3 runs, 2 domains, 2 directories, 1 role, 4 identities | a run that stops anywhere, one for another directory, and the first again |
| `recovery` (Recovery) | 3 builds of 2 commits, keep 2, 2 crashes, 1 sweep | a Rebuild, its predecessor and a newer commit; a crash during the recovery from a crash; pruning with something left to keep |
| `parts` (Setup) | 1 request, 1 command, 2 environments, 3 operations, 1 failed write | enrol, disable and choose between two starts; `machine_env` has 4 |
| `stream` | one viewer, 2 builds of 2 lines, a channel and backlog of 1; 1 restore, a ring of 2, 3 builds, 2 starts | a slow viewer, a replaced writer, a sweep beside both; a ring that wraps, a restart with more builds than it holds |
| `parts` (Vault) | 2 secrets, 2 keys, 2 requests, 4 operations, 1 stop | a rekey cut off at each of its steps after a secret was stored; a request that began before an unlock |

Runs that end in a violation show a sentence of the documentation the code does not
keep; `findings` quotes it beside the run.

## 4. Proofs

`DaemonProofs` proves, for any sets of previews, workers and callers and from
`DaemonAssumption` alone:

- `TypeCorrect`: `Spec => []TypeOK`.
- `CommitsExclude`: `Spec /\ []OneTeardown => []CommitExclusion`. `CommitExclusion` is
  not inductive: it needs to know that whoever is in a critical section holds a mutex
  nobody else holds (`LockInv`) and that a current build that fetched its mutex has the
  one the map hands out now (`EpochInv`); a build with an older mutex is stopped by the
  currency check, because the teardown that made its mutex old also deregistered it.
  The condition `OneTeardown` is necessary: each of two teardowns of one preview deletes
  the entry of `d.commit`, so three mutexes for the preview are in use, and two builds on
  either side of them commit at once (TLC finds it with two `Closers`).
- `PublishesInOrder`: the same condition gives `PublishOrder`, from `TurnInv`: turns are
  distinct, the registered build has the newest, and a build past its check is newer
  than what is served.
- `RowsAgree`: and `ReadyRowIsLive`.
- `HandleStays`: `Spec => HandleKept`, without that condition.

The Recovery part of `HandoverProofs` proves, for any commits, retention and numbers of builds, crashes and
sweeps and from `RecoveryAssumption` alone, `TypeCorrect`, `ServedOnDisk`
(`ServedHasArtifacts`), `RestoredServes` (`RestoredIsServed`) and `SweepSpares`
(`SweepSparesSettled`). None is inductive, and one invariant, `RecoveryInv`, carries all of them:

- `Phases`: which publication can be under way in which phase of the process.
- `Sources`: what is being published has its directory, from the moment recover chooses
  it or the build moves it into place.
- `Serving`: a build's key serves that build only, and the preview's own key the build
  being committed, so withdrawing a pruned build's share leaves nobody serving it.
- `Restoring`: a ready row has its directory from `Load` on, its share from the end of
  its publication, and no restore of a build takes that away.
- `Sparing`: what a sweep dooms was not live at its listing. Shares made under a doomed
  name are new ones.

Last, `UrlsAnswer` (`RestoredUrlsAnswer`), about restores that run side by side, each
withdrawing whoever listens under its name. A share is bound to its own name (`OwnNames`),
so a restore disturbs no other commit; and a commit with a recorded URL either has a restore
under way, or one that failed, or answers (`Restored`): only the restore that withdraws its
predecessor makes the name unanswered, and that one is then the restore under way.

The Reports part of `HandoverProofs` proves `ReportsTyped`, `NewestSurvives` (`NewestKept`) and `CloseDrains`
(`ClosedIsDrained`) from `ReportsAssumption`. The invariant adds what neither property
says: once `Close` has begun nothing waits any more (`NothingHeld`), and the writes counted
as old are those still under way (`OldWrite`).

`ShareGateProofs` proves `GateTypeCorrect` (`GateTypeOK`), `RefusalStands` (`QuietIsKept`)
and `BudgetIsKept` (`BudgetKept`), for any processes, callers, budget and window. The argument is the exclusion the lock file gives
(`Exclusive`): until a takeover removes a living caller's file, whoever is between the
read and the write of the budget holds the lock and has read what is in it still, through
kills, takeovers and time. `Charged` relates the shares of a tick to the window they were
charged to, and `Budgeted` those of a whole window's length: the shares since the first of
the open window are charged to it, and of the window before at most `Limit - 1` are left in
sight, because the share that opened it was as old as a window when it closed. A share is a
cell, its age and its number in its tick, so that a set can be counted, and time moves the
cells one age on (an injection, so the count only falls). A caller that leaves the queue of
its process takes the first of its places (`QueuesTyped`).

`StreamProofs` is about `MCStream`, so about the logs and the dashboard side by side.
`RingIsFeed` is the refinement `DashSpec => FeedIsRecent`, for any size of the ring: each step
of `Dashboard` is a step of `RecentEvents` or leaves the feed alone (`FeedStep`), and the
arithmetic is in two lemmas, `WalkShape` (the i-th newest event lies i slots back from `next`,
around the end if need be) and `AddFeeds` (a write puts the new event first and moves every
other one place). `TailWhole` (`TailHasNoGap`) and `ClosedWhole` (`ClosedLogIsWhole`) follow
from `LogInv`. It says of the files what no property does (`FilesOK`: a line that is held back
still fits, a file that can be written has every line emitted, a closed one holds nothing
back), and of each viewer where it can be (`Placed`) and what its channel is, from the line
it was given last (`ShownWhole`). The channel is a sequence, so the lemmas before are about
`Append`, `Tail` and consecutive numbers. `StreamTyped` is the run's type invariant.

`OperatorProofs` proves `KeepsAccount` (`AccountKept`), an action property, from two facts: as
long as nobody chose since the last start, the setting names what that start used
(`SetupRemembered`), and a start under way has read what is stored (`ReadIsStored`).

`UsableWhenDone` (`DoneIsUsable`) is for one reader role (`OneRole`): a role that changes
between runs is not covered because the code reuses a policy that exists as it is. `PInv`
says what each place in the plan has already ensured (`Ensured`), and follows the host
identity from its making to its file (`HostReady`) and the reviewer to its token
(`ReviewerReady`).

`SecretsStayReadable` (`SecretsAreReadable`) needs an invariant of three parties: what the
daemon has in memory is under a key somebody has, and a daemon that is down has nothing
(`InMemory`); a request that stores a secret has it in memory and in its snapshot
(`RequestsHold`); a rekey runs while the daemon is down, re-encrypts what is there, and has
made its copy before it does (`CommandHolds`). Of the file it says that it opens or its copy
does (`Readable`) and that it has what was stored and not overtaken (`InPlace`). It assumes
that "none" is no key (`VaultAssumption`).

`PlatformProofs` proves `OnlyComment`: `~Overlap` gives `CommentSpec => []OneComment`, for
any number of posters and posts. `OneComment` says nothing of the next POST, so the
invariant follows each call through its steps: a POST is reached only with no comment
there (`PublishHolds`), the remembered comment is the only one, and one that nobody
remembers is listed (`Remembered`), which is what lets the search after a restart find
it. `Solo` is where `~Overlap` is used; with overlapping calls two searches
both find nothing.

`OnceIsEnough` (`NothingTwice`) is about the requests one at a time and what is tried again.
`NotesKept` says that a request to create a comment is out only when none is there and none is
remembered, and that an edit or a deletion is of the one that is; `ChecksKept` the same of
check runs and statuses. A search looks at one page after another, so the step from "not
on this page" to "create" is where the proof needs that the pages before had nothing.

`ScanMakesUp` (`ScanRepairs`), `UnlinkHolds` (`UnlinkedStaysGone`) and `ScanSpares`
(`ScanSparesOpen`) share one invariant. `NeverPast`: no handler that read the unlinked set
before the unlink is still to act, unless `raced`. `ScanSoFar` is the loop invariant of the
scan: at each place it says what of the listing has been queued, is being built or is
unlinked, and which rows are still to be torn down; it is claimed for a `calm` scan only,
one no delivery or operator came between. `NoForks` is used in both.

`PublishingProofs` proves `SiteOfCommit` (`SiteIsOfItsCommit`) and `NothingLeft`
(`NothingLeftRunning`). `OutputInPlace`: whatever is in a commit's directory was built from that
commit, so it does not matter whose output a build commits; `BoxByStep`: which steps a
container and an environment file live through.

`ServedStaysBound` (`ServedHoldsName`), `NamesReturned` (`NamesGivenBack`) and `BranchUrlStable`
(`BranchNameStays`) are about the names on the zrok controller. `OneServer`: a share is bound to
one name and no two keys serve one name, so unsharing a share takes no other's. `Accounted`:
every name is settled (gone, going with its share, refused, never recorded) or some row
still names it, and a retirement or teardown clears its rows only when what they name is
settled. `Releases`: a retirement releases its own build's name and no other.

`HeldStaysServed` (`HeldIsServed`) is about the other exposers. What is live is held and what
is held is live (`LiveHeld`, `HeldLive`), but for the one key whose new entry is made and not
yet handed to the daemon (`Replacing`), and but for the entries in `excused`. `KeyedByEntry`
is why closing a replaced publication late cannot take its replacement: an entry is live
under its own key only. `AloneInName` gives the name one live entry, `LiveReachable` that
entry its port and share, and `LiveSpared` says that no sweep has doomed the share of an
entry that is live, from the moment it compares its listing. The proof found an assumption the
module had not stated: there is a key to publish (`PubKeys # {}`).

`PartsProofs` puts the nine parts of `MCParts` side by side: each moves by its own steps or
not at all (`PartsMove`), so the type theorems of the parts (`IntakeTypeCorrect`,
`PipelineTyped`, `CommentTypeCorrect`, `NamesTypeCorrect`, `ExposersTypeCorrect`,
`VaultTypeCorrect`, `ProvisionTypeCorrect`, `PlatformTypeCorrect`, `SetupTypeCorrect`) give
`PartsTypeCorrect` (`PartsTypeOK`).

Every invariant and action property of a passing run is stated by one of these theorems, some
under a condition named above (`OneTeardown`, `~Overlap`, one reader role). What is left to TLC
is liveness: `BuildsFinish`, `TeardownReturns`, `EveryoneIsServed`, `TailEnds`, `PageCatchesUp`.

Liveness is checked by TLC only: fairness and ENABLED are outside the proof system's
reach here.

## 5. What is not modelled

- Pipeline (partly): runPipeline with clone, plan, container, checks and commit, for builds that overlap. Detection, base URL inference and the docker probe are functions of their input and left out, as is the clearing of caches.
- Platform clients (partly): The calls Publish, Retract and ChangedFiles of both clients over the transport that repeats some of what fails, with tokens and credentials. Overlapping writes and a listing that lags are in Comment, the listing of open pull requests in Intake; CheckRepo and Validate only read, and are left out.
- Recovery and reaping (partly): recover, publishOrAdopt, restoreBuildShares, the commit phase with pruning, teardown and the sweep of shares. The scans for missed pull requests are in Intake and the log sweep in BuildLog; TTL expiry is not modelled.
- Naming and settings (not modelled): Pure functions; they keep no state and their tests tabulate them; a model would restate them.
- Login and OAuth (not modelled): Signed tokens with an expiry and no server state; they are functions of the request and the clock, and signatures are taken for valid.
- Dashboard and CLI (not modelled): Presentation over the parts above.

## 6. Plan

Done: see the table of section 2. Left, in order:

1. `Serving`: what a reader of the preview is promised, implemented by `Daemon` with `Recovery`.
2. Shutdown of `Run`, and the reaper's loop with the expiry of previews.
3. Overlapping calls and a lagging listing in `Platform`, which would replace `Comment`.
4. A run of its own for each hazard that `Platform`, `Vault`, `Setup` and `Reports` reach and no
   property is about yet: a repeated Bitbucket post, two saves in the other order, a recorded
   exposer the next start refuses, a report written after the comment was retracted.
