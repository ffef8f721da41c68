------------------------------- MODULE Daemon -------------------------------
(***************************************************************************)
(* The build lifecycle of one docpreview daemon between two restarts: the  *)
(* webhook handlers that ask for builds, the jobs table, the worker pool,  *)
(* the per-preview commit lock, teardown and the dashboard's Cancel.       *)
(* Every action is one step another goroutine can observe: a statement of  *)
(* SQL, a critical section of d.mu, a lock operation, a publish.           *)
(***************************************************************************)
EXTENDS Naturals

CONSTANTS
  Previews,    (* preview ids                                              *)
  Workers,     (* the worker goroutines (cfg.Workers of them)              *)
  Hooks,       (* goroutines in handleBuild: deliveries, Rebuild, Link     *)
  Closers,     (* goroutines in teardown: PR closed, Unlink, the reaper    *)
  Cancellers,  (* goroutines in CancelBuild                                *)
  None,        (* no worker                                                *)
  MaxAsks,     (* bound: builds asked for per preview                      *)
  MaxTeardowns (* bound: teardowns per preview                             *)

ASSUME DaemonAssumption ==
  /\ Previews # {}
  /\ None \notin Workers
  /\ MaxAsks \in Nat
  /\ MaxTeardowns \in Nat

VARIABLES
  jobs,    \* the jobs table: [req, at] per preview, req = 0 when it has no row
  now,     \* the clock enqueued_at is read from
  asked,   \* number of builds asked for; a request is known by its number
  ignored, \* unlinked pull requests
  running, \* d.running: the worker whose build is registered, or None
  epoch,   \* which mutex d.commit holds; teardown's delete moves to the next
  held,    \* the commit mutexes that are locked, as <<preview, epoch>>
  live,    \* d.live: the request being served, 0 when nothing is
  row,     \* the previews table: [st, req]
  turn,    \* history: builds registered so far
  served,  \* history: turn of the build last published
  wpc, wjob, wcut, wlock, wturn, \* worker: step, job, ctx cancelled, mutex, turn
  hpc, hjob,                     \* handler: step, job
  tpc, tpv, tlock,               \* teardown: step, preview, mutex
  xpc, xpv, xturn                \* cancel: step, preview, turn of the build

qVars == <<jobs, now>>
pubVars == <<live, row, served>>
wVars == <<wpc, wjob, wcut, wlock, wturn>>
hVars == <<hpc, hjob, asked>>
tVars == <<tpc, tpv, tlock, epoch>>
xVars == <<xpc, xpv, xturn>>
vars == <<jobs, now, asked, ignored, running, epoch, held, live, row, turn,
          served, wpc, wjob, wcut, wlock, wturn, hpc, hjob, tpc, tpv, tlock,
          xpc, xpv, xturn>>

NoRow == [st |-> "none", req |-> 0]
NoRequest == [pv |-> CHOOSE p \in Previews : TRUE, req |-> 0]

Queued(p) == jobs[p].req # 0
HasRow(p) == row[p].st # "none"
WP(w) == wjob[w].pv
WLock(w) == <<WP(w), wlock[w]>>
TLock(c) == <<tpv[c], tlock[c]>>

\* Worker w holds its preview's commit mutex.
Holds(w) == wpc[w] \in {"locked", "publishing", "saving"}
\* ... and has passed the currency check: the writes nobody may interleave with.
InCommit(w) == wpc[w] \in {"publishing", "saving"}
\* Teardown c holds its preview's commit mutex.
Closing(c) == tpc[c] \in {"locked", "taken", "emptied"}
\* build() has registered w's build and has not run its deferred cleanup.
Active(w) == wpc[w] \notin {"idle", "claimed"}

Init ==
  /\ jobs = [p \in Previews |-> [req |-> 0, at |-> 0]]
  /\ now = 0
  /\ asked = [p \in Previews |-> 0]
  /\ ignored = {}
  /\ running = [p \in Previews |-> None]
  /\ epoch = [p \in Previews |-> 0]
  /\ held = {}
  /\ live = [p \in Previews |-> 0]
  /\ row = [p \in Previews |-> NoRow]
  /\ turn = [p \in Previews |-> 0]
  /\ served = [p \in Previews |-> 0]
  /\ wpc = [w \in Workers |-> "idle"]
  /\ wjob = [w \in Workers |-> NoRequest]
  /\ wcut = [w \in Workers |-> FALSE]
  /\ wlock = [w \in Workers |-> 0]
  /\ wturn = [w \in Workers |-> 0]
  /\ hpc = [h \in Hooks |-> "idle"]
  /\ hjob = [h \in Hooks |-> NoRequest]
  /\ tpc = [c \in Closers |-> "idle"]
  /\ tpv = [c \in Closers |-> NoRequest.pv]
  /\ tlock = [c \in Closers |-> 0]
  /\ xpc = [x \in Cancellers |-> "idle"]
  /\ xpv = [x \in Cancellers |-> NoRequest.pv]
  /\ xturn = [x \in Cancellers |-> 0]

-----------------------------------------------------------------------------
(* handleBuild. *)

\* A delivery reaches handleBuild and passes its reads: an unlinked pull request
\* goes no further and changes nothing. A refresh and a Rebuild also want a row,
\* so they are some of the arrivals this action allows.
Receive(h, p) ==
  /\ hpc[h] = "idle"
  /\ asked[p] < MaxAsks
  /\ p \notin ignored
  /\ asked' = [asked EXCEPT ![p] = @ + 1]
  /\ hjob' = [hjob EXCEPT ![h] = [pv |-> p, req |-> asked[p] + 1]]
  /\ hpc' = [hpc EXCEPT ![h] = "enqueue"]
  /\ UNCHANGED <<qVars, ignored, running, held, turn, pubVars, wVars, tVars, xVars>>

\* LinkPR: the ignore is deleted, then handleBuild is entered and reads it.
LinkPR(h, p) ==
  /\ hpc[h] = "idle"
  /\ p \in ignored
  /\ ignored' = ignored \ {p}
  /\ UNCHANGED <<qVars, running, held, turn, pubVars, wVars, hVars, tVars, xVars>>

\* Mutant: the upsert keeps the time the row had.
EnqueueKeepsTime(h) ==
  /\ hpc[h] = "enqueue"
  /\ now' = now + 1
  /\ jobs' = [jobs EXCEPT ![hjob[h].pv].req = hjob[h].req]
  /\ hpc' = [hpc EXCEPT ![h] = "supersede"]
  /\ UNCHANGED <<asked, ignored, running, held, turn, pubVars, wVars, hjob, tVars, xVars>>

\* The upsert: a job already waiting for the preview is replaced, and waits anew.
Enqueue(h) ==
  /\ hpc[h] = "enqueue"
  /\ now' = now + 1
  /\ jobs' = [jobs EXCEPT ![hjob[h].pv] = [req |-> hjob[h].req, at |-> now + 1]]
  /\ hpc' = [hpc EXCEPT ![h] = "supersede"]
  /\ UNCHANGED <<asked, ignored, running, held, turn, pubVars, wVars, hjob, tVars, xVars>>

\* Deregister and cancel whatever build of p is registered, under d.mu.
CutRunning(p) ==
  /\ running' = [running EXCEPT ![p] = None]
  /\ wcut' = [w \in Workers |-> wcut[w] \/ running[p] = w]

\* A queue write that fails is returned to the caller; nothing is superseded.
EnqueueFails(h) ==
  /\ hpc[h] = "enqueue"
  /\ hpc' = [hpc EXCEPT ![h] = "idle"]
  /\ hjob' = [hjob EXCEPT ![h] = NoRequest]
  /\ UNCHANGED <<qVars, asked, ignored, running, held, turn, pubVars, wVars, tVars, xVars>>

Supersede(h) ==
  /\ hpc[h] = "supersede"
  /\ CutRunning(hjob[h].pv)
  /\ hpc' = [hpc EXCEPT ![h] = "idle"]
  /\ hjob' = [hjob EXCEPT ![h] = NoRequest]
  /\ UNCHANGED <<qVars, asked, ignored, held, turn, pubVars, wpc, wjob, wlock,
                 wturn, tVars, xVars>>

-----------------------------------------------------------------------------
(* worker, build and runPipeline. *)

Step(w, from, to) ==
  /\ wpc[w] = from
  /\ wpc' = [wpc EXCEPT ![w] = to]

\* DELETE ... RETURNING: one worker takes the oldest job.
Claim(w, p) ==
  /\ Step(w, "idle", "claimed")
  /\ Queued(p)
  /\ \A q \in Previews : Queued(q) => jobs[p].at <= jobs[q].at
  /\ wjob' = [wjob EXCEPT ![w] = [pv |-> p, req |-> jobs[p].req]]
  /\ jobs' = [jobs EXCEPT ![p] = [req |-> 0, at |-> 0]]
  /\ UNCHANGED <<now, ignored, running, held, turn, pubVars, wcut, wlock, wturn,
                 hVars, tVars, xVars>>

\* d.running[id] = me, whatever was there.
Register(w) ==
  /\ Step(w, "claimed", "building")
  /\ running' = [running EXCEPT ![WP(w)] = w]
  /\ turn' = [turn EXCEPT ![WP(w)] = @ + 1]
  /\ wturn' = [wturn EXCEPT ![w] = turn[WP(w)] + 1]
  /\ UNCHANGED <<qVars, ignored, held, pubVars, wjob, wcut, wlock, hVars, tVars, xVars>>

\* Clone to saveBuild: the site is built, nothing needs building, something failed
\* (a cancelled context is one of the somethings), or the platform has no client.
Build(w) ==
  /\ \E end \in {"built", "skipped", "failed", "ending"} : Step(w, "building", end)
  /\ UNCHANGED <<qVars, ignored, running, held, turn, pubVars, wjob, wcut, wlock,
                 wturn, hVars, tVars, xVars>>

\* commitLock returns the mutex the map holds now ...
FetchLock(w) ==
  /\ Step(w, "built", "fetched")
  /\ wlock' = [wlock EXCEPT ![w] = epoch[WP(w)]]
  /\ UNCHANGED <<qVars, ignored, running, held, turn, pubVars, wjob, wcut, wturn,
                 hVars, tVars, xVars>>

\* Mutant: the build takes the lock without waiting for it.
AcquireAnyway(w) ==
  /\ Step(w, "fetched", "locked")
  /\ held' = held \cup {WLock(w)}
  /\ UNCHANGED <<qVars, ignored, running, turn, pubVars, wjob, wcut, wlock, wturn,
                 hVars, tVars, xVars>>

\* ... and the build waits for it, however long.
AcquireLock(w) ==
  /\ Step(w, "fetched", "locked")
  /\ WLock(w) \notin held
  /\ held' = held \cup {WLock(w)}
  /\ UNCHANGED <<qVars, ignored, running, turn, pubVars, wjob, wcut, wlock, wturn,
                 hVars, tVars, xVars>>

\* Mutant: only the context is looked at, not the registration.
NotCancelled(w) == ~wcut[w]
\* Superseded while it built or waited: errSuperseded, having changed nothing.
Current(w) == ~wcut[w] /\ running[WP(w)] = w

\* Mutant: errSuperseded is returned with the mutex still locked.
CheckKeepsLock(w) ==
  /\ \/ Current(w) /\ Step(w, "locked", "publishing")
     \/ ~Current(w) /\ Step(w, "locked", "ending")
  /\ UNCHANGED <<qVars, ignored, running, held, turn, pubVars, wjob, wcut, wlock,
                 wturn, hVars, tVars, xVars>>

CheckCurrent(w) ==
  /\ \/ Current(w) /\ Step(w, "locked", "publishing") /\ UNCHANGED held
     \/ ~Current(w) /\ Step(w, "locked", "ending") /\ held' = held \ {WLock(w)}
  /\ UNCHANGED <<qVars, ignored, running, turn, pubVars, wjob, wcut, wlock, wturn,
                 hVars, tVars, xVars>>

\* The artifacts are moved into place and the exposer publishes; d.live follows.
Publish(w) ==
  /\ Step(w, "publishing", "saving")
  /\ live' = [live EXCEPT ![WP(w)] = wjob[w].req]
  /\ served' = [served EXCEPT ![WP(w)] = wturn[w]]
  /\ UNCHANGED <<qVars, ignored, running, held, turn, row, wjob, wcut, wlock,
                 wturn, hVars, tVars, xVars>>

\* Mutant: an error path without the unlock.
PublishFailsLocked(w) ==
  /\ Step(w, "publishing", "failed")
  /\ UNCHANGED <<qVars, ignored, running, held, turn, pubVars, wjob, wcut, wlock,
                 wturn, hVars, tVars, xVars>>

\* replaceDir, preview.New or the exposer fails: what was live stays live.
PublishFails(w) ==
  /\ Step(w, "publishing", "failed")
  /\ held' = held \ {WLock(w)}
  /\ UNCHANGED <<qVars, ignored, running, turn, pubVars, wjob, wcut, wlock, wturn,
                 hVars, tVars, xVars>>

\* SavePreview on a detached context, then the deferred unlock.
SaveRow(w) ==
  /\ Step(w, "saving", "ending")
  /\ row' = [row EXCEPT ![WP(w)] = [st |-> "ready", req |-> wjob[w].req]]
  /\ held' = held \ {WLock(w)}
  /\ UNCHANGED <<qVars, ignored, running, turn, live, served, wjob, wcut, wlock,
                 wturn, hVars, tVars, xVars>>

\* Mutant: only the share and its entry are taken down.
SaveFailsKeepsRow(w) ==
  /\ Step(w, "saving", "failed")
  /\ live' = [live EXCEPT ![WP(w)] = 0]
  /\ held' = held \ {WLock(w)}
  /\ UNCHANGED <<qVars, ignored, running, turn, row, served, wjob, wcut, wlock,
                 wturn, hVars, tVars, xVars>>

\* SavePreview fails: unpublish takes down the share, its entry and any row.
SaveFails(w) ==
  /\ Step(w, "saving", "failed")
  /\ live' = [live EXCEPT ![WP(w)] = 0]
  /\ row' = [row EXCEPT ![WP(w)] = NoRow]
  /\ held' = held \ {WLock(w)}
  /\ UNCHANGED <<qVars, ignored, running, turn, served, wjob, wcut, wlock, wturn,
                 hVars, tVars, xVars>>

\* After runPipeline. A cancelled build writes nothing; recordFailure lists the
\* rows and leaves an existing one alone; recordSkip leaves a ready one alone.
Conclude(w) ==
  /\ \/ wpc[w] = "failed" /\ LET spared == wcut[w] \/ HasRow(WP(w))
                             IN  Step(w, "failed", IF spared THEN "ending" ELSE "recfail")
     \/ wpc[w] = "skipped" /\ LET spared == wcut[w] \/ row[WP(w)].st = "ready"
                              IN  Step(w, "skipped", IF spared THEN "ending" ELSE "recskip")
  /\ UNCHANGED <<qVars, ignored, running, held, turn, pubVars, wjob, wcut, wlock,
                 wturn, hVars, tVars, xVars>>

\* The SavePreview that follows the listing, with no lock held between the two.
Record(w) ==
  /\ \/ /\ Step(w, "recfail", "ending")
        /\ row' = [row EXCEPT ![WP(w)] = [st |-> "failed", req |-> wjob[w].req]]
     \/ /\ Step(w, "recskip", "ending")
        /\ row' = [row EXCEPT ![WP(w)] = [st |-> "skipped", req |-> wjob[w].req]]
  /\ UNCHANGED <<qVars, ignored, running, held, turn, live, served, wjob, wcut,
                 wlock, wturn, hVars, tVars, xVars>>

\* Mutant: the cleanup deletes the entry without asking whose it is.
FinishClearsAny(w) ==
  /\ Step(w, "ending", "idle")
  /\ running' = [running EXCEPT ![WP(w)] = None]
  /\ wjob' = [wjob EXCEPT ![w] = NoRequest]
  /\ wcut' = [wcut EXCEPT ![w] = FALSE]
  /\ wlock' = [wlock EXCEPT ![w] = 0]
  /\ wturn' = [wturn EXCEPT ![w] = 0]
  /\ UNCHANGED <<qVars, ignored, held, turn, pubVars, hVars, tVars, xVars>>

\* build's deferred cleanup: the entry is cleared only if it is still ours.
Finish(w) ==
  /\ Step(w, "ending", "idle")
  /\ running' = IF running[WP(w)] = w THEN [running EXCEPT ![WP(w)] = None] ELSE running
  /\ wjob' = [wjob EXCEPT ![w] = NoRequest]
  /\ wcut' = [wcut EXCEPT ![w] = FALSE]
  /\ wlock' = [wlock EXCEPT ![w] = 0]
  /\ wturn' = [wturn EXCEPT ![w] = 0]
  /\ UNCHANGED <<qVars, ignored, held, turn, pubVars, hVars, tVars, xVars>>

-----------------------------------------------------------------------------
(* teardown. *)

CStep(c, from, to) ==
  /\ tpc[c] = from
  /\ tpc' = [tpc EXCEPT ![c] = to]

\* A closed pull request or an expired preview; Unlink records the ignore first.
Close(c, p) ==
  /\ CStep(c, "idle", "closing")
  /\ epoch[p] < MaxTeardowns
  /\ tpv' = [tpv EXCEPT ![c] = p]
  /\ \/ UNCHANGED ignored
     \/ HasRow(p) /\ ignored' = ignored \cup {p}
  /\ UNCHANGED <<qVars, running, held, turn, pubVars, wVars, hVars, tlock, epoch, xVars>>

CloserFetch(c) ==
  /\ CStep(c, "closing", "fetched")
  /\ tlock' = [tlock EXCEPT ![c] = epoch[tpv[c]]]
  /\ UNCHANGED <<qVars, ignored, running, held, turn, pubVars, wVars, hVars, tpv,
                 epoch, xVars>>

CloserAcquire(c) ==
  /\ CStep(c, "fetched", "locked")
  /\ TLock(c) \notin held
  /\ held' = held \cup {TLock(c)}
  /\ UNCHANGED <<qVars, ignored, running, turn, pubVars, wVars, hVars, tpv, tlock,
                 epoch, xVars>>

\* Under d.mu: cancel the build, take the publication, delete the commit mutex.
TakeDown(c) ==
  /\ CStep(c, "locked", "taken")
  /\ CutRunning(tpv[c])
  /\ live' = [live EXCEPT ![tpv[c]] = 0]
  /\ epoch' = [epoch EXCEPT ![tpv[c]] = @ + 1]
  /\ UNCHANGED <<qVars, ignored, held, turn, row, served, wpc, wjob, wlock, wturn,
                 hVars, tpv, tlock, xVars>>

\* A Dequeue that fails is collected, and the teardown goes on.
CloserDequeue(c) ==
  /\ CStep(c, "taken", "emptied")
  /\ \/ jobs' = [jobs EXCEPT ![tpv[c]] = [req |-> 0, at |-> 0]]
     \/ UNCHANGED jobs
  /\ UNCHANGED <<now, ignored, running, held, turn, pubVars, wVars, hVars, tpv,
                 tlock, epoch, xVars>>

\* Names, shares, directories, logs and comment, then the row and the unlock. (A
\* failed DELETE is reported to the caller and is not modelled.)
DeleteRow(c) ==
  /\ CStep(c, "emptied", "idle")
  /\ row' = [row EXCEPT ![tpv[c]] = NoRow]
  /\ held' = held \ {TLock(c)}
  /\ tlock' = [tlock EXCEPT ![c] = 0]
  /\ tpv' = [tpv EXCEPT ![c] = NoRequest.pv]
  /\ UNCHANGED <<qVars, ignored, running, turn, live, served, wVars, hVars, epoch, xVars>>

-----------------------------------------------------------------------------
(* CancelBuild. *)

\* A registered build is deregistered under d.mu ...
CancelRunning(x, p) ==
  /\ xpc[x] = "idle"
  /\ running[p] # None
  /\ running' = [running EXCEPT ![p] = None]
  /\ xpc' = [xpc EXCEPT ![x] = "cancel"]
  /\ xpv' = [xpv EXCEPT ![x] = p]
  /\ xturn' = [xturn EXCEPT ![x] = wturn[running[p]]]
  /\ UNCHANGED <<qVars, ignored, held, turn, pubVars, wVars, hVars, tVars>>

\* ... and its context, nobody else's, is cancelled after the unlock.
CancelCut(x) ==
  /\ xpc[x] = "cancel"
  /\ wcut' = [w \in Workers |-> wcut[w] \/ (WP(w) = xpv[x] /\ wturn[w] = xturn[x])]
  /\ xpc' = [xpc EXCEPT ![x] = "idle"]
  /\ xpv' = [xpv EXCEPT ![x] = NoRequest.pv]
  /\ xturn' = [xturn EXCEPT ![x] = 0]
  /\ UNCHANGED <<qVars, ignored, running, held, turn, pubVars, wpc, wjob, wlock,
                 wturn, hVars, tVars>>

\* Nothing is registered: go on to the queue.
CancelLook(x, p) ==
  /\ xpc[x] = "idle"
  /\ running[p] = None
  /\ xpc' = [xpc EXCEPT ![x] = "dequeue"]
  /\ xpv' = [xpv EXCEPT ![x] = p]
  /\ UNCHANGED <<xturn, qVars, ignored, running, held, turn, pubVars, wVars, hVars, tVars>>

\* Dequeue answers whether it removed a job; no job is "nothing to cancel".
CancelQueued(x) ==
  /\ xpc[x] = "dequeue"
  /\ jobs' = [jobs EXCEPT ![xpv[x]] = [req |-> 0, at |-> 0]]
  /\ xpc' = [xpc EXCEPT ![x] = "idle"]
  /\ xpv' = [xpv EXCEPT ![x] = NoRequest.pv]
  /\ UNCHANGED <<now, ignored, running, held, turn, pubVars, wVars, hVars, tVars, xturn>>

-----------------------------------------------------------------------------
WorkerStep(w) ==
  \/ \E p \in Previews : Claim(w, p)
  \/ Register(w) \/ Build(w) \/ FetchLock(w) \/ AcquireLock(w) \/ CheckCurrent(w)
  \/ Publish(w) \/ PublishFails(w) \/ SaveRow(w) \/ SaveFails(w)
  \/ Conclude(w) \/ Record(w) \/ Finish(w)

CloserStep(c) ==
  \/ CloserFetch(c) \/ CloserAcquire(c) \/ TakeDown(c) \/ CloserDequeue(c)
  \/ DeleteRow(c)

CancelStep(x) == CancelCut(x) \/ CancelQueued(x)

Next ==
  \/ \E h \in Hooks : \/ \E p \in Previews : Receive(h, p) \/ LinkPR(h, p)
                      \/ Enqueue(h) \/ EnqueueFails(h) \/ Supersede(h)
  \/ \E w \in Workers : WorkerStep(w)
  \/ \E c \in Closers : CloserStep(c) \/ \E p \in Previews : Close(c, p)
  \/ \E x \in Cancellers : \/ \E p \in Previews : CancelRunning(x, p) \/ CancelLook(x, p)
                           \/ CancelStep(x)

Spec == Init /\ [][Next]_vars

\* A goroutine that can run does. sync.Mutex hands the lock to a waiter that has
\* waited a millisecond, hence SF on the two acquisitions; nobody owes the daemon
\* a delivery, a close or a cancel.
Fairness ==
  /\ \A w \in Workers : WF_vars(WorkerStep(w)) /\ SF_vars(AcquireLock(w))
  /\ \A h \in Hooks : WF_vars(Enqueue(h) \/ EnqueueFails(h) \/ Supersede(h))
  /\ \A c \in Closers : WF_vars(CloserStep(c)) /\ SF_vars(CloserAcquire(c))
  /\ \A x \in Cancellers : WF_vars(CancelStep(x))

FairSpec == Spec /\ Fairness

-----------------------------------------------------------------------------
WorkerPCs == {"idle", "claimed", "building", "built", "skipped", "failed", "fetched",
              "locked", "publishing", "saving", "recfail", "recskip", "ending"}
Request == [pv : Previews, req : Nat]

Types ==
  /\ jobs \in [Previews -> [req : Nat, at : Nat]]
  /\ now \in Nat
  /\ asked \in [Previews -> 0..MaxAsks]
  /\ ignored \subseteq Previews
  /\ running \in [Previews -> Workers \cup {None}]
  /\ epoch \in [Previews -> Nat]
  /\ held \subseteq Previews \X Nat
  /\ live \in [Previews -> Nat]
  /\ row \in [Previews -> [st : {"none", "ready", "failed", "skipped"}, req : Nat]]
  /\ turn \in [Previews -> Nat]
  /\ served \in [Previews -> Nat]
  /\ wpc \in [Workers -> WorkerPCs]
  /\ wjob \in [Workers -> Request]
  /\ wcut \in [Workers -> BOOLEAN]
  /\ wlock \in [Workers -> Nat]
  /\ wturn \in [Workers -> Nat]
  /\ hpc \in [Hooks -> {"idle", "enqueue", "supersede"}]
  /\ hjob \in [Hooks -> Request]
  /\ tpc \in [Closers -> {"idle", "closing", "fetched", "locked", "taken", "emptied"}]
  /\ tpv \in [Closers -> Previews]
  /\ tlock \in [Closers -> Nat]
  /\ xpc \in [Cancellers -> {"idle", "cancel", "dequeue"}]
  /\ xpv \in [Cancellers -> Previews]
  /\ xturn \in [Cancellers -> Nat]

JobsTimed == \A p \in Previews : Queued(p) => jobs[p].at \in 1..now

\* Every variable has its type; the jobs table has at most one job per preview,
\* and a job waiting was queued at a time that has come.
TypeOK == Types /\ JobsTimed

-----------------------------------------------------------------------------
(* What holds. *)

\* Two builds are never both between the currency check and the unlock for one
\* preview: the commit lock's purpose. Needs teardowns of a preview one at a time.
CommitExclusion ==
  \A v, w \in Workers : InCommit(v) /\ InCommit(w) /\ WP(v) = WP(w) => v = w

\* Builds publish in the order they registered: a build that was replaced before
\* its check never takes the name back from the build that replaced it.
PublishOrder ==
  [][\A p \in Previews : served'[p] # served[p] => served'[p] > served[p]]_vars

\* An entry leaves d.running only with its build cancelled, about to be, or done:
\* a late finisher cannot take away the handle of the build that replaced it.
HandleKept ==
  [][\A p \in Previews, w \in Workers :
       running[p] = w /\ running'[p] = None
         => \/ wcut'[w] \/ wpc'[w] = "idle"
            \/ \E x \in Cancellers :
                 xpc'[x] = "cancel" /\ xpv'[x] = p /\ xturn'[x] = wturn[w]]_vars

\* A row that says ready names the build being served, except between a commit's
\* publish and its save, and between a teardown's first and last write: whatever
\* fails, the publication and the table do not drift apart.
ReadyRowIsLive ==
  \A p \in Previews :
    \/ row[p].st # "ready"
    \/ live[p] = row[p].req
    \/ \E w \in Workers : wpc[w] = "saving" /\ WP(w) = p
    \/ \E c \in Closers : tpc[c] \in {"taken", "emptied"} /\ tpv[c] = p

\* A worker that took a job is free again some time later, whatever failed on the
\* way: no path leaves a commit mutex locked or a worker waiting for one forever.
BuildsFinish == \A w \in Workers : wpc[w] # "idle" ~> wpc[w] = "idle"

\* A teardown that was asked for returns: it is never starved of the commit lock.
TeardownReturns == \A c \in Closers : tpc[c] # "idle" ~> tpc[c] = "idle"

-----------------------------------------------------------------------------
(* What the code's comments say, and the code does not do. *)

\* runPipeline: two pushes must end with the second published, never the first.
NewestWins == [][\A p \in Previews : live'[p] # 0 => live'[p] >= live[p]]_vars

\* handleBuild: what Supersede abandons is a build nobody is going to look at, so
\* it is not the build of the job this very call queued.
OwnJobSurvives ==
  [][\A h \in Hooks, w \in Workers :
       hpc[h] = "supersede" /\ hpc'[h] = "idle" /\ wjob[w] = hjob[h]
         => wcut'[w] = wcut[w]]_vars
=============================================================================
