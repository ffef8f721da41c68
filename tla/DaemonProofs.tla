---------------------------- MODULE DaemonProofs ----------------------------
(* Theorems about Daemon for every set of previews, workers and callers. *)
EXTENDS Daemon, TLAPS

\* The placeholder a goroutine's locals hold between calls is a request.
LEMMA NoRequestType == NoRequest \in Request /\ NoRequest.pv \in Previews
BY DaemonAssumption DEF NoRequest, Request

-----------------------------------------------------------------------------
(* Type correctness. *)

\* Every step of a handler keeps the types.
LEMMA HookType ==
  ASSUME Types, NEW h \in Hooks,
         (\E p \in Previews : Receive(h, p) \/ LinkPR(h, p)) \/ Enqueue(h)
           \/ EnqueueFails(h) \/ Supersede(h)
  PROVE  Types'
<1>. USE DaemonAssumption, NoRequestType DEF Types, Request, WorkerPCs
<1>. USE DEF vars, qVars, pubVars, wVars, hVars, tVars, xVars
<1>1. ASSUME NEW p \in Previews, Receive(h, p) PROVE Types'
  BY <1>1 DEF Receive
<1>2. ASSUME NEW p \in Previews, LinkPR(h, p) PROVE Types'
  BY <1>2 DEF LinkPR
<1>3. CASE Enqueue(h)
  BY <1>3 DEF Enqueue
<1>4. CASE EnqueueFails(h)
  BY <1>4 DEF EnqueueFails
<1>5. CASE Supersede(h)
  BY <1>5 DEF Supersede, CutRunning
<1>. QED BY <1>1, <1>2, <1>3, <1>4, <1>5

\* Every step of a worker keeps the types.
LEMMA WorkerType ==
  ASSUME Types, NEW w \in Workers, WorkerStep(w)
  PROVE  Types'
<1>. USE DaemonAssumption, NoRequestType DEF Types, Request, WorkerPCs, NoRow
<1>. USE DEF vars, qVars, pubVars, wVars, hVars, tVars, xVars, Step, WP, WLock
<1>1. ASSUME NEW p \in Previews, Claim(w, p) PROVE Types'
  BY <1>1 DEF Claim
<1>2. CASE Register(w)
  BY <1>2 DEF Register
<1>3. CASE Build(w)
  BY <1>3 DEF Build
<1>4. CASE FetchLock(w)
  BY <1>4 DEF FetchLock
<1>5. CASE AcquireLock(w)
  BY <1>5 DEF AcquireLock
<1>6. CASE CheckCurrent(w)
  BY <1>6 DEF CheckCurrent
<1>7. CASE Publish(w)
  BY <1>7 DEF Publish
<1>8. CASE PublishFails(w)
  BY <1>8 DEF PublishFails
<1>9. CASE SaveRow(w)
  BY <1>9 DEF SaveRow
<1>10. CASE SaveFails(w)
  BY <1>10 DEF SaveFails
<1>11. CASE Conclude(w)
  BY <1>11 DEF Conclude
<1>12. CASE Record(w)
  <2>1. \E st \in {"failed", "skipped"} :
          row' = [row EXCEPT ![wjob[w].pv] = [st |-> st, req |-> wjob[w].req]]
    BY <1>12 DEF Record
  <2>2. wpc' = [wpc EXCEPT ![w] = "ending"]
    BY <1>12 DEF Record
  <2>3. UNCHANGED <<qVars, ignored, running, held, turn, live, served, wjob, wcut,
                    wlock, wturn, hVars, tVars, xVars>>
    BY <1>12 DEF Record
  <2>. QED BY <2>1, <2>2, <2>3
<1>13. CASE Finish(w)
  BY <1>13 DEF Finish
<1>. QED BY <1>1, <1>2, <1>3, <1>4, <1>5, <1>6, <1>7, <1>8, <1>9, <1>10, <1>11,
            <1>12, <1>13 DEF WorkerStep

\* Every step of a teardown keeps the types.
LEMMA CloserType ==
  ASSUME Types, NEW c \in Closers, CloserStep(c) \/ (\E p \in Previews : Close(c, p))
  PROVE  Types'
<1>. USE DaemonAssumption, NoRequestType DEF Types, Request, WorkerPCs, NoRow
<1>. USE DEF vars, qVars, pubVars, wVars, hVars, tVars, xVars, CStep, TLock
<1>1. ASSUME NEW p \in Previews, Close(c, p) PROVE Types'
  BY <1>1 DEF Close
<1>2. CASE CloserFetch(c)
  BY <1>2 DEF CloserFetch
<1>3. CASE CloserAcquire(c)
  BY <1>3 DEF CloserAcquire
<1>4. CASE TakeDown(c)
  BY <1>4 DEF TakeDown, CutRunning
<1>5. CASE CloserDequeue(c)
  <2>1. jobs' \in [Previews -> [req : Nat, at : Nat]]
    <3>1. CASE jobs' = [jobs EXCEPT ![tpv[c]] = [req |-> 0, at |-> 0]]
      BY <3>1
    <3>2. CASE jobs' = jobs
      BY <3>2
    <3>. QED BY <1>5, <3>1, <3>2 DEF CloserDequeue
  <2>2. tpc' = [tpc EXCEPT ![c] = "emptied"]
    BY <1>5 DEF CloserDequeue
  <2>3. UNCHANGED <<now, ignored, running, held, turn, pubVars, wVars, hVars, tpv,
                    tlock, epoch, xVars>>
    BY <1>5 DEF CloserDequeue
  <2>. QED BY <2>1, <2>2, <2>3
<1>6. CASE DeleteRow(c)
  BY <1>6 DEF DeleteRow
<1>. QED BY <1>1, <1>2, <1>3, <1>4, <1>5, <1>6 DEF CloserStep

\* Every step of a cancellation keeps the types.
LEMMA CancelType ==
  ASSUME Types, NEW x \in Cancellers,
         (\E p \in Previews : CancelRunning(x, p) \/ CancelLook(x, p)) \/ CancelStep(x)
  PROVE  Types'
<1>. USE DaemonAssumption, NoRequestType DEF Types, Request, WorkerPCs
<1>. USE DEF vars, qVars, pubVars, wVars, hVars, tVars, xVars
<1>1. ASSUME NEW p \in Previews, CancelRunning(x, p) PROVE Types'
  BY <1>1 DEF CancelRunning
<1>2. ASSUME NEW p \in Previews, CancelLook(x, p) PROVE Types'
  BY <1>2 DEF CancelLook
<1>3. CASE CancelCut(x)
  BY <1>3 DEF CancelCut
<1>4. CASE CancelQueued(x)
  BY <1>4 DEF CancelQueued
<1>. QED BY <1>1, <1>2, <1>3, <1>4 DEF CancelStep

\* The upsert is the only write of enqueued_at, and it writes the present.
LEMMA JobsTimedStep == TypeOK /\ [Next]_vars => JobsTimed'
<1>. SUFFICES ASSUME TypeOK, [Next]_vars PROVE JobsTimed'
  OBVIOUS
<1>. USE DEF TypeOK, Types, JobsTimed, Queued
<1>1. CASE jobs' = jobs /\ now' = now
  BY <1>1
<1>2. ASSUME NEW h \in Hooks, Enqueue(h) PROVE JobsTimed'
  BY <1>2 DEF Enqueue, Request
<1>3. ASSUME NEW p \in Previews, now' = now,
             jobs' = [jobs EXCEPT ![p] = [req |-> 0, at |-> 0]]
      PROVE  JobsTimed'
  BY <1>3
<1>. USE DEF qVars
<1>4. CASE UNCHANGED vars
  BY <1>1, <1>4 DEF vars
<1>5. ASSUME NEW h \in Hooks, NEW p \in Previews, Receive(h, p) \/ LinkPR(h, p)
      PROVE  JobsTimed'
  BY <1>1, <1>5 DEF Receive, LinkPR
<1>6. ASSUME NEW h \in Hooks, EnqueueFails(h) \/ Supersede(h) PROVE JobsTimed'
  BY <1>1, <1>6 DEF EnqueueFails, Supersede
<1>7. ASSUME NEW w \in Workers, WorkerStep(w) PROVE JobsTimed'
  <2>1. ASSUME NEW p \in Previews, Claim(w, p) PROVE JobsTimed'
    <3>1. now' = now /\ jobs' = [jobs EXCEPT ![p] = [req |-> 0, at |-> 0]]
      BY <2>1 DEF Claim
    <3>. QED BY <3>1, <1>3
  <2>2. ASSUME ~(\E p \in Previews : Claim(w, p)) PROVE jobs' = jobs /\ now' = now
    BY <2>2, <1>7
       DEF WorkerStep, Register, Build, FetchLock, AcquireLock, CheckCurrent, Publish,
           PublishFails, SaveRow, SaveFails, Conclude, Record, Finish
  <2>. QED BY <2>1, <2>2, <1>1
<1>8. ASSUME NEW c \in Closers, CloserStep(c) \/ (\E p \in Previews : Close(c, p))
      PROVE  JobsTimed'
  <2>1. CASE CloserDequeue(c)
    <3>1. /\ now' = now
          /\ jobs' = jobs \/ jobs' = [jobs EXCEPT ![tpv[c]] = [req |-> 0, at |-> 0]]
      BY <2>1 DEF CloserDequeue
    <3>. QED BY <3>1, <1>1, <1>3
  <2>2. CASE ~CloserDequeue(c)
    <3>1. jobs' = jobs /\ now' = now
      BY <2>2, <1>8 DEF CloserStep, Close, CloserFetch, CloserAcquire, TakeDown, DeleteRow
    <3>. QED BY <3>1, <1>1
  <2>. QED BY <2>1, <2>2
<1>9. ASSUME NEW x \in Cancellers,
             (\E p \in Previews : CancelRunning(x, p) \/ CancelLook(x, p)) \/ CancelStep(x)
      PROVE  JobsTimed'
  <2>1. CASE CancelQueued(x)
    <3>1. now' = now /\ jobs' = [jobs EXCEPT ![xpv[x]] = [req |-> 0, at |-> 0]]
      BY <2>1 DEF CancelQueued
    <3>. QED BY <3>1, <1>3
  <2>2. CASE ~CancelQueued(x)
    <3>1. jobs' = jobs /\ now' = now
      BY <2>2, <1>9 DEF CancelStep, CancelCut, CancelRunning, CancelLook
    <3>. QED BY <3>1, <1>1
  <2>. QED BY <2>1, <2>2
<1>. QED BY <1>2, <1>4, <1>5, <1>6, <1>7, <1>8, <1>9 DEF Next

\* Every step keeps both halves of TypeOK.
LEMMA TypeStep == TypeOK /\ [Next]_vars => TypeOK'
<1>. SUFFICES ASSUME TypeOK, [Next]_vars PROVE TypeOK'
  OBVIOUS
<1>1. JobsTimed'
  BY JobsTimedStep
<1>2. Types'
  <2>1. CASE UNCHANGED vars
    BY <2>1 DEF vars, TypeOK, Types
  <2>2. CASE Next
    BY <2>2, HookType, WorkerType, CloserType, CancelType DEF Next, TypeOK
  <2>. QED BY <2>1, <2>2
<1>. QED BY <1>1, <1>2 DEF TypeOK

\* The variables always have their types.
THEOREM TypeCorrect == Spec => []TypeOK
<1>1. Init => TypeOK
  BY DaemonAssumption, NoRequestType
     DEF Init, TypeOK, Types, JobsTimed, Queued, Request, WorkerPCs, NoRow
<1>. QED BY <1>1, TypeStep, PTL DEF Spec

-----------------------------------------------------------------------------
(* Mutual exclusion of commits, as long as a preview has one teardown at a    *)
(* time: TLC shows two teardowns of one preview break it.                     *)

OneTeardown ==
  \A c, d \in Closers :
    c # d /\ tpc[c] # "idle" /\ tpc[d] # "idle" => tpv[c] # tpv[d]

\* Whoever is inside a critical section has locked a mutex nobody else has.
LockInv ==
  /\ \A w \in Workers : Holds(w) => WLock(w) \in held
  /\ \A c \in Closers : Closing(c) => TLock(c) \in held
  /\ \A v, w \in Workers : Holds(v) /\ Holds(w) /\ v # w => WLock(v) # WLock(w)
  /\ \A c \in Closers, w \in Workers : Closing(c) /\ Holds(w) => TLock(c) # WLock(w)

\* A build that may still publish waits for, or holds, the mutex of today; so
\* does a teardown until it deletes that mutex.
EpochInv ==
  /\ \A w \in Workers : InCommit(w) => wlock[w] = epoch[WP(w)]
  /\ \A w \in Workers :
       wpc[w] \in {"fetched", "locked"} /\ running[WP(w)] = w
         => wlock[w] = epoch[WP(w)]
  /\ \A c \in Closers : tpc[c] \in {"fetched", "locked"} => tlock[c] = epoch[tpv[c]]

ExclusionInv == TypeOK /\ LockInv /\ EpochInv

LEMMA ExclusionInit == Init => ExclusionInv
<1>. SUFFICES ASSUME Init PROVE ExclusionInv
  OBVIOUS
<1>1. TypeOK
  BY DaemonAssumption, NoRequestType
     DEF Init, TypeOK, Types, JobsTimed, Queued, Request, WorkerPCs, NoRow
<1>2. LockInv /\ EpochInv
  BY DEF Init, LockInv, EpochInv, Holds, Closing, InCommit
<1>. QED BY <1>1, <1>2 DEF ExclusionInv

LEMMA HookExclusion ==
  ASSUME ExclusionInv, NEW h \in Hooks,
         (\E p \in Previews : Receive(h, p) \/ LinkPR(h, p)) \/ Enqueue(h)
           \/ EnqueueFails(h) \/ Supersede(h)
  PROVE  LockInv' /\ EpochInv'
<1>. USE DEF ExclusionInv, LockInv, EpochInv, Holds, Closing, InCommit, WP, WLock, TLock
<1>. USE DEF qVars, pubVars, wVars, hVars, tVars, xVars
<1>1. ASSUME NEW p \in Previews, Receive(h, p) PROVE LockInv' /\ EpochInv'
  BY <1>1 DEF Receive
<1>2. ASSUME NEW p \in Previews, LinkPR(h, p) PROVE LockInv' /\ EpochInv'
  BY <1>2 DEF LinkPR
<1>3. CASE Enqueue(h) \/ EnqueueFails(h)
  BY <1>3 DEF Enqueue, EnqueueFails
<1>4. CASE Supersede(h)
  BY <1>4, DaemonAssumption DEF Supersede, CutRunning, TypeOK, Types
<1>. QED BY <1>1, <1>2, <1>3, <1>4

LEMMA WorkerExclusion ==
  ASSUME ExclusionInv, NEW w \in Workers, WorkerStep(w)
  PROVE  LockInv' /\ EpochInv'
<1>0. /\ running \in [Previews -> Workers \cup {None}] /\ epoch \in [Previews -> Nat]
      /\ wpc \in [Workers -> WorkerPCs] /\ wjob \in [Workers -> Request]
      /\ wlock \in [Workers -> Nat] /\ held \subseteq Previews \X Nat
      /\ DOMAIN tpc = Closers /\ tpv \in [Closers -> Previews]
      /\ tlock \in [Closers -> Nat] /\ LockInv /\ EpochInv
  BY DEF ExclusionInv, TypeOK, Types
<1>. USE <1>0 DEF LockInv, EpochInv, Holds, Closing, InCommit, WP, WLock, TLock
<1>. USE DEF qVars, pubVars, wVars, hVars, tVars, xVars, Step
<1>1. ASSUME NEW p \in Previews, Claim(w, p) PROVE LockInv' /\ EpochInv'
  BY <1>1 DEF Claim
<1>2. CASE Register(w)
  BY <1>2 DEF Register
<1>3. CASE Build(w)
  BY <1>3 DEF Build
<1>4. CASE FetchLock(w)
  BY <1>4 DEF FetchLock
<1>5. CASE AcquireLock(w)
  <2>1. /\ wpc[w] = "fetched" /\ wpc' = [wpc EXCEPT ![w] = "locked"]
        /\ <<wjob[w].pv, wlock[w]>> \notin held
        /\ held' = held \cup {<<wjob[w].pv, wlock[w]>>}
        /\ UNCHANGED <<running, epoch, wjob, wlock, tpc, tpv, tlock>>
    BY <1>5 DEF AcquireLock
  <2>2. LockInv'
    BY <2>1
  <2>3. EpochInv'
    BY <2>1
  <2>. QED BY <2>2, <2>3
<1>6. CASE CheckCurrent(w)
  <2>1. /\ wpc[w] = "locked"
        /\ UNCHANGED <<running, epoch, wjob, wlock, tpc, tpv, tlock>>
    BY <1>6 DEF CheckCurrent
  <2>2. CASE Current(w) /\ Step(w, "locked", "publishing") /\ UNCHANGED held
    BY <2>1, <2>2 DEF Current
  <2>3. CASE Step(w, "locked", "ending") /\ held' = held \ {WLock(w)}
    BY <2>1, <2>3
  <2>. QED BY <1>6, <2>2, <2>3 DEF CheckCurrent
<1>7. CASE Publish(w)
  BY <1>7 DEF Publish
<1>8. CASE PublishFails(w)
  BY <1>8 DEF PublishFails
<1>9. CASE SaveRow(w)
  BY <1>9 DEF SaveRow
<1>10. CASE SaveFails(w)
  BY <1>10 DEF SaveFails
<1>11. CASE Conclude(w)
  BY <1>11 DEF Conclude
<1>12. CASE Record(w)
  <2>1. wpc[w] \in {"recfail", "recskip"} /\ wpc' = [wpc EXCEPT ![w] = "ending"]
    BY <1>12 DEF Record
  <2>2. UNCHANGED <<running, epoch, held, wjob, wlock, tpc, tpv, tlock>>
    BY <1>12 DEF Record
  <2>. QED BY <2>1, <2>2
<1>13. CASE Finish(w)
  BY <1>13, DaemonAssumption DEF Finish
<1>. QED BY <1>1, <1>2, <1>3, <1>4, <1>5, <1>6, <1>7, <1>8, <1>9, <1>10, <1>11,
            <1>12, <1>13 DEF WorkerStep

LEMMA CloserExclusion ==
  ASSUME ExclusionInv, OneTeardown, NEW c \in Closers,
         CloserStep(c) \/ (\E p \in Previews : Close(c, p))
  PROVE  LockInv' /\ EpochInv'
<1>. USE DEF ExclusionInv, LockInv, EpochInv, Holds, Closing, InCommit, WP, WLock, TLock
<1>. USE DEF qVars, pubVars, wVars, hVars, tVars, xVars, CStep, TypeOK, Types
<1>1. ASSUME NEW p \in Previews, Close(c, p) PROVE LockInv' /\ EpochInv'
  BY <1>1 DEF Close
<1>2. CASE CloserFetch(c)
  BY <1>2 DEF CloserFetch
<1>3. CASE CloserAcquire(c)
  <2>1. /\ tpc[c] = "fetched" /\ tpc' = [tpc EXCEPT ![c] = "locked"]
        /\ <<tpv[c], tlock[c]>> \notin held
        /\ held' = held \cup {<<tpv[c], tlock[c]>>}
        /\ UNCHANGED <<running, epoch, wpc, wjob, wlock, tpv, tlock>>
    BY <1>3 DEF CloserAcquire
  <2>2. LockInv'
    BY <2>1
  <2>3. EpochInv'
    BY <2>1
  <2>. QED BY <2>2, <2>3
<1>4. CASE TakeDown(c)
  <2>1. /\ tpc[c] = "locked" /\ tpc' = [tpc EXCEPT ![c] = "taken"]
        /\ running' = [running EXCEPT ![tpv[c]] = None]
        /\ epoch' = [epoch EXCEPT ![tpv[c]] = @ + 1]
        /\ UNCHANGED <<held, wpc, wjob, wlock, tpv, tlock>>
    BY <1>4 DEF TakeDown, CutRunning
  <2>2. tlock[c] = epoch[tpv[c]] /\ tpv[c] \in Previews
    BY <2>1
  <2>3. LockInv'
    BY <2>1
  <2>4. ASSUME NEW w \in Workers, InCommit(w)' PROVE (wlock[w] = epoch[WP(w)])'
    <3>1. wjob[w].pv # tpv[c]
      BY <2>1, <2>2, <2>4
    <3>. QED BY <2>1, <2>4, <3>1 DEF Request
  <2>5. ASSUME NEW w \in Workers, wpc'[w] \in {"fetched", "locked"},
               running'[wjob'[w].pv] = w
        PROVE  (wlock[w] = epoch[WP(w)])'
    BY <2>1, <2>5, DaemonAssumption DEF Request
  <2>6. ASSUME NEW d \in Closers, tpc'[d] \in {"fetched", "locked"}
        PROVE  (tlock[d] = epoch[tpv[d]])'
    BY <2>1, <2>6 DEF OneTeardown
  <2>. QED BY <2>3, <2>4, <2>5, <2>6
<1>5. CASE CloserDequeue(c)
  BY <1>5 DEF CloserDequeue
<1>6. CASE DeleteRow(c)
  <2>1. /\ tpc[c] = "emptied" /\ tpc' = [tpc EXCEPT ![c] = "idle"]
        /\ held' = held \ {TLock(c)} /\ tlock' = [tlock EXCEPT ![c] = 0]
        /\ tpv' = [tpv EXCEPT ![c] = NoRequest.pv]
        /\ UNCHANGED <<running, epoch, wpc, wjob, wlock>>
    BY <1>6 DEF DeleteRow
  <2>2. EpochInv'
    BY <2>1
  <2>3. ASSUME NEW d \in Closers, Closing(d)' PROVE TLock(d)' \in held'
    <3>1. d # c /\ Closing(d) /\ Closing(c) /\ TLock(d)' = TLock(d)
      BY <2>1, <2>3
    <3>2. TLock(d) # TLock(c)
      BY <3>1 DEF OneTeardown
    <3>. QED BY <2>1, <3>1, <3>2
  <2>4. ASSUME NEW w \in Workers, Holds(w)' PROVE WLock(w)' \in held'
    BY <2>1, <2>4
  <2>5. ASSUME NEW d \in Closers, Closing(d)' PROVE Closing(d) /\ TLock(d)' = TLock(d)
    BY <2>1, <2>5
  <2>6. \A w \in Workers : (Holds(w)' <=> Holds(w)) /\ WLock(w)' = WLock(w)
    BY <2>1
  <2>7. ASSUME NEW v \in Workers, NEW w \in Workers, Holds(v)', Holds(w)', v # w
        PROVE  WLock(v)' # WLock(w)'
    BY <2>6, <2>7
  <2>8. ASSUME NEW d \in Closers, NEW w \in Workers, Closing(d)', Holds(w)'
        PROVE  TLock(d)' # WLock(w)'
    <3>1. TLock(d) # WLock(w)
      BY <2>5, <2>6, <2>8
    <3>. QED BY <3>1, <2>5, <2>6, <2>8
  <2>9. LockInv'
    BY <2>3, <2>4, <2>7, <2>8 DEF LockInv
  <2>. QED BY <2>2, <2>9
<1>. QED BY <1>1, <1>2, <1>3, <1>4, <1>5, <1>6 DEF CloserStep

LEMMA CancelExclusion ==
  ASSUME ExclusionInv, NEW x \in Cancellers,
         (\E p \in Previews : CancelRunning(x, p) \/ CancelLook(x, p)) \/ CancelStep(x)
  PROVE  LockInv' /\ EpochInv'
<1>. USE DEF ExclusionInv, LockInv, EpochInv, Holds, Closing, InCommit, WP, WLock, TLock
<1>. USE DEF qVars, pubVars, wVars, hVars, tVars, xVars
<1>1. ASSUME NEW p \in Previews, CancelRunning(x, p) PROVE LockInv' /\ EpochInv'
  BY <1>1, DaemonAssumption DEF CancelRunning, TypeOK, Types
<1>2. ASSUME NEW p \in Previews, CancelLook(x, p) PROVE LockInv' /\ EpochInv'
  BY <1>2 DEF CancelLook
<1>3. CASE CancelCut(x)
  BY <1>3 DEF CancelCut
<1>4. CASE CancelQueued(x)
  BY <1>4 DEF CancelQueued
<1>. QED BY <1>1, <1>2, <1>3, <1>4 DEF CancelStep

LEMMA ExclusionStep == ExclusionInv /\ OneTeardown /\ [Next]_vars => ExclusionInv'
<1>. SUFFICES ASSUME ExclusionInv, OneTeardown, [Next]_vars PROVE ExclusionInv'
  OBVIOUS
<1>1. TypeOK'
  BY TypeStep DEF ExclusionInv
<1>2. LockInv' /\ EpochInv'
  <2>1. CASE UNCHANGED vars
    BY <2>1 DEF vars, ExclusionInv, LockInv, EpochInv, Holds, Closing, InCommit,
                WP, WLock, TLock
  <2>2. CASE Next
    BY <2>2, HookExclusion, WorkerExclusion, CloserExclusion, CancelExclusion DEF Next
  <2>. QED BY <2>1, <2>2
<1>. QED BY <1>1, <1>2 DEF ExclusionInv

LEMMA ExclusionImplies == ExclusionInv => CommitExclusion
BY DEF ExclusionInv, TypeOK, Types, LockInv, EpochInv, CommitExclusion, Holds, InCommit,
       WLock, WP

\* The commit lock does its work as long as no preview has two teardowns at once.
THEOREM CommitsExclude == Spec /\ []OneTeardown => []CommitExclusion
BY ExclusionInit, ExclusionStep, ExclusionImplies, PTL DEF Spec

-----------------------------------------------------------------------------
(* Builds publish in the order they registered.                               *)

Unpublished(w) == wpc[w] \in {"building", "built", "fetched", "locked", "publishing"}

\* A build's turn is its own, no later than the last registration, and equal to
\* it while the build is the registered one; one that has not published has not
\* been served, and past its check everything served is older.
TurnInv ==
  /\ \A p \in Previews : served[p] <= turn[p]
  /\ \A w \in Workers : Active(w) => wturn[w] <= turn[WP(w)]
  /\ \A v, w \in Workers :
       Active(v) /\ Active(w) /\ v # w /\ WP(v) = WP(w) => wturn[v] # wturn[w]
  /\ \A w \in Workers : Active(w) /\ running[WP(w)] = w => wturn[w] = turn[WP(w)]
  /\ \A w \in Workers : Unpublished(w) => wturn[w] # served[WP(w)]
  /\ \A w \in Workers : wpc[w] = "publishing" => wturn[w] > served[WP(w)]

\* A step that leaves turns, registrations and what is served alone, and moves at
\* most one build to a place no more demanding, keeps TurnInv.
LEMMA TurnFrame ==
  ASSUME TypeOK, TurnInv,
         UNCHANGED <<turn, served, wjob, wturn>>,
         running' \in [Previews -> Workers \cup {None}],
         \A p \in Previews, w \in Workers : running'[p] = w => running[p] = w,
         \A w \in Workers : /\ Active(w)' => Active(w)
                            /\ Unpublished(w)' => Unpublished(w)
                            /\ wpc'[w] = "publishing" => wpc[w] = "publishing"
  PROVE  TurnInv'
BY DEF TypeOK, Types, Request, TurnInv, WP

\* A worker that leaves the builds, or stays outside them, keeps TurnInv.
LEMMA TurnLeave ==
  ASSUME TypeOK, TurnInv, NEW w \in Workers,
         UNCHANGED <<turn, served>>,
         \A p \in Previews, v \in Workers : running'[p] = v => running[p] = v,
         \A v \in Workers : v # w => /\ wpc'[v] = wpc[v]
                                     /\ wjob'[v] = wjob[v]
                                     /\ wturn'[v] = wturn[v],
         wpc'[w] \in {"idle", "claimed"}
  PROVE  TurnInv'
<1>. USE DEF TurnInv, WP
<1>1. ~Active(w)' /\ ~Unpublished(w)' /\ wpc'[w] # "publishing"
  BY DEF Active, Unpublished
<1>2. \A v \in Workers : (Active(v)' => v # w /\ Active(v))
                         /\ (Unpublished(v)' => v # w /\ Unpublished(v))
  BY <1>1 DEF Active, Unpublished
<1>3. \A p \in Previews : served'[p] <= turn'[p]
  OBVIOUS
<1>4. \A v \in Workers : Active(v)' => wturn'[v] <= turn'[wjob'[v].pv]
  BY <1>2
<1>5. \A u, v \in Workers :
        Active(u)' /\ Active(v)' /\ u # v /\ wjob'[u].pv = wjob'[v].pv
          => wturn'[u] # wturn'[v]
  BY <1>2
<1>6. ASSUME NEW v \in Workers, Active(v)', running'[wjob'[v].pv] = v
      PROVE  wturn'[v] = turn'[wjob'[v].pv]
  <2>1. Active(v) /\ wjob'[v] = wjob[v] /\ wturn'[v] = wturn[v]
    BY <1>2, <1>6
  <2>2. wjob[v].pv \in Previews
    BY DEF TypeOK, Types, Request
  <2>. QED BY <1>6, <2>1, <2>2
<1>7. \A v \in Workers : Unpublished(v)' => wturn'[v] # served'[wjob'[v].pv]
  BY <1>2
<1>8. \A v \in Workers : wpc'[v] = "publishing" => wturn'[v] > served'[wjob'[v].pv]
  BY <1>1
<1>. QED BY <1>3, <1>4, <1>5, <1>6, <1>7, <1>8

LEMMA TurnClaim ==
  ASSUME ExclusionInv, TurnInv, NEW w \in Workers,
         (\E p \in Previews : Claim(w, p)) \/ Finish(w)
  PROVE  TurnInv'
<1>. USE DEF ExclusionInv
<1>1. ASSUME NEW p \in Previews, Claim(w, p) PROVE TurnInv'
  <2>1. /\ wpc' = [wpc EXCEPT ![w] = "claimed"]
        /\ wjob' = [wjob EXCEPT ![w] = [pv |-> p, req |-> jobs[p].req]]
        /\ UNCHANGED <<turn, served, running, wturn>>
    BY <1>1 DEF Claim, Step, pubVars
  <2>. QED BY <2>1, TurnLeave DEF TypeOK, Types
<1>2. CASE Finish(w)
  <2>1. /\ wpc' = [wpc EXCEPT ![w] = "idle"]
        /\ wjob' = [wjob EXCEPT ![w] = NoRequest]
        /\ wturn' = [wturn EXCEPT ![w] = 0]
        /\ UNCHANGED <<turn, served>>
    BY <1>2 DEF Finish, Step, pubVars
  <2>2. \A p \in Previews, v \in Workers : running'[p] = v => running[p] = v
    BY <1>2, DaemonAssumption DEF Finish, TypeOK, Types
  <2>. QED BY <2>1, <2>2, TurnLeave DEF TypeOK, Types
<1>. QED BY <1>1, <1>2

LEMMA TurnRegister ==
  ASSUME ExclusionInv, TurnInv, NEW w \in Workers, Register(w)
  PROVE  TurnInv'
<1>1. /\ UNCHANGED <<served, wjob>>
      /\ wpc[w] = "claimed" /\ wpc' = [wpc EXCEPT ![w] = "building"]
      /\ running' = [running EXCEPT ![wjob[w].pv] = w]
      /\ turn' = [turn EXCEPT ![wjob[w].pv] = @ + 1]
      /\ wturn' = [wturn EXCEPT ![w] = turn[wjob[w].pv] + 1]
  BY DEF Register, Step, pubVars, WP
<1>. USE <1>1 DEF ExclusionInv, TypeOK, Types, Request, TurnInv, WP
<1>2. \A p \in Previews : served'[p] <= turn'[p]
  OBVIOUS
<1>3. \A v \in Workers : Active(v)' => wturn'[v] <= turn'[wjob'[v].pv]
  BY DEF Active
<1>4. \A u, v \in Workers :
        Active(u)' /\ Active(v)' /\ u # v /\ wjob'[u].pv = wjob'[v].pv
          => wturn'[u] # wturn'[v]
  BY DEF Active
<1>5. \A v \in Workers :
        Active(v)' /\ running'[wjob'[v].pv] = v => wturn'[v] = turn'[wjob'[v].pv]
  BY DEF Active
<1>6. \A v \in Workers : Unpublished(v)' => wturn'[v] # served'[wjob'[v].pv]
  BY DEF Unpublished
<1>7. \A v \in Workers : wpc'[v] = "publishing" => wturn'[v] > served'[wjob'[v].pv]
  OBVIOUS
<1>. QED BY <1>2, <1>3, <1>4, <1>5, <1>6, <1>7

LEMMA TurnCheck ==
  ASSUME ExclusionInv, TurnInv, NEW w \in Workers, CheckCurrent(w)
  PROVE  TurnInv'
<1>1. /\ UNCHANGED <<turn, served, wjob, wturn, running>>
      /\ wpc[w] = "locked"
      /\ wpc' = [wpc EXCEPT ![w] = "ending"] \/ wpc' = [wpc EXCEPT ![w] = "publishing"]
      /\ wpc'[w] = "publishing" => running[wjob[w].pv] = w
  BY DEF CheckCurrent, Current, Step, pubVars, WP, ExclusionInv, TypeOK, Types
<1>2. wpc'[w] = "publishing" => wturn[w] > served[wjob[w].pv]
  <2>. SUFFICES ASSUME wpc'[w] = "publishing" PROVE wturn[w] > served[wjob[w].pv]
    OBVIOUS
  <2>1. wturn[w] = turn[wjob[w].pv] /\ wturn[w] # served[wjob[w].pv]
    BY <1>1 DEF TurnInv, Active, Unpublished, WP
  <2>2. wjob[w].pv \in Previews
    BY DEF ExclusionInv, TypeOK, Types, Request
  <2>3. /\ served[wjob[w].pv] <= turn[wjob[w].pv]
        /\ served[wjob[w].pv] \in Nat /\ turn[wjob[w].pv] \in Nat
    BY <2>2 DEF ExclusionInv, TypeOK, Types, TurnInv
  <2>. QED BY <2>1, <2>3
<1>3. /\ \A v \in Workers : v # w => wpc'[v] = wpc[v]
      /\ wpc'[w] \in {"ending", "publishing"}
  BY <1>1 DEF ExclusionInv, TypeOK, Types
<1>4. \A v \in Workers : /\ Active(v)' => Active(v)
                         /\ Unpublished(v)' => Unpublished(v)
  BY <1>1, <1>3 DEF Active, Unpublished
<1>. QED BY <1>1, <1>2, <1>3, <1>4 DEF TurnInv, WP

LEMMA TurnPublish ==
  ASSUME ExclusionInv, TurnInv, NEW w \in Workers, Publish(w)
  PROVE  TurnInv'
<1>1. /\ UNCHANGED <<turn, wjob, wturn, running>>
      /\ wpc[w] = "publishing" /\ wpc' = [wpc EXCEPT ![w] = "saving"]
      /\ served' = [served EXCEPT ![wjob[w].pv] = wturn[w]]
  BY DEF Publish, Step, WP
<1>2. \A v \in Workers : v # w /\ wpc[v] = "publishing" => wjob[v].pv # wjob[w].pv
  BY <1>1, ExclusionImplies DEF CommitExclusion, InCommit, WP
<1>3. /\ \A v \in Workers : v # w => wpc'[v] = wpc[v]
      /\ wpc'[w] = "saving" /\ wjob[w].pv \in Previews
  BY <1>1 DEF ExclusionInv, TypeOK, Types, Request
<1>4. \A v \in Workers : Active(v)' => Active(v)
  BY <1>1, <1>3 DEF Active
<1>5. \A p \in Previews : served'[p] <= turn'[p]
  <2>1. Active(w) /\ wturn[w] <= turn[wjob[w].pv]
    BY <1>1 DEF Active, TurnInv, WP
  <2>. QED BY <1>1, <1>3, <2>1 DEF ExclusionInv, TypeOK, Types, TurnInv
<1>6. \A v \in Workers : Unpublished(v)' => wturn'[v] # served'[WP(v)']
  <2>. SUFFICES ASSUME NEW v \in Workers, Unpublished(v)'
                PROVE  wturn[v] # served'[wjob[v].pv]
    BY <1>1 DEF WP
  <2>1. v # w /\ Unpublished(v) /\ Active(v) /\ Active(w)
    BY <1>1, <1>3 DEF Unpublished, Active
  <2>2. CASE wjob[v].pv = wjob[w].pv
    <3>1. served'[wjob[v].pv] = wturn[w]
      BY <1>1, <1>3, <2>2 DEF ExclusionInv, TypeOK, Types
    <3>2. wturn[v] # wturn[w]
      BY <2>1, <2>2 DEF TurnInv, WP
    <3>. QED BY <3>1, <3>2
  <2>3. CASE wjob[v].pv # wjob[w].pv
    <3>1. served'[wjob[v].pv] = served[wjob[v].pv]
      BY <1>1, <1>3, <2>3 DEF ExclusionInv, TypeOK, Types, Request
    <3>2. wturn[v] # served[wjob[v].pv]
      BY <2>1 DEF TurnInv, WP
    <3>. QED BY <3>1, <3>2
  <2>. QED BY <2>2, <2>3
<1>7. \A v \in Workers : wpc'[v] = "publishing" => wturn'[v] > served'[WP(v)']
  BY <1>1, <1>2, <1>3 DEF ExclusionInv, TypeOK, Types, Request, TurnInv, WP
<1>. QED BY <1>1, <1>4, <1>5, <1>6, <1>7 DEF TurnInv, WP

LEMMA TurnStep == ExclusionInv /\ TurnInv /\ [Next]_vars => TurnInv'
<1>. SUFFICES ASSUME ExclusionInv, TurnInv, [Next]_vars PROVE TurnInv'
  OBVIOUS
<1>. USE DaemonAssumption DEF qVars, pubVars, wVars, hVars, tVars, xVars, ExclusionInv
<1>1. CASE UNCHANGED vars
  BY <1>1 DEF vars, TurnInv, Active, Unpublished, WP
<1>2. ASSUME NEW h \in Hooks, NEW p \in Previews, Receive(h, p) \/ LinkPR(h, p)
      PROVE  TurnInv'
  BY <1>2 DEF Receive, LinkPR, TurnInv, Active, Unpublished, WP
<1>3. ASSUME NEW h \in Hooks, Enqueue(h) \/ EnqueueFails(h) PROVE TurnInv'
  BY <1>3 DEF Enqueue, EnqueueFails, TurnInv, Active, Unpublished, WP
<1>4. ASSUME NEW p \in Previews, CutRunning(p), UNCHANGED <<wpc, turn, served, wjob, wturn>>
      PROVE  TurnInv'
  BY <1>4, TurnFrame DEF CutRunning, TypeOK, Types, Active, Unpublished
<1>5. ASSUME NEW h \in Hooks, Supersede(h) PROVE TurnInv'
  BY <1>4, <1>5 DEF Supersede, TypeOK, Types, Request
<1>6. ASSUME NEW w \in Workers, WorkerStep(w) PROVE TurnInv'
  <2>1. CASE (\E p \in Previews : Claim(w, p)) \/ Finish(w)
    BY <2>1, TurnClaim
  <2>2. CASE Register(w)
    BY <2>2, TurnRegister
  <2>3. CASE CheckCurrent(w)
    BY <2>3, TurnCheck
  <2>4. CASE Publish(w)
    BY <2>4, TurnPublish
  <2>5. CASE \/ Build(w) \/ FetchLock(w) \/ AcquireLock(w) \/ PublishFails(w)
             \/ SaveRow(w) \/ SaveFails(w) \/ Conclude(w) \/ Record(w)
    <3>1. /\ UNCHANGED <<turn, served, wjob, wturn, running>>
          /\ wpc[w] \notin {"idle", "claimed"}
          /\ \E pc \in WorkerPCs \ {"building", "publishing"} : wpc' = [wpc EXCEPT ![w] = pc]
          /\ wpc[w] \notin {"building", "built", "fetched", "locked", "publishing"}
               => wpc'[w] \notin {"building", "built", "fetched", "locked", "publishing"}
      <4>1. CASE Build(w)
        BY <4>1 DEF Build, Step, WorkerPCs
      <4>2. CASE FetchLock(w)
        BY <4>2 DEF FetchLock, Step, WorkerPCs
      <4>3. CASE AcquireLock(w)
        BY <4>3 DEF AcquireLock, Step, WorkerPCs
      <4>4. CASE PublishFails(w)
        BY <4>4 DEF PublishFails, Step, WorkerPCs
      <4>5. CASE SaveRow(w)
        BY <4>5 DEF SaveRow, Step, WorkerPCs, TypeOK, Types
      <4>6. CASE SaveFails(w)
        BY <4>6 DEF SaveFails, Step, WorkerPCs, TypeOK, Types
      <4>7. CASE Conclude(w)
        BY <4>7 DEF Conclude, Step, WorkerPCs, TypeOK, Types
      <4>8. CASE Record(w)
        <5>1. /\ wpc[w] \in {"recfail", "recskip"} /\ wpc' = [wpc EXCEPT ![w] = "ending"]
              /\ UNCHANGED <<turn, served, wjob, wturn, running>>
          BY <4>8 DEF Record, Step
        <5>. QED BY <5>1 DEF TypeOK, Types, WorkerPCs
      <4>. QED BY <2>5, <4>1, <4>2, <4>3, <4>4, <4>5, <4>6, <4>7, <4>8
    <3>. QED BY <3>1, TurnFrame DEF TypeOK, Types, Active, Unpublished
  <2>. QED BY <1>6, <2>1, <2>2, <2>3, <2>4, <2>5 DEF WorkerStep
<1>7. ASSUME NEW c \in Closers, CloserStep(c) \/ (\E p \in Previews : Close(c, p))
      PROVE  TurnInv'
  <2>1. CASE TakeDown(c)
    BY <1>4, <2>1 DEF TakeDown, TypeOK, Types
  <2>2. CASE ~TakeDown(c)
    <3>1. UNCHANGED <<turn, served, wjob, wturn, running, wpc>>
      BY <1>7, <2>2 DEF CloserStep, Close, CloserFetch, CloserAcquire, CloserDequeue, DeleteRow
    <3>. QED BY <3>1 DEF TurnInv, Active, Unpublished, WP
  <2>. QED BY <2>1, <2>2
<1>8. ASSUME NEW x \in Cancellers, CancelStep(x) PROVE TurnInv'
  BY <1>8 DEF CancelStep, CancelCut, CancelQueued, TurnInv, Active, Unpublished, WP
<1>9. ASSUME NEW x \in Cancellers, NEW p \in Previews, CancelRunning(x, p) PROVE TurnInv'
  BY <1>9, TurnFrame DEF CancelRunning, TypeOK, Types, Active, Unpublished
<1>10. ASSUME NEW x \in Cancellers, NEW p \in Previews, CancelLook(x, p) PROVE TurnInv'
  BY <1>10 DEF CancelLook, TurnInv, Active, Unpublished, WP
<1>. QED BY <1>1, <1>2, <1>3, <1>5, <1>6, <1>7, <1>8, <1>9, <1>10 DEF Next

\* With one teardown of a preview at a time, publishing follows registration order.
THEOREM PublishesInOrder == Spec /\ []OneTeardown => PublishOrder
<1>1. Init => ExclusionInv /\ TurnInv
  BY ExclusionInit DEF Init, TurnInv, Active, Unpublished
<1>2. ExclusionInv /\ TurnInv /\ OneTeardown /\ [Next]_vars => (ExclusionInv /\ TurnInv)'
  BY ExclusionStep, TurnStep
<1>3. ExclusionInv /\ TurnInv /\ [Next]_vars
        => [\A p \in Previews : served'[p] # served[p] => served'[p] > served[p]]_vars
  <2> SUFFICES ASSUME ExclusionInv, TurnInv, Next,
                      NEW p \in Previews, served'[p] # served[p]
               PROVE  served'[p] > served[p]
    OBVIOUS
  <2>1. PICK w \in Workers : Publish(w)
    BY DEF Next, WorkerStep, CloserStep, Receive, LinkPR, Enqueue, EnqueueFails,
           Supersede, Claim, Register, Build, FetchLock, AcquireLock, CheckCurrent,
           PublishFails, SaveRow, SaveFails, Conclude, Record, Finish, Close, CloserFetch, CloserAcquire,
           TakeDown, CloserDequeue, DeleteRow, CancelRunning, CancelLook, CancelStep,
           CancelCut, CancelQueued, pubVars
  <2>2. wpc[w] = "publishing" /\ served' = [served EXCEPT ![wjob[w].pv] = wturn[w]]
    BY <2>1 DEF Publish, Step, WP
  <2>3. p = wjob[w].pv /\ served'[p] = wturn[w]
    BY <2>2 DEF ExclusionInv, TypeOK, Types
  <2>. QED BY <2>2, <2>3 DEF TurnInv, WP
<1>. QED BY <1>1, <1>2, <1>3, PTL DEF Spec, PublishOrder

-----------------------------------------------------------------------------
(* The table and the publications agree.                                      *)

\* Between publishing and saving, what is live is what the build published.
SavingIsLive == \A w \in Workers : wpc[w] = "saving" => live[WP(w)] = wjob[w].req
AgreeInv == SavingIsLive /\ ReadyRowIsLive

\* A step that touches neither live nor any row, and moves no build into or out of
\* "saving" and no teardown out of its writes, keeps AgreeInv.
LEMMA AgreeFrame ==
  ASSUME AgreeInv, UNCHANGED <<live, row>>,
         \A w \in Workers : /\ wpc'[w] = "saving" <=> wpc[w] = "saving"
                            /\ wpc[w] = "saving" => wjob'[w] = wjob[w],
         \A c \in Closers : tpc[c] \in {"taken", "emptied"}
                              => tpc'[c] \in {"taken", "emptied"} /\ tpv'[c] = tpv[c]
  PROVE  AgreeInv'
BY DEF AgreeInv, SavingIsLive, ReadyRowIsLive, WP

RowAgrees(p) ==
  \/ row[p].st # "ready"
  \/ live[p] = row[p].req
  \/ \E w \in Workers : wpc[w] = "saving" /\ WP(w) = p
  \/ \E c \in Closers : tpc[c] \in {"taken", "emptied"} /\ tpv[c] = p

\* A step that leaves a preview, and who is at work on it, alone.
LEMMA AgreeElsewhere ==
  ASSUME NEW p, RowAgrees(p), live'[p] = live[p], row'[p] = row[p],
         \A w \in Workers : wpc[w] = "saving" /\ wjob[w].pv = p
                              => wpc'[w] = "saving" /\ wjob'[w].pv = p,
         \A c \in Closers : tpc[c] \in {"taken", "emptied"} /\ tpv[c] = p
                              => tpc'[c] \in {"taken", "emptied"} /\ tpv'[c] = p
  PROVE  RowAgrees(p)'
BY DEF RowAgrees, WP

LEMMA RowsAgreeEach == ReadyRowIsLive <=> \A p \in Previews : RowAgrees(p)
BY DEF ReadyRowIsLive, RowAgrees

LEMMA AgreeWorker ==
  ASSUME ExclusionInv, AgreeInv, NEW w \in Workers, WorkerStep(w)
  PROVE  AgreeInv'
<1>. USE DEF ExclusionInv, Step, WP, tVars
<1>0. wjob[w].pv \in Previews
  BY DEF TypeOK, Types, Request
<1>1. ASSUME NEW p \in Previews, Claim(w, p) PROVE AgreeInv'
  BY <1>1, AgreeFrame DEF Claim, TypeOK, Types, pubVars
<1>2. CASE Register(w)
  BY <1>2, AgreeFrame DEF Register, TypeOK, Types, pubVars
<1>3. CASE Build(w) \/ FetchLock(w) \/ AcquireLock(w)
  BY <1>3, AgreeFrame DEF Build, FetchLock, AcquireLock, TypeOK, Types, pubVars
<1>4. CASE CheckCurrent(w)
  BY <1>4, AgreeFrame DEF CheckCurrent, TypeOK, Types, pubVars
<1>5. CASE Publish(w)
  <2>1. /\ wpc[w] = "publishing" /\ wpc' = [wpc EXCEPT ![w] = "saving"]
        /\ live' = [live EXCEPT ![wjob[w].pv] = wjob[w].req]
        /\ UNCHANGED <<row, wjob, tpc, tpv>>
    BY <1>5 DEF Publish
  <2>2. \A v \in Workers : v # w /\ wpc[v] = "saving" => wjob[v].pv # wjob[w].pv
    BY <2>1, ExclusionImplies DEF CommitExclusion, InCommit
  <2>3. SavingIsLive'
    BY <1>0, <2>1, <2>2 DEF AgreeInv, SavingIsLive, TypeOK, Types
  <2>4. ASSUME NEW p \in Previews PROVE RowAgrees(p)'
    <3>1. CASE p = wjob[w].pv
      BY <3>1, <2>1 DEF RowAgrees, TypeOK, Types
    <3>2. CASE p # wjob[w].pv
      <4>1. RowAgrees(p)
        BY RowsAgreeEach DEF AgreeInv
      <4>. QED BY <1>0, <2>1, <3>2, <4>1, AgreeElsewhere DEF TypeOK, Types
    <3>. QED BY <3>1, <3>2
  <2>5. ReadyRowIsLive'
    BY <2>4 DEF ReadyRowIsLive, RowAgrees
  <2>. QED BY <2>3, <2>5 DEF AgreeInv
<1>6. CASE PublishFails(w)
  BY <1>6, AgreeFrame DEF PublishFails, TypeOK, Types, pubVars
<1>7. CASE SaveRow(w)
  <2>1. /\ wpc[w] = "saving" /\ wpc' = [wpc EXCEPT ![w] = "ending"]
        /\ row' = [row EXCEPT ![wjob[w].pv] = [st |-> "ready", req |-> wjob[w].req]]
        /\ UNCHANGED <<live, wjob, tpc, tpv>>
    BY <1>7 DEF SaveRow
  <2>2. SavingIsLive'
    BY <2>1 DEF AgreeInv, SavingIsLive, TypeOK, Types
  <2>3. live[wjob[w].pv] = wjob[w].req
    BY <2>1 DEF AgreeInv, SavingIsLive
  <2>4. ASSUME NEW p \in Previews PROVE RowAgrees(p)'
    <3>1. CASE p = wjob[w].pv
      BY <3>1, <1>0, <2>1, <2>3 DEF RowAgrees, TypeOK, Types
    <3>2. CASE p # wjob[w].pv
      <4>1. RowAgrees(p)
        BY RowsAgreeEach DEF AgreeInv
      <4>. QED BY <1>0, <2>1, <3>2, <4>1, AgreeElsewhere DEF TypeOK, Types
    <3>. QED BY <3>1, <3>2
  <2>5. ReadyRowIsLive'
    BY <2>4 DEF ReadyRowIsLive, RowAgrees
  <2>. QED BY <2>2, <2>5 DEF AgreeInv
<1>8. CASE SaveFails(w)
  <2>1. /\ wpc[w] = "saving" /\ wpc' = [wpc EXCEPT ![w] = "failed"]
        /\ live' = [live EXCEPT ![wjob[w].pv] = 0]
        /\ row' = [row EXCEPT ![wjob[w].pv] = NoRow]
        /\ UNCHANGED <<wjob, tpc, tpv>>
    BY <1>8 DEF SaveFails
  <2>2. \A v \in Workers : v # w /\ wpc[v] = "saving" => wjob[v].pv # wjob[w].pv
    BY <2>1, ExclusionImplies DEF CommitExclusion, InCommit
  <2>3. SavingIsLive'
    BY <1>0, <2>1, <2>2 DEF AgreeInv, SavingIsLive, TypeOK, Types
  <2>4. ASSUME NEW p \in Previews PROVE RowAgrees(p)'
    <3>1. CASE p = wjob[w].pv
      BY <3>1, <1>0, <2>1 DEF RowAgrees, TypeOK, Types, NoRow
    <3>2. CASE p # wjob[w].pv
      <4>1. RowAgrees(p)
        BY RowsAgreeEach DEF AgreeInv
      <4>. QED BY <1>0, <2>1, <3>2, <4>1, AgreeElsewhere DEF TypeOK, Types
    <3>. QED BY <3>1, <3>2
  <2>5. ReadyRowIsLive'
    BY <2>4 DEF ReadyRowIsLive, RowAgrees
  <2>. QED BY <2>3, <2>5 DEF AgreeInv
<1>9. CASE Conclude(w)
  BY <1>9, AgreeFrame DEF Conclude, TypeOK, Types, pubVars
<1>10. CASE Record(w)
  <2>1. \E st \in {"failed", "skipped"} :
          row' = [row EXCEPT ![wjob[w].pv] = [st |-> st, req |-> wjob[w].req]]
    BY <1>10 DEF Record
  <2>2. /\ wpc[w] \in {"recfail", "recskip"} /\ wpc' = [wpc EXCEPT ![w] = "ending"]
        /\ UNCHANGED <<live, wjob, tpc, tpv>>
    BY <1>10 DEF Record
  <2>3. SavingIsLive'
    BY <2>2 DEF AgreeInv, SavingIsLive, TypeOK, Types
  <2>4. \A p \in Previews : row'[p].st = "ready" => row'[p] = row[p]
    BY <1>0, <2>1 DEF TypeOK, Types
  <2>5. \A v \in Workers : wpc[v] = "saving" => wpc'[v] = "saving"
    BY <2>2 DEF TypeOK, Types
  <2>6. ReadyRowIsLive'
    BY <2>2, <2>4, <2>5 DEF AgreeInv, ReadyRowIsLive
  <2>. QED BY <2>3, <2>6 DEF AgreeInv
<1>11. CASE Finish(w)
  BY <1>11, AgreeFrame DEF Finish, TypeOK, Types, pubVars
<1>. QED BY <1>1, <1>2, <1>3, <1>4, <1>5, <1>6, <1>7, <1>8, <1>9, <1>10, <1>11
         DEF WorkerStep

LEMMA AgreeCloser ==
  ASSUME ExclusionInv, AgreeInv, NEW c \in Closers,
         CloserStep(c) \/ (\E p \in Previews : Close(c, p))
  PROVE  AgreeInv'
<1>. USE DEF ExclusionInv, CStep, TLock, WP, wVars
<1>1. ASSUME NEW p \in Previews, Close(c, p) PROVE AgreeInv'
  BY <1>1, AgreeFrame DEF Close, TypeOK, Types, pubVars
<1>2. CASE CloserFetch(c) \/ CloserAcquire(c) \/ CloserDequeue(c)
  BY <1>2, AgreeFrame DEF CloserFetch, CloserAcquire, CloserDequeue, TypeOK, Types, pubVars
<1>3. CASE TakeDown(c)
  <2>1. /\ tpc[c] = "locked" /\ tpc' = [tpc EXCEPT ![c] = "taken"]
        /\ live' = [live EXCEPT ![tpv[c]] = 0]
        /\ UNCHANGED <<row, wpc, wjob, tpv>>
    BY <1>3 DEF TakeDown
  <2>2. \A w \in Workers : wpc[w] = "saving" => wjob[w].pv # tpv[c]
    BY <2>1 DEF LockInv, EpochInv, Closing, Holds, InCommit, WLock
  <2>3. SavingIsLive'
    BY <2>1, <2>2 DEF AgreeInv, SavingIsLive, TypeOK, Types, Request
  <2>4. ASSUME NEW p \in Previews PROVE RowAgrees(p)'
    <3>1. CASE p = tpv[c]
      BY <3>1, <2>1 DEF RowAgrees, TypeOK, Types
    <3>2. CASE p # tpv[c]
      <4>1. RowAgrees(p)
        BY RowsAgreeEach DEF AgreeInv
      <4>. QED BY <2>1, <3>2, <4>1, AgreeElsewhere DEF TypeOK, Types
    <3>. QED BY <3>1, <3>2
  <2>5. ReadyRowIsLive'
    BY <2>4 DEF ReadyRowIsLive, RowAgrees
  <2>. QED BY <2>3, <2>5 DEF AgreeInv
<1>4. CASE DeleteRow(c)
  <2>1. /\ tpc[c] = "emptied" /\ tpc' = [tpc EXCEPT ![c] = "idle"]
        /\ row' = [row EXCEPT ![tpv[c]] = NoRow]
        /\ tpv' = [tpv EXCEPT ![c] = NoRequest.pv]
        /\ UNCHANGED <<live, wpc, wjob>>
    BY <1>4 DEF DeleteRow
  <2>2. SavingIsLive'
    BY <2>1 DEF AgreeInv, SavingIsLive
  <2>3. ASSUME NEW p \in Previews PROVE RowAgrees(p)'
    <3>1. CASE p = tpv[c]
      BY <3>1, <2>1 DEF RowAgrees, TypeOK, Types, NoRow
    <3>2. CASE p # tpv[c]
      <4>1. RowAgrees(p)
        BY RowsAgreeEach DEF AgreeInv
      <4>. QED BY <2>1, <3>2, <4>1, AgreeElsewhere DEF TypeOK, Types
    <3>. QED BY <3>1, <3>2
  <2>4. ReadyRowIsLive'
    BY <2>3 DEF ReadyRowIsLive, RowAgrees
  <2>. QED BY <2>2, <2>4 DEF AgreeInv
<1>. QED BY <1>1, <1>2, <1>3, <1>4 DEF CloserStep

\* A ready row names what is served, for any number of workers and handlers.
THEOREM RowsAgree == Spec /\ []OneTeardown => []ReadyRowIsLive
<1>1. Init => ExclusionInv /\ AgreeInv
  BY ExclusionInit DEF Init, AgreeInv, SavingIsLive, ReadyRowIsLive, NoRow
<1>2. ExclusionInv /\ AgreeInv /\ OneTeardown /\ [Next]_vars => (ExclusionInv /\ AgreeInv)'
  <2>. SUFFICES ASSUME ExclusionInv, AgreeInv, OneTeardown, [Next]_vars
                PROVE  AgreeInv'
    BY ExclusionStep
  <2>1. CASE UNCHANGED vars
    BY <2>1, AgreeFrame DEF vars
  <2>2. ASSUME NEW h \in Hooks, NEW p \in Previews,
               Receive(h, p) \/ LinkPR(h, p) \/ Enqueue(h) \/ EnqueueFails(h) \/ Supersede(h)
        PROVE  AgreeInv'
    <3>1. UNCHANGED <<live, row, wpc, wjob, tpc, tpv>>
      BY <2>2 DEF Receive, LinkPR, Enqueue, EnqueueFails, Supersede, pubVars, wVars, tVars
    <3>. QED BY <3>1, AgreeFrame
  <2>3. ASSUME NEW x \in Cancellers, NEW p \in Previews,
               CancelRunning(x, p) \/ CancelLook(x, p) \/ CancelStep(x)
        PROVE  AgreeInv'
    <3>1. UNCHANGED <<live, row, wpc, wjob, tpc, tpv>>
      BY <2>3
         DEF CancelRunning, CancelLook, CancelStep, CancelCut, CancelQueued, pubVars, wVars, tVars
    <3>. QED BY <3>1, AgreeFrame
  <2>4. \E p \in Previews : TRUE
    BY DaemonAssumption
  <2>. QED BY <2>1, <2>2, <2>3, <2>4, AgreeWorker, AgreeCloser DEF Next
<1>3. AgreeInv => ReadyRowIsLive
  BY DEF AgreeInv
<1>. QED BY <1>1, <1>2, <1>3, PTL DEF Spec

-----------------------------------------------------------------------------
(* The handle of a build, by which it can be superseded or cancelled. *)

\* What may become of the build whose entry leaves d.running.
Released(p, w) ==
  \/ wcut'[w] \/ wpc'[w] = "idle"
  \/ \E x \in Cancellers : xpc'[x] = "cancel" /\ xpv'[x] = p /\ xturn'[x] = wturn[w]

\* Whoever takes an entry out of d.running takes it from a build that it ends.
LEMMA HandleStep ==
  ASSUME TypeOK, Next, NEW p \in Previews, NEW w \in Workers, running[p] = w, running'[p] = None
  PROVE  Released(p, w)
<1>. USE DaemonAssumption DEF TypeOK, Types
<1>1. ASSUME NEW q \in Previews, CutRunning(q) PROVE Released(p, w)
  <2>1. q = p
    BY <1>1 DEF CutRunning
  <2>2. wcut'[w] = (wcut[w] \/ running[p] = w)
    BY <1>1, <2>1 DEF CutRunning
  <2>. QED BY <2>2 DEF Released
<1>2. ASSUME NEW h \in Hooks, Supersede(h) PROVE Released(p, w)
  BY <1>1, <1>2 DEF Supersede, Request
<1>3. ASSUME NEW c \in Closers, TakeDown(c) PROVE Released(p, w)
  BY <1>1, <1>3 DEF TakeDown
<1>4. ASSUME NEW v \in Workers, Register(v) PROVE FALSE
  <2>1. running' = [running EXCEPT ![WP(v)] = v] /\ v # None
    BY <1>4 DEF Register
  <2>. QED BY <2>1
<1>5. ASSUME NEW v \in Workers, Finish(v) PROVE Released(p, w)
  <2>1. v = w
    BY <1>5 DEF Finish
  <2>2. wpc'[w] = "idle"
    BY <1>5, <2>1 DEF Finish, Step
  <2>. QED BY <2>2 DEF Released
<1>6. ASSUME NEW x \in Cancellers, NEW q \in Previews, CancelRunning(x, q) PROVE Released(p, w)
  <2>1. q = p
    BY <1>6 DEF CancelRunning
  <2>2. xpc'[x] = "cancel" /\ xpv'[x] = p /\ xturn'[x] = wturn[w]
    BY <1>6, <2>1 DEF CancelRunning
  <2>. QED BY <2>2 DEF Released
<1>7. ASSUME running' = running PROVE FALSE
  BY <1>7
<1>8. ASSUME NEW v \in Workers, WorkerStep(v) PROVE Register(v) \/ Finish(v) \/ running' = running
  BY <1>8 DEF WorkerStep, Claim, Build, FetchLock, AcquireLock, CheckCurrent, Publish, PublishFails, SaveRow,
              SaveFails, Conclude, Record
<1>9. ASSUME NEW c \in Closers, CloserStep(c) \/ (\E q \in Previews : Close(c, q))
      PROVE  TakeDown(c) \/ running' = running
  BY <1>9 DEF CloserStep, Close, CloserFetch, CloserAcquire, CloserDequeue, DeleteRow
<1>10. ASSUME NEW x \in Cancellers, NEW q \in Previews, CancelStep(x) \/ CancelLook(x, q)
       PROVE  running' = running
  BY <1>10 DEF CancelStep, CancelLook, CancelCut, CancelQueued
<1>11. ASSUME NEW h \in Hooks, NEW q \in Previews, Receive(h, q) \/ LinkPR(h, q) \/ Enqueue(h) \/ EnqueueFails(h)
       PROVE  running' = running
  BY <1>11 DEF Receive, LinkPR, Enqueue, EnqueueFails
<1>. QED
  BY <1>2, <1>3, <1>4, <1>5, <1>6, <1>7, <1>8, <1>9, <1>10, <1>11 DEF Next

\* A late finisher cannot take away the handle of the build that replaced it.
THEOREM HandleStays == Spec => HandleKept
<1>1. Init => TypeOK
  BY DaemonAssumption, NoRequestType
     DEF Init, TypeOK, Types, JobsTimed, Queued, Request, WorkerPCs, NoRow
<1>2. TypeOK /\ [Next]_vars
        => [\A p \in Previews, w \in Workers :
              running[p] = w /\ running'[p] = None
                => \/ wcut'[w] \/ wpc'[w] = "idle"
                   \/ \E x \in Cancellers :
                        xpc'[x] = "cancel" /\ xpv'[x] = p /\ xturn'[x] = wturn[w]]_vars
  BY HandleStep DEF Released
<1>. QED BY <1>1, <1>2, TypeStep, PTL DEF Spec, HandleKept
=============================================================================
