------------------------------- MODULE Reports -------------------------------
(***************************************************************************)
(* What one pull request's comment is told: the lifecycle guard            *)
(* (staleReport) and the debouncing publisher, with the builds, Cancel,    *)
(* teardown and shutdown that report through them. Everything here is      *)
(* keyed by preview, so one preview is the whole state. The write to the   *)
(* platform is one step here; module Comment takes it apart.               *)
(***************************************************************************)
EXTENDS Naturals

CONSTANTS
  Requests,      (* builds asked for: pushes and Rebuilds                   *)
  HeadCommits,   (* head commits; two requests may have the same            *)
  Flushers,      (* goroutines writing to the platform at one time (bound)  *)
  Main, Cancel,  (* the goroutines in publisher.Close and in CancelBuild    *)
  Nobody,        (* no commit, no request                               *)
  MaxTeardowns,  (* bound                                                   *)
  Shutdown       (* whether the daemon may shut down                        *)

ASSUME ReportsAssumption ==
  /\ MaxTeardowns \in Nat
  /\ Shutdown \in BOOLEAN
  /\ Cancel \notin Requests /\ Main \notin Flushers
  /\ Nobody \notin HeadCommits

VARIABLES
  headOf,     \* the commit each request builds
  step, cut,  \* each request: where it is, whether its context is cancelled
  cancelled,  \* the request CancelBuild is stopping, or Nobody
  mark,       \* d.reported: the furthest state of the commit last reported
  out,        \* per goroutine: a report past the guard, not yet handed over
  sent,       \* history: the newest report handed to the publisher
  taken,      \* history: the newest one a goroutine took to write
  pending,    \* publisher.pending: the report waiting and whether its timer runs
  closer,     \* publisher.Close: "open", "draining", "closed"
  old,        \* history: goroutines that have been writing since before Close
  fl,         \* per writing goroutine: the report it is writing
  closing,        \* teardown: step
  teardowns   \* number of teardowns begun

dVars == <<headOf, step, cut, cancelled, mark, out>>
pVars == <<sent, taken, pending, closer>>
tVars == <<closing, teardowns>>
writeVars == <<fl, old>>
reportVars == <<dVars, pVars, writeVars, tVars>>

Callers == Requests \cup {Cancel}
Writers == Flushers \cup {Main}

\* Ready, failed and skipped end a commit's lifecycle and rank the same.
Rank(st) == CASE st = "queued" -> 1 [] st = "building" -> 2 [] st = "ended" -> 3

NoReport == [commit |-> Nobody, st |-> "none"]
NoMark == [commit |-> Nobody, rank |-> 0]
NoPending == [rep |-> NoReport, armed |-> FALSE]

Waiting == pending.rep # NoReport
NotWriting(f) == fl[f] = NoReport
Free(g) == out[g] = NoReport

ReportsInit ==
  /\ headOf \in [Requests -> HeadCommits]
  /\ step = [r \in Requests |-> "new"]
  /\ cut = [r \in Requests |-> FALSE]
  /\ cancelled = Nobody
  /\ mark = NoMark
  /\ out = [g \in Callers |-> NoReport]
  /\ sent = NoReport /\ taken = NoReport
  /\ pending = NoPending
  /\ closer = "open" /\ old = {}
  /\ fl = [f \in Writers |-> NoReport]
  /\ closing = "idle" /\ teardowns = 0

-----------------------------------------------------------------------------
(* report: the guard under d.mu, then the publisher. *)

\* staleReport: the commit has already passed this state.
Stale(c, st) == mark.commit = c /\ Rank(st) < mark.rank

\* A goroutine's report passes the guard and is now in its hands, or is dropped.
Mark(g, c, st) ==
  IF Stale(c, st)
  THEN UNCHANGED <<mark, out>>
  ELSE /\ mark' = [commit |-> c, rank |-> Rank(st)]
       /\ out' = [out EXCEPT ![g] = [commit |-> c, st |-> st]]

\* Mutant: the newer report does not replace the one that waits.
KeepsOlder(rep) == pending' = IF Waiting THEN pending ELSE [rep |-> rep, armed |-> TRUE]

\* A waiting report is replaced and its timer left alone; otherwise a timer starts.
Hold(rep) == pending' = [rep |-> rep, armed |-> IF Waiting THEN pending.armed ELSE TRUE]

\* publisher.send. After Close a straggler is written by a goroutine of its own.
Send(g) ==
  LET rep == out[g] IN
  /\ ~Free(g)
  /\ out' = [out EXCEPT ![g] = NoReport]
  /\ sent' = rep
  /\ \/ /\ closer = "open"
        /\ Hold(rep)
        /\ UNCHANGED <<taken, fl>>
     \/ /\ closer # "open"
        /\ taken' = rep
        /\ \E f \in Flushers : NotWriting(f) /\ fl' = [fl EXCEPT ![f] = rep]
        /\ UNCHANGED pending
  /\ UNCHANGED <<headOf, step, cut, cancelled, mark, closer, old, tVars>>

-----------------------------------------------------------------------------
(* The goroutines that report: handleBuild and build for each request. *)

Advance(r, from, to) ==
  /\ Free(r)
  /\ step[r] = from
  /\ step' = [step EXCEPT ![r] = to]

\* handleBuild reports "queued", then enqueues.
Ask(r) ==
  /\ Advance(r, "new", "queued")
  /\ Mark(r, headOf[r], "queued")
  /\ UNCHANGED <<headOf, cut, cancelled, pVars, writeVars, tVars>>

\* A worker claims the job and registers its build.
Start(r) ==
  /\ Advance(r, "queued", "registered")
  /\ UNCHANGED <<headOf, cut, cancelled, mark, out, pVars, writeVars, tVars>>

ReportBuilding(r) ==
  /\ Advance(r, "registered", "running")
  /\ Mark(r, headOf[r], "building")
  /\ UNCHANGED <<headOf, cut, cancelled, pVars, writeVars, tVars>>

\* The pipeline returned: a cancelled build ends here and says nothing.
Conclude(r) ==
  /\ Advance(r, "running", IF cut[r] THEN "done" ELSE "concluding")
  /\ UNCHANGED <<headOf, cut, cancelled, mark, out, pVars, writeVars, tVars>>

ReportEnd(r) ==
  /\ Advance(r, "concluding", "done")
  /\ Mark(r, headOf[r], "ended")
  /\ UNCHANGED <<headOf, cut, cancelled, pVars, writeVars, tVars>>

Registered(r) == step[r] \in {"registered", "running", "concluding"}

\* handleBuild of another push abandons the registered build.
Supersede(q, r) ==
  /\ q # r /\ Free(q) /\ step[q] \in {"queued", "registered"} /\ Registered(r) /\ ~cut[r]
  /\ cut' = [cut EXCEPT ![r] = TRUE]
  /\ UNCHANGED <<headOf, step, cancelled, mark, out, pVars, writeVars, tVars>>

\* CancelBuild stops the registered build, or takes the queued job away ...
CancelBuild(r) ==
  /\ cancelled = Nobody
  /\ \/ Registered(r) /\ ~cut[r] /\ cut' = [cut EXCEPT ![r] = TRUE] /\ UNCHANGED step
     \/ Advance(r, "queued", "done") /\ UNCHANGED cut
  /\ cancelled' = r
  /\ UNCHANGED <<headOf, mark, out, pVars, writeVars, tVars>>

\* ... and reports the failure nobody else will.
ReportCancelled ==
  /\ cancelled # Nobody /\ Free(Cancel)
  /\ Mark(Cancel, headOf[cancelled], "ended")
  /\ cancelled' = Nobody
  /\ UNCHANGED <<headOf, step, cut, pVars, writeVars, tVars>>

-----------------------------------------------------------------------------
(* publisher.flush and Close. *)

\* Mutant: the entry is written and its timer left running.
FlushRearms(f) ==
  /\ pending.armed
  /\ NotWriting(f)
  /\ fl' = [fl EXCEPT ![f] = pending.rep]
  /\ taken' = pending.rep
  /\ pending' = [pending EXCEPT !.rep = NoReport]
  /\ UNCHANGED <<dVars, sent, closer, old, tVars>>

\* The timer fires: whatever is pending now is taken and written.
Flush(f) ==
  /\ pending.armed
  /\ NotWriting(f)
  /\ fl' = [fl EXCEPT ![f] = pending.rep]
  /\ taken' = pending.rep
  /\ pending' = NoPending
  /\ UNCHANGED <<dVars, sent, closer, old, tVars>>

\* Close stops the timers and writes what they held.
Close ==
  /\ Shutdown /\ closer = "open"
  /\ closer' = "draining"
  /\ pending' = NoPending
  /\ IF Waiting
     THEN /\ fl' = [fl EXCEPT ![Main] = pending.rep]
          /\ taken' = pending.rep
     ELSE UNCHANGED <<taken, fl>>
  /\ old' = {f \in Writers : fl'[f] # NoReport}
  /\ UNCHANGED <<dVars, sent, tVars>>

\* Mutant: only its own writes are waited for.
CloseReturnsEarly ==
  /\ closer = "draining" /\ NotWriting(Main)
  /\ closer' = "closed"
  /\ UNCHANGED <<dVars, sent, taken, pending, writeVars, tVars>>

\* wg.Wait: no flush is left running.
CloseReturns ==
  /\ closer = "draining"
  /\ \A f \in Writers : NotWriting(f)
  /\ closer' = "closed"
  /\ UNCHANGED <<dVars, sent, taken, pending, writeVars, tVars>>

-----------------------------------------------------------------------------
(* The platform. *)

\* client.Publish ends: the comment shows the report, or the report is lost.
Written(f) ==
  /\ ~NotWriting(f)
  /\ fl' = [fl EXCEPT ![f] = NoReport] /\ old' = old \ {f}
  /\ UNCHANGED <<dVars, pVars, tVars>>

-----------------------------------------------------------------------------
(* teardown. *)

\* Builds and job are abandoned and the mark forgotten ...
TakeDown ==
  /\ closing = "idle" /\ teardowns < MaxTeardowns
  /\ cut' = [r \in Requests |-> cut[r] \/ Registered(r)]
  /\ step' = [r \in Requests |-> IF step[r] = "queued" /\ Free(r) THEN "done" ELSE step[r]]
  /\ mark' = NoMark
  /\ teardowns' = teardowns + 1
  /\ closing' = "taken"
  /\ UNCHANGED <<headOf, cancelled, out, pVars, writeVars>>

\* ... and at the end the comment is deleted.
Retract ==
  /\ closing = "taken"
  /\ closing' = "idle"
  /\ UNCHANGED <<dVars, pVars, writeVars, teardowns>>

-----------------------------------------------------------------------------
Build(r) == Start(r) \/ ReportBuilding(r) \/ Conclude(r) \/ ReportEnd(r)

ReportsNext ==
  \/ \E g \in Callers : Send(g)
  \/ \E r \in Requests : Ask(r) \/ Build(r) \/ CancelBuild(r)
  \/ \E q, r \in Requests : Supersede(q, r)
  \/ ReportCancelled
  \/ \E f \in Flushers : Flush(f)
  \/ Close \/ CloseReturns
  \/ \E f \in Writers : Written(f)
  \/ TakeDown \/ Retract

ReportsSpec == ReportsInit /\ [][ReportsNext]_reportVars

-----------------------------------------------------------------------------
States == {"none", "queued", "building", "ended"}
Report == [commit : HeadCommits \cup {Nobody}, st : States]

\* Every variable has its type, and a timer runs only for a report that waits.
ReportsTypeOK ==
  /\ headOf \in [Requests -> HeadCommits]
  /\ step \in [Requests -> {"new", "queued", "registered", "running", "concluding", "done"}]
  /\ cut \in [Requests -> BOOLEAN]
  /\ cancelled \in Requests \cup {Nobody}
  /\ mark \in [commit : HeadCommits \cup {Nobody}, rank : 0..3]
  /\ out \in [Callers -> Report]
  /\ sent \in Report /\ taken \in Report
  /\ pending \in [rep : Report, armed : BOOLEAN] /\ (pending.armed => Waiting)
  /\ closer \in {"open", "draining", "closed"} /\ old \subseteq Writers
  /\ fl \in [Writers -> Report]
  /\ closing \in {"idle", "taken"}
  /\ teardowns \in 0..MaxTeardowns

\* The newest report handed over is the one that waits, with its timer running, or it has
\* been taken to the platform: a burst, a flush in between or a shutdown never drops the
\* last word or puts it off for ever.
NewestKept == IF Waiting THEN sent = pending.rep /\ pending.armed ELSE sent = taken

\* When Close has returned, no write of a report from before it is still under way.
ClosedIsDrained ==
  closer = "closed" => old = {}
=============================================================================
