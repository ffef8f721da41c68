------------------------------ MODULE ShareGate ------------------------------
(***************************************************************************)
(* ShareGate: the queue every zrok share creation of this machine goes     *)
(* through, and the budget file its processes share under a lock file that *)
(* is taken over when its holder was killed. Time is counted in ticks, and *)
(* a deadline is kept as the ticks that are left of it.                    *)
(***************************************************************************)
EXTENDS Integers, Sequences, FiniteSets, SequencesExt

CONSTANTS
  Callers,   (* goroutines that create a share                              *)
  Processes, (* the daemon and the tunnel processes of one environment      *)
  ProcOf,    (* the process of a caller                                     *)
  Limit,     (* ShareGateLimit                                              *)
  Window,    (* ShareGateWindow, in ticks                                   *)
  Quiet,     (* ShareGateQuiet, in ticks                                    *)
  MaxAsks,   (* bound: shares asked for                                     *)
  MaxKills   (* bound: processes killed                                     *)

QuietAfter == 2 \* shareGateQuietAfter

ASSUME GateAssumption ==
  /\ Limit \in Nat \ {0} /\ Window \in Nat \ {0} /\ Quiet \in Nat /\ Quiet >= Window
  /\ MaxAsks \in Nat /\ MaxKills \in Nat
  /\ ProcOf \in [Callers -> Processes]
  /\ {"free", "dead"} \cap Callers = {}

VARIABLES
  queue,    \* ShareGate.queue of each process
  hot,      \* the callers whose captured g.changed has been closed
  gpc,      \* a caller's step
  budget,   \* the state file
  seen,     \* the state a holder of the lock read
  lock,     \* the lock file: "free", "dead" when its holder was killed, or a caller
  stealing, \* callers that saw an old lock file and are about to remove it
  raced,    \* a lock file that was removed was a living caller's
  recent,   \* how many shares were charged to the budget, by their age in ticks
  asks, kills

gateVars == <<queue, hot, gpc, budget, seen, lock, stealing, raced, recent, asks, kills>>

ZeroBudget == [used |-> 0, left |-> 0, quiet |-> 0, refused |-> 0]

GateInit ==
  /\ queue = [p \in Processes |-> <<>>]
  /\ hot = {} /\ stealing = {} /\ raced = FALSE
  /\ gpc = [c \in Callers |-> "idle"]
  /\ budget = ZeroBudget /\ seen = [c \in Callers |-> ZeroBudget]
  /\ lock = "free"
  /\ recent = [age \in 0..(Window - 1) |-> 0]
  /\ asks = 0 /\ kills = 0

Queued(c) == c \in ToSet(queue[ProcOf[c]])
GateStep(c, from, to) == gpc[c] = from /\ gpc' = [gpc EXCEPT ![c] = to]

\* Mutant: a waiter that goes does not wake the rest.
LeaveSilently(c) ==
  /\ queue' = [queue EXCEPT ![ProcOf[c]] = RemoveFirst(@, c)]
  /\ UNCHANGED hot

\* The waiter goes, and closes the channel the others of its process wait on.
Leave(c) ==
  /\ queue' = [queue EXCEPT ![ProcOf[c]] = RemoveFirst(@, c)]
  /\ hot' = hot \cup {d \in Callers : ProcOf[d] = ProcOf[c] /\ gpc[d] # "idle"}

-----------------------------------------------------------------------------
(* The lock file, and the budget read under it. *)

Lock(c) ==
  /\ c \notin stealing /\ lock = "free"
  /\ \/ GateStep(c, "take", "taking")
     \/ GateStep(c, "record", "recording")
  /\ lock' = c
  /\ seen' = [seen EXCEPT ![c] = budget]
  /\ UNCHANGED <<queue, hot, budget, stealing, raced, recent, asks, kills>>

\* A lock older than half a minute is removed: the look and the removal are two steps.
SeeDeadLock(c) ==
  /\ gpc[c] \in {"take", "record"} /\ lock = "dead"
  /\ stealing' = stealing \cup {c}
  /\ UNCHANGED <<queue, hot, gpc, budget, seen, lock, raced, recent, asks, kills>>

RemoveDeadLock(c) ==
  /\ c \in stealing
  /\ stealing' = stealing \ {c}
  /\ lock' = "free"
  /\ raced' = (raced \/ lock \in Callers)
  /\ UNCHANGED <<queue, hot, gpc, budget, seen, recent, asks, kills>>

\* The write is skipped when nothing changed; the unlock removes whatever file is there.
WriteBack(c, b) ==
  /\ budget' = IF b = seen[c] THEN budget ELSE b
  /\ lock' = "free"
  /\ raced' = (raced \/ lock \notin {c, "free"})
  /\ seen' = [seen EXCEPT ![c] = ZeroBudget]

-----------------------------------------------------------------------------
(* CreateShare: wait, the creation (which goes on while the caller is at "record"), *)
(* and record.                                                                     *)

Ask(c) ==
  /\ GateStep(c, "idle", "look")
  /\ asks < MaxAsks /\ asks' = asks + 1
  /\ queue' = [queue EXCEPT ![ProcOf[c]] = Append(@, c)]
  /\ UNCHANGED <<hot, budget, seen, lock, stealing, raced, recent, kills>>

\* The head asks the budget; the others keep the channel of this moment.
Look(c) ==
  /\ GateStep(c, "look", IF Head(queue[ProcOf[c]]) = c THEN "take" ELSE "wait")
  /\ hot' = hot \ {c}
  /\ UNCHANGED <<queue, budget, seen, lock, stealing, raced, recent, asks, kills>>

\* The select: the head's timer always fires, the others wait for a change.
Wake(c) ==
  /\ \/ GateStep(c, "sleep", "look")
     \/ c \in hot /\ GateStep(c, "wait", "look")
  /\ UNCHANGED <<queue, hot, budget, seen, lock, stealing, raced, recent, asks, kills>>

GiveUp(c) ==
  /\ GateStep(c, "sleep", "idle") \/ GateStep(c, "wait", "idle")
  /\ Leave(c)
  /\ UNCHANGED <<budget, seen, lock, stealing, raced, recent, asks, kills>>

\* Mutant: one share too many.
AffordsOneMore(b) == b.quiet = 0 /\ (b.left = 0 \/ b.used <= Limit)

Affords(b) == b.quiet = 0 /\ (b.left = 0 \/ b.used < Limit)

\* Charging one share: the first attempt after a window has closed opens the next.
Spent(b) ==
  IF b.left = 0 THEN [b EXCEPT !.left = Window, !.used = 1] ELSE [b EXCEPT !.used = @ + 1]

TakeOne(c) ==
  /\ Affords(seen[c])
  /\ GateStep(c, "taking", "record")
  /\ WriteBack(c, Spent(seen[c]))
  /\ Leave(c)
  /\ recent' = [recent EXCEPT ![0] = @ + 1]
  /\ UNCHANGED <<stealing, asks, kills>>

TakeLater(c) ==
  /\ ~Affords(seen[c])
  /\ GateStep(c, "taking", "sleep")
  /\ WriteBack(c, seen[c])
  /\ UNCHANGED <<queue, hot, stealing, recent, asks, kills>>

\* A lock that is held past the deadline: the share goes through uncharged, and an
\* outcome goes unrecorded.
Unavailable(c) ==
  /\ lock = "dead" /\ c \notin stealing
  /\ \/ GateStep(c, "take", "record") /\ Leave(c)
     \/ GateStep(c, "record", "idle") /\ UNCHANGED <<queue, hot>>
  /\ UNCHANGED <<budget, seen, lock, stealing, raced, recent, asks, kills>>

\* Mutant: a share that was created ends the quiet period.
SucceededSpeaks(b) == [b EXCEPT !.refused = 0, !.quiet = 0]

Succeeded(b) == [b EXCEPT !.refused = 0]

Refused(b) ==
  IF b.refused + 1 >= QuietAfter
  THEN [used |-> 0, left |-> 0, quiet |-> Quiet, refused |-> 0]
  ELSE [b EXCEPT !.refused = @ + 1]

Record(c) ==
  /\ GateStep(c, "recording", "idle")
  /\ \/ WriteBack(c, Succeeded(seen[c]))
     \/ WriteBack(c, Refused(seen[c]))
  /\ UNCHANGED <<queue, hot, stealing, recent, asks, kills>>

-----------------------------------------------------------------------------
(* Time, and a process that is killed and started again. *)

Less(n) == IF n = 0 THEN 0 ELSE n - 1
Aged(b) == [b EXCEPT !.left = Less(@), !.quiet = Less(@)]

GateTick ==
  /\ budget' = Aged(budget) /\ seen' = [c \in Callers |-> Aged(seen[c])]
  /\ recent' = [age \in DOMAIN recent |-> IF age = 0 THEN 0 ELSE recent[age - 1]]
  /\ UNCHANGED <<queue, hot, gpc, lock, stealing, raced, asks, kills>>

Kill(p) ==
  /\ kills < MaxKills /\ kills' = kills + 1
  /\ LET killed == {c \in Callers : ProcOf[c] = p} IN
     /\ gpc' = [c \in Callers |-> IF c \in killed THEN "idle" ELSE gpc[c]]
     /\ seen' = [c \in Callers |-> IF c \in killed THEN ZeroBudget ELSE seen[c]]
     /\ hot' = hot \ killed /\ stealing' = stealing \ killed
     /\ lock' = IF lock \in killed THEN "dead" ELSE lock
  /\ queue' = [queue EXCEPT ![p] = <<>>]
  /\ UNCHANGED <<budget, raced, recent, asks>>

CallerGoes(c) ==
  \/ Look(c) \/ Lock(c) \/ Wake(c) \/ TakeOne(c) \/ TakeLater(c)
  \/ Record(c) \/ RemoveDeadLock(c)

GateNext ==
  \/ \E c \in Callers : CallerGoes(c) \/ Ask(c) \/ GiveUp(c) \/ SeeDeadLock(c) \/ Unavailable(c)
  \/ GateTick
  \/ \E p \in Processes : Kill(p)

GateFairness ==
  /\ \A c \in Callers : /\ WF_gateVars(Look(c) \/ Wake(c) \/ TakeOne(c) \/ TakeLater(c))
                        /\ WF_gateVars(Record(c) \/ RemoveDeadLock(c))
                        /\ WF_gateVars(SeeDeadLock(c)) /\ SF_gateVars(Lock(c))
  /\ WF_gateVars(GateTick)

GateSpec == GateInit /\ [][GateNext]_gateVars /\ GateFairness

-----------------------------------------------------------------------------
\* Every variable has its type.
GateTypeOK ==
  /\ queue \in [Processes -> Seq(Callers)]
  /\ gpc \in [Callers -> {"idle", "look", "take", "taking", "sleep", "wait",
                          "record", "recording"}]
  /\ budget \in [used : 0..Limit, left : 0..Window, quiet : 0..Quiet, refused : 0..(QuietAfter - 1)]
  /\ lock \in Callers \cup {"free", "dead"}
  /\ hot \subseteq Callers /\ stealing \subseteq Callers /\ raced \in BOOLEAN
  /\ recent \in [0..(Window - 1) -> Nat]
  /\ asks \in 0..MaxAsks /\ kills \in 0..MaxKills

\* The shares charged lately: each is its age and its number in its tick.
Through == {s \in (0..(Window - 1)) \X (1..Limit) : s[2] <= recent[s[1]]}

\* The whole machine keeps to one budget. The shares of a tick are one window's; those
\* of a stretch as long as a window come from at most two, and the share that opened
\* the older one is outside it. (Only a takeover that removes a living caller's lock
\* can lose a count.)
BudgetKept ==
  ~raced => /\ \A age \in DOMAIN recent : recent[age] <= Limit
            /\ Cardinality(Through) <= 2 * Limit - 1

\* The controller's refusal stands: nothing but time ends a quiet period, not even an
\* attempt from before it that succeeds after all.
QuietIsKept == [][budget'.quiet >= budget.quiet \/ raced' \/ GateTick]_gateVars

\* A caller that waits gets its share or goes: the queue of a process moves, a full
\* window closes, and the lock of a killed process is taken over.
EveryoneIsServed == \A c \in Callers : Queued(c) ~> ~Queued(c)
=============================================================================
