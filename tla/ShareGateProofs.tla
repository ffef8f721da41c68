--------------------------- MODULE ShareGateProofs ---------------------------
(***************************************************************************)
(* The budget file is written by one process at a time, for any number of  *)
(* processes and callers, until a takeover removes a living caller's lock. *)
(* So what it says was spent is what was, and the budget is kept.          *)
(***************************************************************************)
EXTENDS ShareGate, FunctionTheorems, FiniteSetTheorems, SequenceTheorems, TLAPS

Budgets ==
  [used : 0..Limit, left : 0..Window, quiet : 0..Quiet, refused : 0..(QuietAfter - 1)]

Steps == {"idle", "look", "take", "taking", "sleep", "wait", "record", "recording"}

\* The budget and every copy of it have their type.
Typed ==
  /\ gpc \in [Callers -> Steps]
  /\ budget \in Budgets /\ seen \in [Callers -> Budgets]
  /\ lock \in Callers \cup {"free", "dead"} /\ raced \in BOOLEAN
  /\ recent \in [0..(Window - 1) -> Nat]

\* Whoever is between the read and the write of the file has its lock, and read what is
\* in it still.
Exclusive ==
  ~raced => \A c \in Callers :
              gpc[c] \in {"taking", "recording"} => lock = c /\ seen[c] = budget

\* The shares of this tick were charged to the open window. With no window open there
\* were none, or a refusal closed it and none will follow in this tick.
Charged ==
  ~raced => /\ \A age \in 0..(Window - 1) : recent[age] <= Limit
            /\ budget.left # 0 => recent[0] <= budget.used
            /\ budget.left = 0 /\ budget.quiet = 0 => recent[0] = 0

GateInv == Typed /\ Exclusive /\ Charged

-----------------------------------------------------------------------------
\* Charging, a success and a refusal make a budget of a budget, and none of them
\* shortens a quiet period. Time does, and does so to every copy alike.
LEMMA BudgetOps ==
  ASSUME NEW b \in Budgets
  PROVE  /\ Affords(b) => Spent(b) \in Budgets
         /\ Spent(b).quiet = b.quiet
         /\ Succeeded(b) \in Budgets /\ Succeeded(b).quiet = b.quiet
         /\ Refused(b) \in Budgets /\ Refused(b).quiet >= b.quiet
         /\ Aged(b) \in Budgets
<1> USE GateAssumption DEF Budgets, QuietAfter
<1>1. Affords(b) => Spent(b) \in Budgets
  <2>1. CASE b.left = 0
    <3>1. Spent(b) = [used |-> 1, left |-> Window, quiet |-> b.quiet, refused |-> b.refused]
      BY <2>1 DEF Spent
    <3>2. QED BY <3>1
  <2>2. CASE b.left # 0
    BY <2>2 DEF Spent, Affords
  <2>3. QED BY <2>1, <2>2
<1>2. Spent(b).quiet = b.quiet
  BY DEF Spent
<1>3. Succeeded(b) \in Budgets /\ Succeeded(b).quiet = b.quiet
  BY DEF Succeeded
<1>4. Refused(b) \in Budgets /\ Refused(b).quiet >= b.quiet
  <2>1. CASE b.refused + 1 >= 2
    BY <2>1 DEF Refused
  <2>2. CASE ~(b.refused + 1 >= 2)
    BY <2>2 DEF Refused
  <2>3. QED BY <2>1, <2>2
<1>5. Aged(b) \in Budgets
  <2>1. Less(b.left) \in 0..Window /\ Less(b.quiet) \in 0..Quiet
    BY DEF Less
  <2> DEFINE l == Less(b.left)
             q == Less(b.quiet)
  <2>2. Aged(b) = [b EXCEPT !.left = l, !.quiet = q]
    BY DEF Aged
  <2> HIDE DEF l, q
  <2>3. Aged(b) = [used |-> b.used, left |-> l, quiet |-> q, refused |-> b.refused]
    BY <2>2
  <2>4. QED BY <2>1, <2>3 DEF l, q
<1>6. QED BY <1>1, <1>2, <1>3, <1>4, <1>5

\* An empty state file is a budget.
LEMMA ZeroIsBudget == ZeroBudget \in Budgets
BY GateAssumption DEF ZeroBudget, Budgets, QuietAfter

\* Nothing is charged, held or let through yet.
LEMMA GateInvInit == GateInit => GateInv
<1> SUFFICES ASSUME GateInit PROVE GateInv
  OBVIOUS
<1> USE GateAssumption
<1>1. Typed
  BY ZeroIsBudget DEF GateInit, Typed, Steps
<1>2. Exclusive
  BY DEF GateInit, Exclusive
<1>3. Charged
  BY DEF GateInit, Charged, ZeroBudget
<1>4. QED BY <1>1, <1>2, <1>3 DEF GateInv

\* A write by a caller that holds the lock, or after a takeover went wrong.
LEMMA WriteStep ==
  ASSUME GateInv, NEW c \in Callers, NEW b \in Budgets, WriteBack(c, b),
         gpc[c] \in {"taking", "recording"}, NEW to \in Steps, to \notin {"taking", "recording"},
         gpc' = [gpc EXCEPT ![c] = to]
  PROVE  /\ budget' \in Budgets /\ seen' \in [Callers -> Budgets] /\ lock' = "free"
         /\ gpc' \in [Callers -> Steps] /\ raced' \in BOOLEAN
         /\ Exclusive'
         /\ ~raced' => ~raced /\ seen[c] = budget /\ budget' = b
<1> USE GateAssumption
<1>1. budget' \in Budgets /\ seen' \in [Callers -> Budgets] /\ lock' = "free"
  BY ZeroIsBudget DEF WriteBack, GateInv, Typed
<1>2. gpc' \in [Callers -> Steps] /\ raced' \in BOOLEAN
  BY DEF WriteBack, GateInv, Typed
<1>3. ASSUME ~raced' PROVE ~raced /\ lock = c /\ seen[c] = budget /\ budget' = b
  BY <1>3 DEF WriteBack, GateInv, Exclusive, Typed
<1>4. Exclusive'
  <2> SUFFICES ASSUME ~raced', NEW d \in Callers, gpc'[d] \in {"taking", "recording"}
               PROVE  FALSE
    BY DEF Exclusive
  <2>1. d # c /\ gpc[d] \in {"taking", "recording"}
    BY DEF GateInv, Typed
  <2>2. QED BY <1>3, <2>1 DEF GateInv, Exclusive
<1>5. QED BY <1>1, <1>2, <1>3, <1>4

\* A share that is let through is charged to the window that is open, or opens one.
LEMMA TakeOneStep ==
  ASSUME GateInv, NEW c \in Callers, TakeOne(c)
  PROVE  GateInv' /\ (budget'.quiet >= budget.quiet \/ raced')
<1> USE GateAssumption
<1> DEFINE b == Spent(seen[c])
<1>1. seen[c] \in Budgets /\ Affords(seen[c])
  BY DEF TakeOne, GateInv, Typed
<1>2. b \in Budgets /\ b.quiet = seen[c].quiet
  BY <1>1, BudgetOps
<1>3. /\ WriteBack(c, b) /\ gpc[c] = "taking" /\ gpc' = [gpc EXCEPT ![c] = "record"]
      /\ recent' = [recent EXCEPT ![0] = @ + 1]
  BY DEF TakeOne, GateStep
<1>4. "record" \in Steps /\ "record" \notin {"taking", "recording"}
  BY DEF Steps
<1> HIDE DEF b
<1>5. /\ budget' \in Budgets /\ seen' \in [Callers -> Budgets] /\ lock' = "free"
      /\ gpc' \in [Callers -> Steps] /\ raced' \in BOOLEAN
      /\ Exclusive'
      /\ ~raced' => ~raced /\ seen[c] = budget /\ budget' = b
  BY <1>2, <1>3, <1>4, WriteStep
<1>6. recent' \in [0..(Window - 1) -> Nat]
  BY <1>3 DEF GateInv, Typed
<1>7. Typed'
  BY <1>5, <1>6 DEF Typed
<1>8. Charged'
  <2> SUFFICES ASSUME ~raced'
               PROVE  /\ \A age \in 0..(Window - 1) : recent'[age] <= Limit
                      /\ budget'.left # 0 /\ recent'[0] <= budget'.used
    BY DEF Charged
  <2>1. ~raced /\ seen[c] = budget /\ budget' = Spent(budget) /\ Affords(budget)
    BY <1>1, <1>5 DEF b
  <2>2. recent[0] \in Nat /\ recent'[0] = recent[0] + 1
    BY <1>3 DEF GateInv, Typed
  <2>3. budget'.left # 0 /\ recent'[0] <= budget'.used
    <3>1. CASE budget.left = 0
      BY <2>1, <2>2, <3>1 DEF GateInv, Charged, Affords, Spent, Typed, Budgets
    <3>2. CASE budget.left # 0
      BY <2>1, <2>2, <3>2 DEF GateInv, Charged, Affords, Spent, Typed, Budgets
    <3>3. QED BY <3>1, <3>2
  <2>4. \A age \in 0..(Window - 1) : recent'[age] <= Limit
    <3>1. recent'[0] <= Limit
      BY <1>5, <2>2, <2>3 DEF Budgets
    <3>2. \A age \in 0..(Window - 1) : age # 0 => recent'[age] = recent[age]
      BY <1>3 DEF GateInv, Typed
    <3>3. QED BY <2>1, <3>1, <3>2 DEF GateInv, Charged
  <2>5. QED BY <2>3, <2>4
<1>9. budget'.quiet >= budget.quiet \/ raced'
  BY <1>2, <1>5 DEF GateInv, Typed, Budgets
<1>10. QED BY <1>5, <1>7, <1>8, <1>9 DEF GateInv

\* A head that has to wait puts back what it read.
LEMMA TakeLaterStep ==
  ASSUME GateInv, NEW c \in Callers, TakeLater(c)
  PROVE  GateInv' /\ (budget'.quiet >= budget.quiet \/ raced')
<1> USE GateAssumption
<1>1. seen[c] \in Budgets
  BY DEF GateInv, Typed
<1>2. /\ WriteBack(c, seen[c]) /\ gpc[c] = "taking" /\ gpc' = [gpc EXCEPT ![c] = "sleep"]
      /\ recent' = recent
  BY DEF TakeLater, GateStep
<1>3. "sleep" \in Steps /\ "sleep" \notin {"taking", "recording"}
  BY DEF Steps
<1>4. /\ budget' \in Budgets /\ seen' \in [Callers -> Budgets] /\ lock' = "free"
      /\ gpc' \in [Callers -> Steps] /\ raced' \in BOOLEAN
      /\ Exclusive'
      /\ ~raced' => ~raced /\ seen[c] = budget /\ budget' = seen[c]
  BY <1>1, <1>2, <1>3, WriteStep
<1>5. Typed'
  BY <1>2, <1>4 DEF GateInv, Typed
<1>6. Charged'
  BY <1>2, <1>4 DEF GateInv, Charged
<1>7. budget'.quiet >= budget.quiet \/ raced'
  BY <1>4 DEF GateInv, Typed, Budgets
<1>8. QED BY <1>4, <1>5, <1>6, <1>7 DEF GateInv

\* An outcome leaves the window alone, or closes it for a quiet period.
LEMMA RecordStep ==
  ASSUME GateInv, NEW c \in Callers, Record(c)
  PROVE  GateInv' /\ (budget'.quiet >= budget.quiet \/ raced')
<1> USE GateAssumption
<1>1. seen[c] \in Budgets
  BY DEF GateInv, Typed
<1>2. PICK b \in {Succeeded(seen[c]), Refused(seen[c])} : WriteBack(c, b)
  BY DEF Record
<1>3. b \in Budgets /\ b.quiet >= seen[c].quiet
  BY <1>1, BudgetOps DEF Budgets
<1>4. gpc[c] = "recording" /\ gpc' = [gpc EXCEPT ![c] = "idle"] /\ recent' = recent
  BY DEF Record, GateStep
<1>5. "idle" \in Steps /\ "idle" \notin {"taking", "recording"}
  BY DEF Steps
<1>6. /\ budget' \in Budgets /\ seen' \in [Callers -> Budgets] /\ lock' = "free"
      /\ gpc' \in [Callers -> Steps] /\ raced' \in BOOLEAN
      /\ Exclusive'
      /\ ~raced' => ~raced /\ seen[c] = budget /\ budget' = b
  BY <1>2, <1>3, <1>4, <1>5, WriteStep
<1>7. Typed'
  BY <1>4, <1>6 DEF GateInv, Typed
<1>8. Charged'
  <2> SUFFICES ASSUME ~raced'
               PROVE  /\ budget'.left # 0 => recent[0] <= budget'.used
                      /\ budget'.left = 0 /\ budget'.quiet = 0 => recent[0] = 0
    BY <1>4, <1>6 DEF GateInv, Charged
  <2>1. ~raced /\ budget \in Budgets /\ budget' \in {Succeeded(budget), Refused(budget)}
    BY <1>2, <1>6 DEF GateInv, Typed
  <2>2. \/ /\ budget'.left = budget.left /\ budget'.used = budget.used /\ budget'.quiet = budget.quiet
        \/ budget'.left = 0 /\ budget'.quiet = Quiet
    BY <2>1 DEF Succeeded, Refused, Budgets
  <2>3. Quiet # 0
    OBVIOUS
  <2>4. QED BY <2>1, <2>2, <2>3 DEF GateInv, Charged
<1>9. budget'.quiet >= budget.quiet \/ raced'
  BY <1>3, <1>6
<1>10. QED BY <1>6, <1>7, <1>8, <1>9 DEF GateInv

\* Time ages the file and every copy of it alike, and a new tick has no shares yet.
LEMMA TickStep == GateInv /\ GateTick => GateInv'
<1> SUFFICES ASSUME GateInv, GateTick PROVE GateInv'
  OBVIOUS
<1> USE GateAssumption
<1>1. /\ budget' = Aged(budget) /\ seen' = [c \in Callers |-> Aged(seen[c])]
      /\ recent' = [age \in 0..(Window - 1) |-> IF age = 0 THEN 0 ELSE recent[age - 1]]
      /\ UNCHANGED <<gpc, lock, raced>>
  BY DEF GateTick, GateInv, Typed
<1>2. budget' \in Budgets /\ seen' \in [Callers -> Budgets]
  BY <1>1, BudgetOps DEF GateInv, Typed
<1>3. recent' \in [0..(Window - 1) -> Nat]
  BY <1>1 DEF GateInv, Typed
<1>4. Typed'
  BY <1>1, <1>2, <1>3 DEF GateInv, Typed
<1>5. Exclusive'
  BY <1>1 DEF GateInv, Exclusive
<1>6. Charged'
  <2> SUFFICES ASSUME ~raced
               PROVE  /\ \A age \in 0..(Window - 1) : recent'[age] <= Limit
                      /\ recent'[0] = 0
    BY <1>1, <1>2 DEF Charged, Budgets
  <2>1. recent'[0] = 0
    BY <1>1
  <2>2. \A age \in 0..(Window - 1) : age # 0 => age - 1 \in 0..(Window - 1) /\ recent'[age] = recent[age - 1]
    BY <1>1
  <2>3. QED BY <2>1, <2>2 DEF GateInv, Charged
<1>7. QED BY <1>4, <1>5, <1>6 DEF GateInv

\* A killed process leaves its lock file behind, and no caller that holds it.
LEMMA KillStep ==
  ASSUME GateInv, NEW p \in Processes, Kill(p)
  PROVE  GateInv' /\ budget' = budget
<1> USE GateAssumption
<1> DEFINE killed == {c \in Callers : ProcOf[c] = p}
<1>1. /\ gpc' = [c \in Callers |-> IF c \in killed THEN "idle" ELSE gpc[c]]
      /\ seen' = [c \in Callers |-> IF c \in killed THEN ZeroBudget ELSE seen[c]]
      /\ lock' = IF lock \in killed THEN "dead" ELSE lock
      /\ UNCHANGED <<budget, raced, recent>>
  BY DEF Kill
<1>2. killed \subseteq Callers
  OBVIOUS
<1> HIDE DEF killed
<1>3. gpc' \in [Callers -> Steps] /\ seen' \in [Callers -> Budgets]
  BY <1>1, ZeroIsBudget DEF GateInv, Typed, Steps
<1>4. lock' \in Callers \cup {"free", "dead"}
  BY <1>1 DEF GateInv, Typed
<1>5. Typed'
  BY <1>1, <1>3, <1>4 DEF GateInv, Typed
<1>6. Exclusive'
  <2> SUFFICES ASSUME ~raced, NEW c \in Callers, gpc'[c] \in {"taking", "recording"}
               PROVE  lock' = c /\ seen'[c] = budget
    BY <1>1 DEF Exclusive
  <2>1. c \notin killed /\ gpc[c] \in {"taking", "recording"} /\ seen'[c] = seen[c]
    BY <1>1
  <2>2. lock = c /\ seen[c] = budget
    BY <2>1 DEF GateInv, Exclusive
  <2>3. QED BY <1>1, <2>1, <2>2
<1>7. Charged'
  BY <1>1 DEF GateInv, Charged
<1>8. QED BY <1>1, <1>5, <1>6, <1>7 DEF GateInv

\* Taking the lock, and taking over the lock of a killed process.
LEMMA LockStep ==
  ASSUME GateInv, NEW c \in Callers, Lock(c)
  PROVE  GateInv' /\ budget' = budget
<1> USE GateAssumption
<1>1. PICK to \in {"taking", "recording"} : gpc' = [gpc EXCEPT ![c] = to]
  BY DEF Lock, GateStep
<1>2. /\ lock = "free" /\ lock' = c /\ seen' = [seen EXCEPT ![c] = budget]
      /\ UNCHANGED <<budget, raced, recent>>
  BY DEF Lock
<1>3. Typed'
  BY <1>1, <1>2 DEF GateInv, Typed, Steps
<1>4. Exclusive'
  <2> SUFFICES ASSUME ~raced, NEW d \in Callers, gpc'[d] \in {"taking", "recording"}
               PROVE  lock' = d /\ seen'[d] = budget
    BY <1>2 DEF Exclusive
  <2>1. d = c
    BY <1>1, <1>2 DEF GateInv, Exclusive, Typed
  <2>2. QED BY <1>2, <2>1 DEF GateInv, Typed
<1>5. Charged'
  BY <1>2 DEF GateInv, Charged
<1>6. QED BY <1>2, <1>3, <1>4, <1>5 DEF GateInv

\* Removing a lock file lets nobody in beside a holder, or is recorded in raced.
LEMMA TakeoverStep ==
  ASSUME GateInv, NEW c \in Callers, RemoveDeadLock(c)
  PROVE  GateInv' /\ budget' = budget
<1> USE GateAssumption
<1>1. lock' = "free" /\ raced' = (raced \/ lock \in Callers) /\ UNCHANGED <<gpc, budget, seen, recent>>
  BY DEF RemoveDeadLock
<1>2. Typed'
  BY <1>1 DEF GateInv, Typed
<1>3. Exclusive'
  <2> SUFFICES ASSUME ~raced', NEW d \in Callers, gpc[d] \in {"taking", "recording"}
               PROVE  FALSE
    BY <1>1 DEF Exclusive
  <2>1. ~raced /\ lock \notin Callers
    BY <1>1
  <2>2. QED BY <2>1 DEF GateInv, Exclusive
<1>4. Charged'
  BY <1>1 DEF GateInv, Charged
<1>5. QED BY <1>1, <1>2, <1>3, <1>4 DEF GateInv

\* A caller moves without touching the file.
LEMMA QuietStep ==
  ASSUME GateInv, UNCHANGED <<budget, seen, lock, raced, recent>>,
         NEW c \in Callers, NEW to \in Steps, to \notin {"taking", "recording"},
         gpc' = gpc \/ gpc' = [gpc EXCEPT ![c] = to]
  PROVE  GateInv'
<1>1. gpc' \in [Callers -> Steps]
  BY DEF GateInv, Typed
<1>2. \A d \in Callers : gpc'[d] \in {"taking", "recording"} => gpc[d] \in {"taking", "recording"}
  BY DEF GateInv, Typed
<1>3. Typed' /\ Charged'
  BY <1>1 DEF GateInv, Typed, Charged
<1>4. Exclusive'
  BY <1>2 DEF GateInv, Exclusive
<1>5. QED BY <1>3, <1>4 DEF GateInv

\* The steps between two accesses to the file.
LEMMA MoveStep ==
  ASSUME GateInv, NEW c \in Callers,
         Ask(c) \/ Look(c) \/ Wake(c) \/ GiveUp(c) \/ SeeDeadLock(c) \/ Unavailable(c)
  PROVE  GateInv' /\ budget' = budget
<1>1. UNCHANGED <<budget, seen, lock, raced, recent>>
  BY DEF Ask, Look, Wake, GiveUp, SeeDeadLock, Unavailable
<1>2. \E to \in Steps \ {"taking", "recording"} : gpc' = gpc \/ gpc' = [gpc EXCEPT ![c] = to]
  <2>1. {"idle", "look", "take", "wait", "record"} \subseteq Steps \ {"taking", "recording"}
    BY DEF Steps
  <2>2. CASE Ask(c)
    BY <2>1, <2>2 DEF Ask, GateStep
  <2>3. CASE Look(c)
    BY <2>1, <2>3 DEF Look, GateStep
  <2>4. CASE Wake(c)
    BY <2>1, <2>4 DEF Wake, GateStep
  <2>5. CASE GiveUp(c)
    BY <2>1, <2>5 DEF GiveUp, GateStep
  <2>6. CASE SeeDeadLock(c)
    BY <2>1, <2>6 DEF SeeDeadLock
  <2>7. CASE Unavailable(c)
    BY <2>1, <2>7 DEF Unavailable, GateStep
  <2>8. QED BY <2>2, <2>3, <2>4, <2>5, <2>6, <2>7
<1>3. GateInv'
  BY <1>1, <1>2, QuietStep
<1>4. QED BY <1>1, <1>3

-----------------------------------------------------------------------------
\* Every step keeps the invariant, and shortens a quiet period by a tick at most.
LEMMA GateInvStep ==
  GateInv /\ [GateNext]_gateVars
    => GateInv' /\ [budget'.quiet >= budget.quiet \/ raced' \/ GateTick]_gateVars
<1> SUFFICES ASSUME GateInv, [GateNext]_gateVars
             PROVE  GateInv' /\ [budget'.quiet >= budget.quiet \/ raced' \/ GateTick]_gateVars
  OBVIOUS
<1>1. budget.quiet >= budget.quiet
  BY GateAssumption DEF GateInv, Typed, Budgets
<1>2. ASSUME NEW c \in Callers, TakeOne(c) \/ TakeLater(c) \/ Record(c)
      PROVE  GateInv' /\ (budget'.quiet >= budget.quiet \/ raced')
  BY <1>2, TakeOneStep, TakeLaterStep, RecordStep
<1>3. ASSUME NEW c \in Callers, Lock(c) \/ RemoveDeadLock(c)
      PROVE  GateInv' /\ budget' = budget
  BY <1>3, LockStep, TakeoverStep
<1>4. ASSUME NEW c \in Callers,
             Ask(c) \/ Look(c) \/ Wake(c) \/ GiveUp(c) \/ SeeDeadLock(c) \/ Unavailable(c)
      PROVE  GateInv' /\ budget' = budget
  BY <1>4, MoveStep
<1>5. CASE GateTick
  BY <1>5, TickStep
<1>6. ASSUME NEW p \in Processes, Kill(p) PROVE GateInv' /\ budget' = budget
  BY <1>6, KillStep
<1>7. CASE UNCHANGED gateVars
  BY <1>7 DEF gateVars, GateInv, Typed, Exclusive, Charged
<1>8. QED
  BY <1>1, <1>2, <1>3, <1>4, <1>5, <1>6, <1>7 DEF GateNext, CallerGoes

\* The controller's refusal stands: attempts that were under way when it came, from any
\* process, cannot end the quiet period, whichever of them finishes last.
THEOREM RefusalStands == GateSpec => QuietIsKept
<1>1. QED BY GateInvInit, GateInvStep, PTL DEF GateSpec, QuietIsKept

-----------------------------------------------------------------------------
(* What is charged in a window, and in any stretch as long as one. *)

\* The shares charged up to an age, and those that are older.
Since(T, a) == {s \in T : s[1] <= a}
Before(T, a) == {s \in T : s[1] > a}

\* With a window open, its first share is as old as it is, those since are charged to it,
\* and the window before has one fewer than a full one left in sight. With none open, as
\* many may be left of the last; and a quiet period lets none through.
Budgeted ==
  ~raced =>
    /\ budget.left # 0 => /\ budget.quiet = 0 /\ recent[Window - budget.left] >= 1
                          /\ Cardinality(Since(Through, Window - budget.left)) <= budget.used
                          /\ Cardinality(Before(Through, Window - budget.left)) <= Limit - 1
    /\ budget.left = 0 /\ budget.quiet = 0 => Cardinality(Through) <= Limit - 1
    /\ budget.quiet # 0 => /\ Cardinality(Through) <= 2 * Limit - 1
                           /\ \A age \in 0..(Window - 1) : age < Quiet - budget.quiet => recent[age] = 0

\* Where a share can be: its age, and its number in its tick.
Cells == (0..(Window - 1)) \X (1..Limit)

\* There are finitely many shares in sight, and fewer in a part than in the whole.
LEMMA CellsCounted ==
  ASSUME NEW T, T \subseteq Cells
  PROVE  /\ IsFiniteSet(T) /\ Cardinality(T) \in Nat
         /\ \A U \in SUBSET T : IsFiniteSet(U) /\ Cardinality(U) <= Cardinality(T)
<1>1. IsFiniteSet(0..(Window - 1)) /\ IsFiniteSet(1..Limit)
  BY GateAssumption, FS_Interval
<1>2. IsFiniteSet(Cells)
  BY <1>1, FS_Product DEF Cells
<1>3. IsFiniteSet(T)
  BY <1>2, FS_Subset
<1>4. QED BY <1>3, FS_Subset, FS_CardinalityType

\* A tick makes no shares: what is in sight after it was in sight, one tick younger.
LEMMA Older ==
  ASSUME NEW T \in SUBSET Cells, NEW U \in SUBSET Cells, \A s \in U : <<s[1] - 1, s[2]>> \in T
  PROVE  Cardinality(U) <= Cardinality(T)
<1> DEFINE f == [s \in U |-> <<s[1] - 1, s[2]>>]
<1>1. f \in [U -> T]
  OBVIOUS
<1>2. ASSUME NEW s \in U, NEW t \in U, f[s] = f[t] PROVE s = t
  <2>1. s[1] - 1 = t[1] - 1 /\ s[2] = t[2]
    BY <1>2
  <2>2. s = <<s[1], s[2]>> /\ t = <<t[1], t[2]>> /\ s[1] \in Int /\ t[1] \in Int
    BY GateAssumption DEF Cells
  <2>3. QED BY <2>1, <2>2
<1> HIDE DEF f
<1>3. f \in Injection(U, T)
  BY <1>1, <1>2, Fun_IsInj
<1>4. QED BY <1>3, CellsCounted, FS_Injection

\* Nothing was charged yet.
LEMMA BudgetedInit == GateInit => Budgeted
<1> SUFFICES ASSUME GateInit PROVE Budgeted
  OBVIOUS
<1> USE GateAssumption
<1>1. budget.left = 0 /\ budget.quiet = 0
  BY DEF GateInit, ZeroBudget
<1>2. Through = {}
  BY DEF GateInit, Through
<1>3. Cardinality(Through) = 0
  BY <1>2, FS_EmptySet
<1>4. QED BY <1>1, <1>3 DEF Budgeted

\* In sight are the shares charged to the open window and those before it: less than two
\* windows of them.
LEMMA TwoWindows ==
  ASSUME GateInv, Budgeted, ~raced
  PROVE  Cardinality(Through) \in Nat /\ Cardinality(Through) <= 2 * Limit - 1
<1> USE GateAssumption
<1>1. budget.left \in 0..Window /\ budget.used \in 0..Limit /\ budget.quiet \in 0..Quiet
  BY DEF GateInv, Typed, Budgets
<1>2. Through \subseteq Cells
  BY DEF Through, Cells
<1>3. CASE budget.left # 0
  <2> DEFINE a == Window - budget.left
  <2>1. Cardinality(Since(Through, a)) <= budget.used /\ Cardinality(Before(Through, a)) <= Limit - 1
    BY <1>3 DEF Budgeted
  <2>2. Through = Since(Through, a) \cup Before(Through, a) /\ Since(Through, a) \cap Before(Through, a) = {}
    BY <1>1 DEF Through, Since, Before
  <2> HIDE DEF a
  <2>3. /\ IsFiniteSet(Since(Through, a)) /\ IsFiniteSet(Before(Through, a))
        /\ Cardinality(Since(Through, a)) \in Nat /\ Cardinality(Before(Through, a)) \in Nat
    BY <1>2, CellsCounted DEF Since, Before
  <2>4. Cardinality(Through) = Cardinality(Since(Through, a)) + Cardinality(Before(Through, a))
    <3> DEFINE S == Since(Through, a)
               T == Before(Through, a)
    <3>1. Through = S \cup T /\ Cardinality(S \cap T) = 0
      BY <2>2, FS_EmptySet
    <3>2. IsFiniteSet(S) /\ IsFiniteSet(T) /\ Cardinality(S) \in Nat /\ Cardinality(T) \in Nat
      BY <2>3
    <3> HIDE DEF S, T
    <3>3. Cardinality(S \cup T) = Cardinality(S) + Cardinality(T) - Cardinality(S \cap T)
      BY <3>2, FS_Union
    <3>4. Cardinality(Through) = Cardinality(S) + Cardinality(T)
      BY <3>1, <3>2, <3>3
    <3>5. QED BY <3>4 DEF S, T
  <2>5. QED BY <1>1, <2>1, <2>3, <2>4
<1>4. CASE budget.left = 0
  BY <1>1, <1>2, <1>4, CellsCounted DEF Budgeted
<1>5. QED BY <1>3, <1>4

\* An outcome or a write that charges nothing: the window goes on, or closes with no more
\* in sight than two.
LEMMA BudgetedKept ==
  ASSUME GateInv, Budgeted, recent' = recent,
         ~raced' => ~raced /\ budget' \in {budget, Succeeded(budget), Refused(budget)}
  PROVE  Budgeted'
<1> USE GateAssumption
<1> SUFFICES ASSUME ~raced' PROVE Budgeted'
  BY DEF Budgeted
<1>1. ~raced /\ budget \in Budgets
  BY DEF GateInv, Typed
<1>2. Through' = Through
  BY DEF Through
<1>3. \/ budget'.left = budget.left /\ budget'.used = budget.used /\ budget'.quiet = budget.quiet
      \/ budget'.left = 0 /\ budget'.quiet = Quiet
  BY <1>1 DEF Succeeded, Refused, Budgets
<1>4. Cardinality(Through) \in Nat /\ Cardinality(Through) <= 2 * Limit - 1
  BY <1>1, TwoWindows
<1>5. CASE budget'.left = budget.left /\ budget'.used = budget.used /\ budget'.quiet = budget.quiet
  BY <1>1, <1>2, <1>5 DEF Budgeted
<1>6. CASE budget'.left = 0 /\ budget'.quiet = Quiet
  BY <1>2, <1>4, <1>6 DEF Budgeted
<1>7. QED BY <1>3, <1>5, <1>6

\* A share is charged: to the window that is open, or to the one it opens.
LEMMA BudgetedTake ==
  ASSUME GateInv, GateInv', Budgeted, ~raced, ~raced', Affords(budget), budget' = Spent(budget),
         recent' = [recent EXCEPT ![0] = @ + 1]
  PROVE  Budgeted'
<1> USE GateAssumption
<1>1. /\ budget \in Budgets /\ recent[0] \in Nat /\ recent'[0] = recent[0] + 1 /\ recent'[0] <= Limit
      /\ budget.quiet = 0
      /\ \A age \in 0..(Window - 1) : age # 0 => recent'[age] = recent[age]
  BY DEF GateInv, Typed, Charged, Affords
<1> DEFINE new == <<0, recent[0] + 1>>
<1>2. Through' = Through \cup {new}
  <2>1. ASSUME NEW s \in Cells PROVE s \in Through' <=> s \in Through \/ s = new
    <3>1. s[1] \in 0..(Window - 1) /\ s[2] \in 1..Limit /\ s = <<s[1], s[2]>>
      BY DEF Cells
    <3>2. CASE s[1] = 0
      BY <1>1, <3>1, <3>2 DEF Through, Cells
    <3>3. CASE s[1] # 0
      BY <1>1, <3>1, <3>3 DEF Through, Cells
    <3>4. QED BY <3>2, <3>3
  <2>2. new \in Cells /\ Through \subseteq Cells /\ Through' \subseteq Cells
    BY <1>1 DEF Cells, Through
  <2>3. QED BY <2>1, <2>2
<1>3. Through \subseteq Cells /\ new[1] = 0
  BY DEF Through, Cells
<1> HIDE DEF new
<1>4. CASE budget.left = 0
  <2>1. budget' = [budget EXCEPT !.left = Window, !.used = 1]
    BY <1>4 DEF Spent
  <2>2. budget'.left = Window /\ budget'.used = 1 /\ budget'.quiet = 0
    BY <1>1, <2>1 DEF Budgets
  <2>3. recent[0] = 0
    BY <1>1, <1>4 DEF GateInv, Charged
  <2>4. Since(Through', 0) = {new} /\ Before(Through', 0) \subseteq Through
    <3>1. \A s \in Through : s[1] \in Nat /\ s[1] # 0
      BY <2>3 DEF Through
    <3>2. QED BY <1>2, <1>3, <3>1 DEF Since, Before
  <2>5. Cardinality(Since(Through', 0)) = 1
    BY <2>4, FS_Singleton
  <2>6. Cardinality(Before(Through', 0)) <= Limit - 1
    BY <1>1, <1>3, <1>4, <2>4, CellsCounted DEF Budgeted
  <2>7. QED BY <1>1, <2>2, <2>3, <2>5, <2>6 DEF Budgeted
<1>5. CASE budget.left # 0
  <2> DEFINE a == Window - budget.left
  <2>1. budget' = [budget EXCEPT !.used = @ + 1]
    BY <1>5 DEF Spent
  <2>2. budget'.left = budget.left /\ budget'.used = budget.used + 1 /\ budget'.quiet = 0
    BY <1>1, <2>1 DEF Budgets
  <2>3. a \in 0..(Window - 1)
    BY <1>1, <1>5 DEF Budgets
  <2>4. recent[a] >= 1 /\ Cardinality(Since(Through, a)) <= budget.used /\ Cardinality(Before(Through, a)) <= Limit - 1
    BY <1>5 DEF Budgeted
  <2> HIDE DEF a
  <2>5. Since(Through', a) = Since(Through, a) \cup {new} /\ Before(Through', a) = Before(Through, a)
    BY <1>2, <1>3, <2>3 DEF Since, Before
  <2>6. IsFiniteSet(Since(Through, a)) /\ Cardinality(Since(Through, a)) \in Nat
    BY <1>3, CellsCounted DEF Since
  <2>7. Cardinality(Since(Through', a)) <= budget.used + 1
    <3>1. Cardinality(Since(Through, a) \cup {new}) \in
            {Cardinality(Since(Through, a)), Cardinality(Since(Through, a)) + 1}
      BY <2>6, FS_AddElement
    <3>2. QED BY <1>1, <2>4, <2>5, <2>6, <3>1, CellsCounted DEF Budgets
  <2>8. recent'[a] >= 1
    BY <1>1, <2>3, <2>4
  <2>9. QED BY <1>1, <1>5, <2>2, <2>4, <2>5, <2>7, <2>8 DEF Budgeted, a
<1>6. QED BY <1>4, <1>5

\* Time: the share that opened a window leaves sight when the window closes, and a quiet
\* period outlasts them all.
LEMMA BudgetedTick ==
  ASSUME GateInv, Budgeted, GateTick
  PROVE  Budgeted'
<1> USE GateAssumption
<1> SUFFICES ASSUME ~raced' PROVE Budgeted'
  BY DEF Budgeted
<1>1. /\ ~raced /\ budget \in Budgets /\ recent \in [0..(Window - 1) -> Nat]
      /\ recent' = [age \in 0..(Window - 1) |-> IF age = 0 THEN 0 ELSE recent[age - 1]]
      /\ budget' = Aged(budget)
  BY DEF GateTick, GateInv, Typed
<1>2. /\ budget'.left = Less(budget.left) /\ budget'.quiet = Less(budget.quiet)
      /\ budget'.used = budget.used
  BY <1>1 DEF Aged, Budgets
<1>3. /\ budget.left \in 0..Window /\ budget.used \in 0..Limit /\ budget.quiet \in 0..Quiet
  BY <1>1 DEF Budgets
<1>4. Through \subseteq Cells /\ Through' \subseteq Cells
  BY DEF Through, Cells
<1>5. ASSUME NEW s \in Through' PROVE s[1] \in Nat \ {0} /\ <<s[1] - 1, s[2]>> \in Through
  BY <1>1 DEF Through
<1>6. CASE budget.left = 0 /\ budget.quiet = 0
  <2>1. Cardinality(Through') <= Cardinality(Through)
    BY <1>4, <1>5, Older
  <2>2. budget'.left = 0 /\ budget'.quiet = 0
    BY <1>2, <1>6 DEF Less
  <2>3. Cardinality(Through) \in Nat /\ Cardinality(Through') \in Nat
    BY <1>4, CellsCounted
  <2>4. QED BY <1>1, <1>6, <2>1, <2>2, <2>3 DEF Budgeted
<1>7. CASE budget.quiet # 0
  <2>1. budget.left = 0 /\ budget'.left = 0 /\ budget'.quiet = budget.quiet - 1
    BY <1>1, <1>2, <1>7 DEF Budgeted, Less
  <2>2. Cardinality(Through') <= 2 * Limit - 1
    <3>1. Cardinality(Through') <= Cardinality(Through)
      BY <1>4, <1>5, Older
    <3>2. Cardinality(Through) \in Nat /\ Cardinality(Through') \in Nat
      BY <1>4, CellsCounted
    <3>3. QED BY <1>1, <1>7, <3>1, <3>2 DEF Budgeted
  <2>3. \A age \in 0..(Window - 1) : age < Quiet - budget'.quiet => recent'[age] = 0
    <3> SUFFICES ASSUME NEW age \in 0..(Window - 1), age < Quiet - budget'.quiet, age # 0
                 PROVE  recent[age - 1] = 0
      BY <1>1
    <3>1. age - 1 \in 0..(Window - 1) /\ age - 1 < Quiet - budget.quiet
      BY <1>3, <2>1
    <3>2. QED BY <1>1, <1>7, <3>1 DEF Budgeted
  <2>4. CASE budget'.quiet = 0
    <3>1. Through' = {}
      BY <2>3, <2>4 DEF Through
    <3>2. Cardinality(Through') <= Limit - 1
      BY <3>1, FS_EmptySet
    <3>3. QED BY <2>1, <2>4, <3>2 DEF Budgeted
  <2>5. QED BY <2>1, <2>2, <2>3, <2>4 DEF Budgeted
<1>8. CASE budget.left # 0
  <2> DEFINE a == Window - budget.left
  <2>1. /\ budget.quiet = 0 /\ recent[a] >= 1
        /\ Cardinality(Since(Through, a)) <= budget.used /\ Cardinality(Before(Through, a)) <= Limit - 1
    BY <1>1, <1>8 DEF Budgeted
  <2>2. a \in 0..(Window - 1) /\ budget'.left = budget.left - 1 /\ budget'.quiet = 0
    BY <1>2, <1>3, <1>8, <2>1 DEF Less
  <2>3. CASE budget'.left = 0
    <3>1. a = Window - 1
      BY <1>3, <2>2, <2>3
    <3> DEFINE first == <<Window - 1, 1>>
    <3>2. Since(Through, a) = Through /\ first \in Through
      BY <2>1, <3>1 DEF Since, Through
    <3>3. \A s \in Through' : <<s[1] - 1, s[2]>> \in Through \ {first}
      <4> SUFFICES ASSUME NEW s \in Through' PROVE <<s[1] - 1, s[2]>> # first
        BY <1>5
      <4>1. s[1] \in 0..(Window - 1)
        BY DEF Through
      <4>2. QED BY <4>1
    <3> HIDE DEF first
    <3>4. Cardinality(Through') <= Cardinality(Through \ {first})
      BY <1>4, <3>3, Older
    <3>5. Cardinality(Through \ {first}) = Cardinality(Through) - 1
      BY <1>4, <3>2, CellsCounted, FS_RemoveElement
    <3>6. Cardinality(Through') \in Nat /\ Cardinality(Through) \in Nat
      BY <1>4, CellsCounted
    <3>7. Cardinality(Through') <= Limit - 1
      BY <1>3, <2>1, <3>2, <3>4, <3>5, <3>6
    <3>8. QED BY <2>2, <2>3, <3>7 DEF Budgeted
  <2>4. CASE budget'.left # 0
    <3>1. a + 1 \in 0..(Window - 1) /\ Window - budget'.left = a + 1
      BY <1>3, <2>2, <2>4
    <3>2. recent'[a + 1] >= 1
      BY <1>1, <2>1, <2>2, <3>1
    <3> HIDE DEF a
    <3>3. Cardinality(Since(Through', a + 1)) <= Cardinality(Since(Through, a))
      <4>1. Since(Through', a + 1) \subseteq Cells /\ Since(Through, a) \subseteq Cells
        BY <1>4 DEF Since
      <4>2. ASSUME NEW s \in Since(Through', a + 1) PROVE <<s[1] - 1, s[2]>> \in Since(Through, a)
        <5>1. s \in Through' /\ s[1] <= a + 1
          BY DEF Since
        <5>2. s[1] \in Nat /\ <<s[1] - 1, s[2]>> \in Through
          BY <1>5, <5>1
        <5>3. s[1] - 1 <= a
          BY <2>2, <5>1, <5>2
        <5>4. QED BY <5>2, <5>3 DEF Since
      <4>3. QED BY <4>1, <4>2, Older
    <3>4. Cardinality(Before(Through', a + 1)) <= Cardinality(Before(Through, a))
      <4>1. Before(Through', a + 1) \subseteq Cells /\ Before(Through, a) \subseteq Cells
        BY <1>4 DEF Before
      <4>2. ASSUME NEW s \in Before(Through', a + 1) PROVE <<s[1] - 1, s[2]>> \in Before(Through, a)
        <5>1. s \in Through' /\ s[1] > a + 1
          BY DEF Before
        <5>2. s[1] \in Nat /\ <<s[1] - 1, s[2]>> \in Through
          BY <1>5, <5>1
        <5>3. s[1] - 1 > a
          BY <2>2, <5>1, <5>2
        <5>4. QED BY <5>2, <5>3 DEF Before
      <4>3. QED BY <4>1, <4>2, Older
    <3>5. /\ Cardinality(Since(Through, a)) \in Nat /\ Cardinality(Since(Through', a + 1)) \in Nat
          /\ Cardinality(Before(Through, a)) \in Nat /\ Cardinality(Before(Through', a + 1)) \in Nat
      BY <1>4, CellsCounted DEF Since, Before
    <3>6. Cardinality(Since(Through', a + 1)) <= budget'.used /\ Cardinality(Before(Through', a + 1)) <= Limit - 1
      BY <1>2, <1>3, <2>1, <3>3, <3>4, <3>5
    <3>7. QED BY <2>2, <2>4, <3>1, <3>2, <3>6 DEF Budgeted
  <2>5. QED BY <2>3, <2>4
<1>9. QED BY <1>6, <1>7, <1>8

\* Every step keeps to the budget.
LEMMA BudgetedStep ==
  ASSUME GateInv, GateInv', Budgeted, [GateNext]_gateVars
  PROVE  Budgeted'
<1> SUFFICES ASSUME ~raced' PROVE Budgeted'
  BY DEF Budgeted
<1>1. ASSUME NEW c \in Callers, TakeOne(c) PROVE Budgeted'
  <2>1. /\ WriteBack(c, Spent(seen[c])) /\ Affords(seen[c]) /\ gpc[c] = "taking"
        /\ recent' = [recent EXCEPT ![0] = @ + 1]
    BY <1>1 DEF TakeOne, GateStep
  <2>2. ~raced /\ lock = c /\ seen[c] = budget
    BY <2>1 DEF WriteBack, GateInv, Exclusive, Typed
  <2>3. budget' = Spent(budget)
    BY <2>1, <2>2 DEF WriteBack
  <2>4. QED BY <2>1, <2>2, <2>3, BudgetedTake
<1>2. ASSUME NEW c \in Callers, TakeLater(c) \/ Record(c) PROVE Budgeted'
  <2>1. PICK b \in {seen[c], Succeeded(seen[c]), Refused(seen[c])} : WriteBack(c, b)
    BY <1>2 DEF TakeLater, Record
  <2>2. gpc[c] \in {"taking", "recording"} /\ recent' = recent
    BY <1>2 DEF TakeLater, Record, GateStep
  <2>3. ~raced /\ lock = c /\ seen[c] = budget
    BY <2>1, <2>2 DEF WriteBack, GateInv, Exclusive, Typed
  <2>4. budget' \in {budget, Succeeded(budget), Refused(budget)}
    BY <2>1, <2>3 DEF WriteBack
  <2>5. QED BY <2>2, <2>3, <2>4, BudgetedKept
<1>3. ASSUME budget' = budget, recent' = recent, raced => raced' PROVE Budgeted'
  BY <1>3, BudgetedKept
<1>4. ASSUME NEW c \in Callers,
             Lock(c) \/ RemoveDeadLock(c) \/ Ask(c) \/ Look(c) \/ Wake(c) \/ GiveUp(c) \/ SeeDeadLock(c)
               \/ Unavailable(c)
      PROVE  Budgeted'
  <2>1. budget' = budget /\ recent' = recent
    BY <1>4 DEF Lock, RemoveDeadLock, Ask, Look, Wake, GiveUp, SeeDeadLock, Unavailable
  <2>2. raced => raced'
    <3>1. CASE RemoveDeadLock(c)
      BY <3>1 DEF RemoveDeadLock
    <3>2. CASE ~RemoveDeadLock(c)
      BY <1>4, <3>2 DEF Lock, Ask, Look, Wake, GiveUp, SeeDeadLock, Unavailable
    <3>3. QED BY <3>1, <3>2
  <2>3. QED BY <1>3, <2>1, <2>2
<1>5. CASE GateTick
  BY <1>5, BudgetedTick
<1>6. ASSUME NEW p \in Processes, Kill(p) PROVE Budgeted'
  <2>1. budget' = budget /\ recent' = recent /\ (raced => raced')
    BY <1>6 DEF Kill
  <2>2. QED BY <1>3, <2>1
<1>7. CASE UNCHANGED gateVars
  <2>1. budget' = budget /\ recent' = recent /\ (raced => raced')
    BY <1>7 DEF gateVars
  <2>2. QED BY <1>3, <2>1
<1>8. QED
  BY <1>1, <1>2, <1>4, <1>5, <1>6, <1>7 DEF GateNext, CallerGoes

-----------------------------------------------------------------------------
(* The queues. *)

\* Of some numbers one is the least.
LEMMA LeastOf ==
  ASSUME NEW I, I \subseteq Nat, I # {}
  PROVE  \E x \in I : \A y \in I : x <= y
<1>1. PICK x \in I : \A y \in I : ~(<<y, x>> \in OpToRel(<, Nat))
  BY NatLessThanWellFounded, WFMin
<1>2. ASSUME NEW y \in I, y < x PROVE FALSE
  <2>1. <<y, x>> \in OpToRel(<, Nat)
    BY <1>2 DEF OpToRel
  <2>2. QED BY <1>1, <2>1
<1>3. \A y \in I : x \in Nat /\ y \in Nat /\ ~(y < x)
  BY <1>2
<1>4. QED BY <1>3

\* What is left of a queue is a queue.
LEMMA RemovedOne ==
  ASSUME NEW q \in Seq(Callers), NEW c
  PROVE  RemoveFirst(q, c) \in Seq(Callers)
<1>1. CASE \E i \in 1..Len(q) : q[i] = c
  <2> DEFINE I == {i \in 1..Len(q) : q[i] = c}
             n == CHOOSE x \in I : \A y \in I : x <= y
  <2>1. n \in 1..Len(q)
    <3>1. I \subseteq Nat /\ I # {}
      BY <1>1
    <3> HIDE DEF I
    <3>2. \E x \in I : \A y \in I : x <= y
      BY <3>1, LeastOf
    <3>3. n \in I
      BY <3>2
    <3>4. QED BY <3>3 DEF I
  <2>2. RemoveFirst(q, c) = SubSeq(q, 1, n - 1) \o SubSeq(q, n + 1, Len(q))
    BY <1>1 DEF RemoveFirst, RemoveAt, SelectInSeq, Min
  <2> HIDE DEF n
  <2>3. SubSeq(q, 1, n - 1) \in Seq(Callers) /\ SubSeq(q, n + 1, Len(q)) \in Seq(Callers)
    <3>1. \A i \in 1..(n - 1) : q[i] \in Callers
      BY <2>1
    <3>2. \A i \in (n + 1)..Len(q) : q[i] \in Callers
      BY <2>1
    <3>3. Len(q) \in Nat /\ 1 \in Int /\ n - 1 \in Int /\ n + 1 \in Int
      BY <2>1
    <3>4. QED BY <3>1, <3>2, <3>3, SubSeqProperties
  <2>4. QED BY <2>2, <2>3, ConcatProperties
<1>2. CASE ~ \E i \in 1..Len(q) : q[i] = c
  BY <1>2 DEF RemoveFirst
<1>3. QED BY <1>1, <1>2

\* The queues, and what else the budget does not depend on.
QueuesTyped ==
  /\ queue \in [Processes -> Seq(Callers)]
  /\ hot \subseteq Callers /\ stealing \subseteq Callers
  /\ asks \in 0..MaxAsks /\ kills \in 0..MaxKills

\* No step puts anything but a caller in a queue.
LEMMA QueuesTypedStep == QueuesTyped /\ [GateNext]_gateVars => QueuesTyped'
<1> SUFFICES ASSUME QueuesTyped, [GateNext]_gateVars PROVE QueuesTyped'
  OBVIOUS
<1> USE GateAssumption DEF QueuesTyped
<1>1. ASSUME NEW c \in Callers, Leave(c)
      PROVE  queue' \in [Processes -> Seq(Callers)] /\ hot' \subseteq Callers
  <2>1. RemoveFirst(queue[ProcOf[c]], c) \in Seq(Callers)
    BY RemovedOne
  <2>2. QED BY <1>1, <2>1 DEF Leave
<1>2. ASSUME NEW c \in Callers, TakeOne(c) \/ GiveUp(c) PROVE QueuesTyped'
  BY <1>1, <1>2 DEF TakeOne, GiveUp
<1>3. ASSUME NEW c \in Callers, Unavailable(c) PROVE QueuesTyped'
  <2>1. Leave(c) \/ UNCHANGED <<queue, hot>>
    BY <1>3 DEF Unavailable
  <2>2. UNCHANGED <<stealing, asks, kills>>
    BY <1>3 DEF Unavailable
  <2>3. QED BY <1>1, <2>1, <2>2
<1>4. ASSUME NEW c \in Callers, Ask(c) PROVE QueuesTyped'
  <2>1. Append(queue[ProcOf[c]], c) \in Seq(Callers)
    OBVIOUS
  <2>2. QED BY <1>4, <2>1 DEF Ask
<1>5. ASSUME NEW c \in Callers, Look(c) \/ Lock(c) \/ Wake(c) \/ SeeDeadLock(c) \/ RemoveDeadLock(c)
                                  \/ TakeLater(c) \/ Record(c)
      PROVE  QueuesTyped'
  BY <1>5 DEF Look, Lock, Wake, SeeDeadLock, RemoveDeadLock, TakeLater, Record
<1>6. ASSUME NEW p \in Processes, Kill(p) PROVE QueuesTyped'
  BY <1>6 DEF Kill
<1>7. CASE GateTick \/ UNCHANGED gateVars
  BY <1>7 DEF GateTick, gateVars
<1>8. QED
  BY <1>2, <1>3, <1>4, <1>5, <1>6, <1>7 DEF GateNext, CallerGoes

\* The variables of the gate have their types, for any processes, callers and budget.
THEOREM GateTypeCorrect == GateSpec => []GateTypeOK
<1>1. GateInit => QueuesTyped
  BY GateAssumption DEF GateInit, QueuesTyped
<1>2. GateInv /\ QueuesTyped => GateTypeOK
  BY DEF GateInv, Typed, QueuesTyped, GateTypeOK, Budgets, Steps
<1>3. QED
  BY <1>1, <1>2, GateInvInit, GateInvStep, QueuesTypedStep, PTL DEF GateSpec

\* All processes together let no more through in one tick than a window allows, and in a
\* stretch as long as a window less than two windows' shares, wherever it begins.
THEOREM BudgetIsKept == GateSpec => []BudgetKept
<1>1. GateInv /\ Budgeted => BudgetKept
  <2> SUFFICES ASSUME GateInv, Budgeted, ~raced
               PROVE  /\ \A age \in DOMAIN recent : recent[age] <= Limit
                      /\ Cardinality(Through) <= 2 * Limit - 1
    BY DEF BudgetKept
  <2>1. DOMAIN recent = 0..(Window - 1)
    BY DEF GateInv, Typed
  <2>2. QED BY <2>1, TwoWindows DEF GateInv, Charged
<1>2. GateInv /\ Budgeted /\ [GateNext]_gateVars => GateInv' /\ Budgeted'
  BY GateInvStep, BudgetedStep
<1>3. QED BY <1>1, <1>2, GateInvInit, BudgetedInit, PTL DEF GateSpec
=============================================================================
