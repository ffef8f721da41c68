------------------------------ MODULE StreamProofs ------------------------------
(***************************************************************************)
(* What a browser follows: the ring of recent events implements the feed   *)
(* RecentEvents promises, for any size of the ring, and a tail of a build  *)
(* log misses nothing, for any viewers, lines and capacity.                *)
(***************************************************************************)
EXTENDS MCStream, SequenceTheorems, TLAPS

-----------------------------------------------------------------------------
(* The ring of events. *)

\* The remainder of an index that wraps at most once.
LEMMA Mod2 ==
  ASSUME NEW n \in Nat \ {0}, NEW a \in Nat, a - n < n
  PROVE  a % n = IF a < n THEN a ELSE a - n
<1>1. CASE a < n
  BY <1>1
<1>2. CASE ~(a < n)
  <2>1. a = n + (a - n) /\ a - n \in 0..(n - 1)
    BY <1>2
  <2>2. QED BY <1>2, <2>1
<1>3. QED BY <1>1, <1>2

\* The three variables of the ring.
Ring ==
  /\ ring \in [0..(Size - 1) -> 0..MaxBuilds] /\ next \in 0..(Size - 1) /\ full \in BOOLEAN

\* What recent(Size) walks over: how many entries, where the i-th newest lies, and the walk.
Have(n, f) == IF f THEN Size ELSE n
Slot(n, i) == IF i <= n THEN n - i ELSE n - i + Size
Walk(r, n, f) == [i \in 1..Have(n, f) |-> r[(n - i + Size) % Size]]

\* recent(Size): the i-th newest event is in the slot i writes back from next.
LEMMA WalkShape ==
  ASSUME NEW r \in [0..(Size - 1) -> 0..MaxBuilds], NEW n \in 0..(Size - 1), NEW f \in BOOLEAN
  PROVE  /\ Walk(r, n, f) \in Seq(0..MaxBuilds)
         /\ Len(Walk(r, n, f)) = Have(n, f)
         /\ \A i \in 1..Have(n, f) : Walk(r, n, f)[i] = r[Slot(n, i)] /\ Slot(n, i) \in 0..(Size - 1)
<1> USE DashboardAssumption
<1>1. Have(n, f) \in 0..Size
  BY DEF Have
<1>2. \A i \in 1..Have(n, f) : (n - i + Size) % Size = Slot(n, i) /\ Slot(n, i) \in 0..(Size - 1)
  <2> SUFFICES ASSUME NEW i \in 1..Have(n, f)
               PROVE  (n - i + Size) % Size = Slot(n, i) /\ Slot(n, i) \in 0..(Size - 1)
    OBVIOUS
  <2>1. n - i + Size \in Nat /\ n - i + Size - Size < Size
    BY <1>1
  <2> DEFINE a == n - i + Size
  <2>2. a % Size = IF a < Size THEN a ELSE a - Size
    <3> HIDE DEF a
    <3>1. a \in Nat /\ a - Size < Size
      BY <2>1 DEF a
    <3>2. QED BY <3>1, Mod2
  <2>3. i \in 1..Size
    BY <1>1
  <2>4. CASE i <= n
    <3>1. ~(a < Size) /\ a - Size = n - i /\ n - i \in 0..(Size - 1)
      BY <2>3, <2>4
    <3>2. QED BY <2>2, <2>4, <3>1 DEF Slot
  <2>5. CASE ~(i <= n)
    <3>1. a < Size /\ n - i + Size \in 0..(Size - 1)
      BY <2>3, <2>5
    <3>2. QED BY <2>2, <2>5, <3>1 DEF Slot
  <2>6. QED BY <2>4, <2>5
<1>3. \A i \in 1..Have(n, f) : Walk(r, n, f)[i] = r[Slot(n, i)]
  BY <1>2 DEF Walk
<1>4. Walk(r, n, f) \in [1..Have(n, f) -> 0..MaxBuilds]
  BY <1>2 DEF Walk
<1>5. Walk(r, n, f) \in Seq(0..MaxBuilds) /\ Len(Walk(r, n, f)) = Have(n, f)
  <2> DEFINE h == Have(n, f)
             w == Walk(r, n, f)
  <2>1. h \in Nat /\ w \in [1..h -> 0..MaxBuilds]
    BY <1>1, <1>4
  <2> HIDE DEF h, w
  <2>2. w \in Seq(0..MaxBuilds)
    BY <2>1, SeqDef
  <2>3. Len(w) = h
    BY <2>1, <2>2, LenProperties
  <2>4. QED BY <2>2, <2>3 DEF h, w
<1>6. QED BY <1>2, <1>3, <1>5

\* With the ring typed, recent(Size) is that walk over its three variables.
LEMMA RecentWalks ==
  ASSUME Ring
  PROVE  Recent(Size) = Walk(ring, next, full)
BY DashboardAssumption DEF Recent, Walk, Have, Ring

\* add: the new event comes first and the others move back one place, the last one falling
\* out when the ring is full, whether or not the write wraps.
LEMMA AddFeeds ==
  ASSUME Ring, NEW e \in Builds, Add(e)
  PROVE  Ring' /\ Recent(Size)' = Feed!FirstOf(<<e>> \o Recent(Size), Size)
<1> USE DashboardAssumption
<1> DEFINE R == Recent(Size)
           s == <<e>> \o R
           m == IF Have(next, full) + 1 < Size THEN Have(next, full) + 1 ELSE Size
<1>1. next' = (IF next = Size - 1 THEN 0 ELSE next + 1) /\ next' \in 0..(Size - 1)
  <2>1. next + 1 \in Nat /\ next + 1 - Size < Size
    BY DEF Ring
  <2> DEFINE a == next + 1
  <2>2. next' = a % Size
    BY DEF Add
  <2> HIDE DEF a
  <2>3. a \in Nat /\ a - Size < Size
    BY <2>1 DEF a, Ring
  <2>4. next' = IF a < Size THEN a ELSE a - Size
    BY <2>2, <2>3, Mod2
  <2>5. QED BY <2>4 DEF Ring, a
<1>2. full' = (full \/ next = Size - 1)
  BY <1>1 DEF Add, Ring
<1>3. Ring'
  BY <1>1, <1>2 DEF Add, Ring, Builds
<1>4. Have(next', full') = m /\ m \in 1..Size /\ Have(next, full) \in 0..Size
  <2>1. CASE full
    <3>1. full'
      BY <1>2, <2>1
    <3>2. QED BY <2>1, <3>1 DEF Have, Ring
  <2>2. CASE ~full /\ next = Size - 1
    <3>1. full'
      BY <1>2, <2>2
    <3>2. QED BY <2>2, <3>1 DEF Have, Ring
  <2>3. CASE ~full /\ next # Size - 1
    <3>1. ~full'
      BY <1>2, <2>3
    <3>2. QED BY <1>1, <2>3, <3>1 DEF Have, Ring
  <2>4. QED BY <2>1, <2>2, <2>3 DEF Ring
<1>5. /\ R \in Seq(0..MaxBuilds) /\ Len(R) = Have(next, full)
      /\ \A i \in 1..Have(next, full) : R[i] = ring[Slot(next, i)] /\ Slot(next, i) \in 0..(Size - 1)
  <2>1. R = Walk(ring, next, full)
    BY RecentWalks
  <2> HIDE DEF R
  <2>2. /\ ring \in [0..(Size - 1) -> 0..MaxBuilds] /\ next \in 0..(Size - 1) /\ full \in BOOLEAN
    BY DEF Ring
  <2>3. QED BY <2>1, <2>2, WalkShape
<1>6. s \in Seq(0..MaxBuilds) /\ Len(s) = Have(next, full) + 1 /\ s[1] = e /\ \A i \in 2..(Have(next, full) + 1) : s[i] = R[i - 1]
  <2>1. <<e>> \in Seq(0..MaxBuilds) /\ Len(<<e>>) = 1 /\ <<e>>[1] = e
    BY DEF Builds
  <2> HIDE DEF R
  <2>2. /\ s \in Seq(0..MaxBuilds) /\ Len(s) = 1 + Have(next, full)
        /\ \A i \in 1..(1 + Have(next, full)) : s[i] = IF i <= 1 THEN <<e>>[i] ELSE R[i - 1]
    BY <1>5, <2>1, ConcatProperties
  <2>3. QED BY <1>4, <2>1, <2>2
<1>7. /\ R' \in Seq(0..MaxBuilds) /\ Len(R') = m
      /\ \A i \in 1..m : R'[i] = ring'[Slot(next', i)]
  <2>1. R' = Walk(ring', next', full')
    BY <1>3 DEF Recent, Walk, Have, Ring
  <2> HIDE DEF R, m
  <2>2. /\ ring' \in [0..(Size - 1) -> 0..MaxBuilds] /\ next' \in 0..(Size - 1) /\ full' \in BOOLEAN
    BY <1>3 DEF Ring
  <2>3. /\ R' \in Seq(0..MaxBuilds) /\ Len(R') = Have(next', full')
        /\ \A i \in 1..Have(next', full') : R'[i] = ring'[Slot(next', i)]
    BY <2>1, <2>2, WalkShape
  <2>4. QED BY <1>4, <2>3
<1>8. Feed!FirstOf(s, Size) = SubSeq(s, 1, m)
  <2> HIDE DEF s
  <2>1. QED BY <1>4, <1>6 DEF Feed!FirstOf
<1>9. /\ SubSeq(s, 1, m) \in Seq(0..MaxBuilds) /\ Len(SubSeq(s, 1, m)) = m
      /\ \A i \in 1..m : SubSeq(s, 1, m)[i] = s[i]
  <2> HIDE DEF s, m
  <2>1. \A i \in 1..m : s[i] \in 0..MaxBuilds
    BY <1>4, <1>6, ElementOfSeq DEF m
  <2>2. QED BY <1>4, <2>1, SubSeqProperties
<1>10. \A i \in 1..m : R'[i] = s[i]
  <2> HIDE DEF R, s, m
  <2> SUFFICES ASSUME NEW i \in 1..m PROVE ring'[Slot(next', i)] = s[i]
    BY <1>7
  <2>1. CASE i = 1
    <3>1. Slot(next', i) = next
      BY <1>1, <2>1 DEF Slot, Ring
    <3>2. QED BY <1>6, <2>1, <3>1 DEF Add, Ring
  <2>2. CASE i # 1
    <3>1. i - 1 \in 1..Have(next, full) /\ i \in 2..(Have(next, full) + 1)
      BY <1>4, <2>2 DEF m
    <3>2. Slot(next', i) = Slot(next, i - 1) /\ Slot(next, i - 1) # next
      BY <1>1, <1>4, <2>2 DEF Slot, Ring
    <3>3. QED BY <1>5, <1>6, <3>1, <3>2 DEF Add, Ring
  <2>3. QED BY <2>1, <2>2
<1>11. R' = SubSeq(s, 1, m)
  <2> HIDE DEF R, s, m
  <2>1. QED BY <1>7, <1>9, <1>10, SeqEqual
<1>12. QED BY <1>3, <1>8, <1>11

-----------------------------------------------------------------------------
\* What a starting process finds in memory has its types.
LEMMA FreshTyped ==
  /\ [i \in 0..(Size - 1) |-> 0] \in [0..(Size - 1) -> 0..MaxBuilds] /\ 0 \in 0..(Size - 1)
  /\ [r \in Restores |-> <<"told", 0>>] \in [Restores -> {"waiting", "counted", "told"} \X Nat]
  /\ <<>> \in Seq(Builds) /\ Len(<<>>) <= Size
<1>1. 0 \in 0..(Size - 1) /\ 0 \in 0..MaxBuilds /\ 0 <= Size
  BY DashboardAssumption
<1>2. [i \in 0..(Size - 1) |-> 0] \in [0..(Size - 1) -> 0..MaxBuilds]
  BY <1>1
<1>3. <<>> \in Seq(Builds) /\ Len(<<>>) = 0
  BY EmptySeq
<1>4. QED BY <1>1, <1>2, <1>3

\* The initial state is typed.
LEMMA TypeInit == DashInit => DashTypeOK
<1> SUFFICES ASSUME DashInit PROVE DashTypeOK
  OBVIOUS
<1> USE DashboardAssumption
<1>1. /\ ring \in [0..(Size - 1) -> 0..MaxBuilds] /\ next \in 0..(Size - 1)
     /\ restore \in [Restores -> {"waiting", "counted", "told"} \X Nat]
     /\ refill \in Seq(Builds) /\ Len(refill) <= Size
  BY FreshTyped DEF DashInit
<1>2. boot \in {"down", "serving", "reap", "restore", "history", "summary", "flag", "clear", "up"} /\ boots \in 0..MaxBoots
  BY DEF DashInit, DashTypeOK
<1>3. /\ {starting, summary, full} \subseteq BOOLEAN
     /\ stage \in {"none", "reaping", "restoring", "history"} \X Nat /\ counted \in Nat
  BY DEF DashInit, DashTypeOK, NoStage
<1>4. /\ built \in Seq(Builds) /\ {queued, claimed, running, pushed, row} \subseteq 0..MaxBuilds
     /\ rpc \in {"closed", "rows", "queue", "running", "flag", "stage", "send"}
  BY FreshTyped DEF DashInit, DashTypeOK
<1>5. QED BY <1>1, <1>2, <1>3, <1>4 DEF DashTypeOK

\* The same, from the type invariant.
LEMMA AddTyped ==
  ASSUME DashTypeOK, NEW e \in Builds, Add(e)
  PROVE  /\ ring' \in [0..(Size - 1) -> 0..MaxBuilds] /\ next' \in 0..(Size - 1) /\ full' \in BOOLEAN
         /\ Recent(Size)' = Feed!FirstOf(<<e>> \o Recent(Size), Size)
<1>1. Ring
  BY DEF DashTypeOK, Ring
<1>2. Ring' /\ Recent(Size)' = Feed!FirstOf(<<e>> \o Recent(Size), Size)
  BY <1>1, AddFeeds
<1>3. QED BY <1>2 DEF Ring

\* RecentBuilds returns at most as many rows as the ring holds.
LEMMA HistoryTyped ==
  ASSUME NEW s \in Seq(Builds)
  PROVE  LET r == SubSeq(s, IF Len(s) > Size THEN Len(s) - Size + 1 ELSE 1, Len(s)) IN
         r \in Seq(Builds) /\ Len(r) <= Size
<1> USE DashboardAssumption
<1> DEFINE n == Len(s)
           m == IF n > Size THEN n - Size + 1 ELSE 1
<1>1. n \in Nat
  BY LenProperties
<1>2. m \in Int /\ m >= 1 /\ n - m + 1 <= Size
  BY <1>1
<1>3. \A i \in m..n : s[i] \in Builds
  BY <1>1, <1>2, ElementOfSeq
<1> HIDE DEF m
<1>4. SubSeq(s, m, n) \in Seq(Builds) /\ Len(SubSeq(s, m, n)) = IF m <= n THEN n - m + 1 ELSE 0
  BY <1>1, <1>2, <1>3, SubSeqProperties
<1>5. Len(SubSeq(s, m, n)) <= Size
  BY <1>1, <1>2, <1>4
<1>6. QED BY <1>4, <1>5 DEF m

\* Every step keeps the types.
LEMMA TypeStep == DashTypeOK /\ [DashNext]_dashVars => DashTypeOK'
<1> SUFFICES ASSUME DashTypeOK, [DashNext]_dashVars PROVE DashTypeOK'
  OBVIOUS
<1> USE DashboardAssumption
<1>1. CASE Serve
  BY <1>1 DEF Serve, DashTypeOK, ringVars, jobVars, readVars
<1>2. CASE Boot
  BY <1>2 DEF Boot, DashTypeOK, ringVars, jobVars, readVars
<1>3. CASE BeginRestores
  BY <1>3 DEF BeginRestores, DashTypeOK, ringVars, jobVars, readVars
<1>4. CASE BeginHistory
  <2>1. refill' \in Seq(Builds) /\ Len(refill') <= Size
    BY <1>4, HistoryTyped DEF BeginHistory, DashTypeOK
  <2>2. QED BY <1>4, <2>1 DEF BeginHistory, DashTypeOK, ringVars, jobVars, readVars
<1>5. CASE Backfill
  <2>1. CASE refill = <<>>
    BY <1>5, <2>1 DEF Backfill, DashTypeOK, ringVars, jobVars, readVars
  <2>2. CASE refill # <<>>
    <3>1. Head(refill) \in Builds /\ Tail(refill) \in Seq(Builds) /\ Len(Tail(refill)) <= Size
      BY <2>2, HeadTailProperties, LenProperties DEF DashTypeOK
    <3>2. Add(Head(refill)) /\ refill' = Tail(refill) /\ boot' = boot
      BY <1>5, <2>2 DEF Backfill
    <3>3. ring' \in [0..(Size - 1) -> 0..MaxBuilds] /\ next' \in 0..(Size - 1) /\ full' \in BOOLEAN
      BY <3>1, <3>2, AddTyped
    <3>4. UNCHANGED <<boot, boots, starting, stage, summary, counted, restore, jobVars, rpc>>
      BY <1>5, <3>2 DEF Backfill, readVars
    <3>5. QED BY <3>1, <3>2, <3>3, <3>4 DEF DashTypeOK, jobVars
  <2>3. QED BY <2>1, <2>2
<1>6. CASE Summarise
  BY <1>6 DEF Summarise, DashTypeOK, ringVars, jobVars, readVars
<1>7. CASE LowerFlag
  BY <1>7 DEF LowerFlag, DashTypeOK, ringVars, jobVars, readVars
<1>8. CASE ClearStage
  BY <1>8 DEF ClearStage, DashTypeOK, NoStage, ringVars, jobVars, readVars
<1>9. ASSUME NEW r \in Restores, CountRestore(r) PROVE DashTypeOK'
  <2>1. restore[r][2] \in Nat
    BY DEF DashTypeOK
  <2>2. restore' \in [Restores -> {"waiting", "counted", "told"} \X Nat]
    BY <1>9 DEF CountRestore, DashTypeOK
  <2>3. stage' \in {"none", "reaping", "restoring", "history"} \X Nat /\ counted' \in Nat
    BY <1>9, <2>1 DEF CountRestore, DashTypeOK
  <2>4. UNCHANGED <<boot, boots, starting, summary, refill, ringVars, jobVars, rpc>>
    BY <1>9 DEF CountRestore, readVars
  <2>5. QED BY <2>2, <2>3, <2>4 DEF DashTypeOK, ringVars, jobVars
<1>10. ASSUME NEW r \in Restores, ShowRestore(r) PROVE DashTypeOK'
  <2>1. restore[r][2] \in Nat
    BY DEF DashTypeOK
  <2>2. restore' \in [Restores -> {"waiting", "counted", "told"} \X Nat]
    BY <1>10 DEF ShowRestore, DashTypeOK
  <2>3. stage' \in {"none", "reaping", "restoring", "history"} \X Nat /\ counted' \in Nat
    BY <1>10, <2>1 DEF ShowRestore, DashTypeOK
  <2>4. UNCHANGED <<boot, boots, starting, summary, refill, ringVars, jobVars, rpc>>
    BY <1>10 DEF ShowRestore, readVars
  <2>5. QED BY <2>2, <2>3, <2>4 DEF DashTypeOK, ringVars, jobVars
<1>11. CASE Die
  <2>1. /\ ring' \in [0..(Size - 1) -> 0..MaxBuilds] /\ next' \in 0..(Size - 1)
       /\ restore' \in [Restores -> {"waiting", "counted", "told"} \X Nat]
       /\ refill' \in Seq(Builds) /\ Len(refill') <= Size
    BY <1>11, FreshTyped DEF Die
  <2>2. boot' \in {"down", "serving", "reap", "restore", "history", "summary", "flag", "clear", "up"} /\ boots' \in 0..MaxBoots
    BY <1>11 DEF Die, DashTypeOK
  <2>3. /\ {starting', summary', full'} \subseteq BOOLEAN
       /\ stage' \in {"none", "reaping", "restoring", "history"} \X Nat /\ counted' \in Nat
    BY <1>11 DEF Die, DashTypeOK, NoStage
  <2>4. /\ built' \in Seq(Builds) /\ {queued', claimed', running', pushed', row'} \subseteq 0..MaxBuilds
       /\ rpc' \in {"closed", "rows", "queue", "running", "flag", "stage", "send"}
    BY <1>11, FreshTyped DEF Die, DashTypeOK
  <2>5. QED BY <2>1, <2>2, <2>3, <2>4 DEF DashTypeOK
<1>12. CASE Push
  BY <1>12 DEF Push, DashTypeOK, bootVars, ringVars, readVars
<1>13. CASE Claim
  BY <1>13 DEF Claim, DashTypeOK, bootVars, ringVars, readVars
<1>14. CASE Register
  <2>1. claimed \in Builds /\ Add(claimed)
    BY <1>14 DEF Register, DashTypeOK, Builds
  <2>2. ring' \in [0..(Size - 1) -> 0..MaxBuilds] /\ next' \in 0..(Size - 1) /\ full' \in BOOLEAN
    BY <2>1, AddTyped
  <2>3. built' \in Seq(Builds)
    BY <1>14, <2>1, AppendProperties DEF Register, DashTypeOK
  <2>4. /\ UNCHANGED <<bootVars, queued, pushed, row, rpc>>
        /\ running' \in 0..MaxBuilds /\ claimed' \in 0..MaxBuilds
    BY <1>14 DEF Register, DashTypeOK, readVars
  <2>5. QED BY <2>2, <2>3, <2>4 DEF DashTypeOK, bootVars
<1>15. CASE SaveRow
  <2>1. running \in Builds /\ Add(running)
    BY <1>15 DEF SaveRow, DashTypeOK, Builds
  <2>2. ring' \in [0..(Size - 1) -> 0..MaxBuilds] /\ next' \in 0..(Size - 1) /\ full' \in BOOLEAN
    BY <2>1, AddTyped
  <2>3. QED BY <1>15, <2>2 DEF SaveRow, DashTypeOK, bootVars, readVars
<1>16. CASE Unregister
  BY <1>16 DEF Unregister, DashTypeOK, bootVars, ringVars, readVars
<1>17. CASE Connect \/ ReadRows \/ ReadQueue \/ ReadRunning
  BY <1>17 DEF Connect, ReadRows, ReadQueue, ReadRunning, DashTypeOK, bootVars, ringVars, jobVars
<1>18. CASE ReadFlag \/ ReadStage \/ Send
  BY <1>18 DEF ReadFlag, ReadStage, Send, DashTypeOK, bootVars, ringVars, jobVars
<1>19. CASE UNCHANGED dashVars
  BY <1>19 DEF DashTypeOK, dashVars, bootVars, ringVars, jobVars, readVars
<1>20. QED
  BY <1>1, <1>2, <1>3, <1>4, <1>5, <1>6, <1>7, <1>8, <1>9, <1>10, <1>11, <1>12, <1>13, <1>14, <1>15,
     <1>16, <1>17, <1>18, <1>19 DEF DashNext, BootStep, BuildStep, ReadStep

\* A step that leaves the ring alone leaves the feed alone.
LEMMA StillStutters ==
  ASSUME UNCHANGED ringVars
  PROVE  Recent(Size)' = Recent(Size)
BY DEF ringVars, Recent

\* An empty ring shows nothing.
LEMMA FeedInit == DashInit => Feed!RecentInit
<1> SUFFICES ASSUME DashInit PROVE Recent(Size) = <<>>
  BY DEF Feed!RecentInit
<1> USE DashboardAssumption
<1>1. Ring
  BY FreshTyped DEF DashInit, Ring
<1>2. Recent(Size) = Walk(ring, next, full) /\ Have(next, full) = 0
  BY <1>1, RecentWalks DEF DashInit, Have
<1>3. QED BY <1>2 DEF Walk

\* Every step adds an event of a build, forgets everything, or leaves the feed alone.
LEMMA FeedStep == DashTypeOK /\ [DashNext]_dashVars => [Feed!RecentNext]_(Recent(Size))
<1> SUFFICES ASSUME DashTypeOK, [DashNext]_dashVars
             PROVE  Feed!RecentNext \/ Recent(Size)' = Recent(Size)
  OBVIOUS
<1> USE DashboardAssumption
<1>1. ASSUME NEW e \in Builds, Add(e) PROVE Feed!RecentNext
  <2>1. Recent(Size)' = Feed!FirstOf(<<e>> \o Recent(Size), Size)
    BY <1>1, AddTyped
  <2>2. QED BY <2>1 DEF Feed!RecentNext
<1>2. CASE Backfill
  <2>1. CASE refill = <<>>
    BY <1>2, <2>1, StillStutters DEF Backfill
  <2>2. CASE refill # <<>>
    <3>1. Head(refill) \in Builds
      BY <2>2, HeadTailProperties DEF DashTypeOK
    <3>2. QED BY <1>1, <1>2, <2>2, <3>1 DEF Backfill
  <2>3. QED BY <2>1, <2>2
<1>3. CASE Register
  <2>1. claimed \in Builds
    BY <1>3 DEF Register, DashTypeOK, Builds
  <2>2. QED BY <1>1, <1>3, <2>1 DEF Register
<1>4. CASE SaveRow
  <2>1. running \in Builds
    BY <1>4 DEF SaveRow, DashTypeOK, Builds
  <2>2. QED BY <1>1, <1>4, <2>1 DEF SaveRow
<1>5. CASE Die
  <2>1. next' = 0 /\ full' = FALSE
    BY <1>5 DEF Die
  <2>2. Recent(Size)' = <<>>
    BY <2>1 DEF Recent
  <2>3. QED BY <2>2 DEF Feed!RecentNext
<1>6. CASE Serve \/ Boot \/ BeginRestores \/ BeginHistory \/ Summarise \/ LowerFlag \/ ClearStage
  BY <1>6, StillStutters DEF Serve, Boot, BeginRestores, BeginHistory, Summarise, LowerFlag, ClearStage
<1>7. ASSUME NEW r \in Restores, CountRestore(r) \/ ShowRestore(r) PROVE Recent(Size)' = Recent(Size)
  BY <1>7, StillStutters DEF CountRestore, ShowRestore
<1>8. CASE Push \/ Claim \/ Unregister \/ Connect
  BY <1>8, StillStutters DEF Push, Claim, Unregister, Connect
<1>9. CASE ReadStep
  BY <1>9, StillStutters DEF ReadStep, ReadRows, ReadQueue, ReadRunning, ReadFlag, ReadStage, Send
<1>10. CASE UNCHANGED dashVars
  BY <1>10, StillStutters DEF dashVars
<1>11. QED
  BY <1>2, <1>3, <1>4, <1>5, <1>6, <1>7, <1>8, <1>9, <1>10 DEF DashNext, BootStep, BuildStep

-----------------------------------------------------------------------------
\* Startup, builds and status requests keep every variable within its type: indices of the
\* ring in range, and no more rows to refill than it holds.
THEOREM DashTyped == DashSpec => []DashTypeOK
<1>1. QED BY TypeInit, TypeStep, PTL DEF DashSpec

\* The circular buffer of events.go, however often it wraps, shows what an unbounded log cut
\* to its newest Size entries would show; only a restart forgets.
THEOREM RingIsFeed == DashSpec => FeedIsRecent
<1>1. QED BY DashTyped, FeedInit, FeedStep, PTL DEF DashSpec, FeedIsRecent, Feed!RecentSpec

-----------------------------------------------------------------------------
(* Channels of lines. *)

\* Consecutive lines, the first of them right after the last one sent.
Consecutive(c) == \A i \in 2..Len(c) : c[i] = c[i - 1] + 1
Gapless(c, s) == Consecutive(c) /\ (s # 0 /\ c # <<>> => Head(c) = s + 1)

\* The last line a viewer was given, sent or in its channel.
LastGiven(c, s) == IF c = <<>> THEN s ELSE Last(c)

\* The next line goes on where a channel ends.
LEMMA PassOn ==
  ASSUME NEW c \in Seq(1..MaxLines), NEW s \in 0..MaxLines, NEW n \in 1..MaxLines,
         Gapless(c, s), LastGiven(c, s) \in {0, n - 1}
  PROVE  /\ Append(c, n) \in Seq(1..MaxLines) /\ Append(c, n) # <<>>
         /\ Len(Append(c, n)) = Len(c) + 1
         /\ Gapless(Append(c, n), s) /\ LastGiven(Append(c, n), s) = n
<1> DEFINE d == Append(c, n)
<1>1. /\ d \in Seq(1..MaxLines) /\ d # <<>> /\ Len(d) = Len(c) + 1
      /\ \A i \in 1..Len(c) : d[i] = c[i]
      /\ d[Len(c) + 1] = n
  BY AppendProperties
<1>2. Len(c) \in Nat /\ (c = <<>> <=> Len(c) = 0) /\ \A i \in 1..Len(c) : c[i] \in 1..MaxLines
  BY LenProperties, EmptySeq, ElementOfSeq
<1>3. LastGiven(d, s) = n
  BY <1>1 DEF LastGiven, Last
<1>4. c # <<>> => c[Len(c)] = n - 1
  BY <1>2 DEF LastGiven, Last
<1>5. Consecutive(d)
  <2> SUFFICES ASSUME NEW i \in 2..Len(d) PROVE d[i] = d[i - 1] + 1
    BY DEF Consecutive
  <2>1. CASE i \in 2..Len(c)
    BY <1>1, <2>1, <1>2 DEF Gapless, Consecutive
  <2>2. CASE i = Len(c) + 1
    <3>1. Len(c) \in 1..Len(c) /\ c # <<>> /\ i - 1 = Len(c)
      BY <1>2, <2>2
    <3>2. d[i] = n /\ d[i - 1] = n - 1
      BY <1>1, <1>4, <2>2, <3>1
    <3>3. QED BY <3>2
  <2>3. QED BY <1>1, <1>2, <2>1, <2>2
<1>6. s # 0 => Head(d) = s + 1
  <2> SUFFICES ASSUME s # 0 PROVE d[1] = s + 1
    BY <1>1, HeadTailProperties
  <2>1. CASE c = <<>>
    BY <1>1, <1>2, <2>1 DEF LastGiven
  <2>2. CASE c # <<>>
    <3>1. 1 \in 1..Len(c) /\ Head(c) = c[1] /\ Head(c) = s + 1
      BY <1>2, <2>2, HeadTailProperties DEF Gapless
    <3>2. QED BY <1>1, <3>1
  <2>3. QED BY <2>1, <2>2
<1>7. QED BY <1>1, <1>3, <1>5, <1>6 DEF Gapless

\* Receiving the first line of a channel leaves the rest without a gap.
LEMMA TakeOff ==
  ASSUME NEW c \in Seq(1..MaxLines), NEW s \in 0..MaxLines, c # <<>>, Gapless(c, s)
  PROVE  /\ Head(c) \in 1..MaxLines
         /\ Tail(c) \in Seq(1..MaxLines) /\ Len(Tail(c)) = Len(c) - 1
         /\ Gapless(Tail(c), Head(c)) /\ LastGiven(Tail(c), Head(c)) = LastGiven(c, s)
<1> DEFINE t == Tail(c)
<1>1. /\ Head(c) = c[1] /\ t \in Seq(1..MaxLines) /\ Len(t) = Len(c) - 1
      /\ \A i \in 1..Len(t) : t[i] = c[i + 1]
  BY HeadTailProperties
<1>2. /\ Len(c) \in Nat \ {0} /\ \A i \in 1..Len(c) : c[i] \in 1..MaxLines
      /\ (t = <<>> <=> Len(t) = 0)
  BY <1>1, LenProperties, EmptySeq, ElementOfSeq
<1>3. Head(c) \in 1..MaxLines
  BY <1>1, <1>2
<1>4. \A i \in 2..Len(c) : c[i] = c[i - 1] + 1
  BY DEF Gapless, Consecutive
<1>5. Consecutive(t)
  <2> SUFFICES ASSUME NEW i \in 2..Len(t) PROVE t[i] = t[i - 1] + 1
    BY DEF Consecutive
  <2>1. i \in 1..Len(t) /\ i - 1 \in 1..Len(t) /\ i + 1 \in 2..Len(c) /\ (i + 1) - 1 = i /\ (i - 1) + 1 = i
    BY <1>1, <1>2
  <2>2. t[i] = c[i + 1] /\ t[i - 1] = c[i] /\ c[i + 1] = c[i] + 1
    BY <1>1, <1>4, <2>1
  <2>3. QED BY <2>2
<1>6. t # <<>> => Head(t) = Head(c) + 1
  <2> SUFFICES ASSUME t # <<>> PROVE t[1] = c[1] + 1
    BY <1>1, HeadTailProperties
  <2>1. 1 \in 1..Len(t) /\ 2 \in 2..Len(c)
    BY <1>1, <1>2
  <2>2. QED BY <1>1, <1>4, <2>1
<1>7. LastGiven(t, Head(c)) = LastGiven(c, s)
  <2>1. CASE t = <<>>
    BY <1>1, <1>2, <2>1 DEF LastGiven, Last
  <2>2. CASE t # <<>>
    <3>1. Len(t) \in 1..Len(t) /\ Len(t) + 1 = Len(c)
      BY <1>1, <1>2, <2>2
    <3>2. t[Len(t)] = c[Len(c)]
      BY <1>1, <3>1
    <3>3. QED BY <2>2, <3>2 DEF LastGiven, Last
  <2>3. QED BY <2>1, <2>2
<1>8. QED BY <1>1, <1>3, <1>5, <1>6, <1>7 DEF Gapless

\* A tail begins with lines in a row up to the last one stored, and with none only when
\* nothing is stored or the file is gone.
LEMMA TailShape ==
  ASSUME NEW b \in Logs, stored[b] \in 0..MaxLines
  PROVE  /\ TailOf(b) \in Seq(1..MaxLines) /\ Len(TailOf(b)) <= Buffer
         /\ Consecutive(TailOf(b))
         /\ TailOf(b) # <<>> => Last(TailOf(b)) = stored[b]
         /\ TailOf(b) = <<>> /\ onDisk[b] => stored[b] = 0
<1> USE LogAssumption
<1>1. CASE ~onDisk[b]
  <2>1. TailOf(b) = <<>> /\ <<>> \in Seq(1..MaxLines) /\ Len(<<>>) = 0
    BY <1>1 DEF TailOf
  <2>2. QED BY <1>1, <2>1 DEF Consecutive
<1>2. CASE onDisk[b]
  <2> DEFINE n == IF stored[b] <= Backlog THEN stored[b] ELSE Backlog
             k == stored[b] - n
             c == [i \in 1..n |-> i + stored[b] - n]
  <2>1. n \in 0..MaxLines /\ n <= Buffer /\ k \in Nat /\ n + k = stored[b] /\ (n = 0 => stored[b] = 0)
    OBVIOUS
  <2>2. TailOf(b) = c
    BY <1>2 DEF TailOf
  <2>3. \A i \in 1..n : i + stored[b] - n = i + k /\ i + k \in 1..MaxLines
    BY <2>1
  <2> HIDE DEF n, k
  <2>4. c \in Seq(1..MaxLines) /\ Len(c) = n
    <3>1. c \in [1..n -> 1..MaxLines]
      BY <2>3
    <3>2. QED BY <2>1, <3>1, SeqDef, LenProperties
  <2>5. \A i \in 1..n : c[i] = i + k
    BY <2>3
  <2>6. c = <<>> <=> n = 0
    BY <2>4, EmptySeq
  <2> HIDE DEF c
  <2>7. Consecutive(c)
    <3> SUFFICES ASSUME NEW i \in 2..n PROVE c[i] = c[i - 1] + 1
      BY <2>4 DEF Consecutive
    <3>1. i \in 1..n /\ i - 1 \in 1..n
      BY <2>1
    <3>2. QED BY <2>1, <2>5, <3>1
  <2>8. c # <<>> => c[Len(c)] = stored[b]
    BY <2>1, <2>4, <2>5, <2>6
  <2>9. QED BY <2>1, <2>2, <2>4, <2>6, <2>7, <2>8 DEF Last
<1>3. QED BY <1>1, <1>2

-----------------------------------------------------------------------------
(* The invariant of the logs, and what writing a line does to it. *)

\* What a tail shows: lines in a row, while it is registered up to the last of the e lines
\* the build printed, and none only if none was printed or the file is gone.
Shows(c, s, registered, e, there) ==
  /\ Gapless(c, s)
  /\ registered /\ LastGiven(c, s) # 0 => LastGiven(c, s) = e
  /\ registered /\ LastGiven(c, s) = 0 /\ there => e = 0

\* The build has its writer.
Begun(b) == b \in Logs /\ wpos[b] \notin {"none", "created"}

\* The parts of the inductive invariant.
LogTyped == LogTypeOK /\ tailChan \in [Viewers -> Seq(1..MaxLines)]
LiveBegun == liveLog = 0 \/ Begun(liveLog)
HeldFits == \A b \in Logs : heldBack[b] => emitted[b] < MaxLines
StoredAll == \A b \in Logs : ~writeErr[b] => stored[b] = emitted[b]
ClosedFlushed == \A b \in Logs : wpos[b] = "closed" => ~heldBack[b]
Placed(v) ==
  /\ vpos[v] \in {"attach", "tail"} => Begun(tailing[v])
  /\ subscribed[v] => vpos[v] = "tail"
  /\ vpos[v] \notin {"tail", "over"} => sent[v] = 0 /\ tailChan[v] = <<>>
ShownWhole(v) ==
  vpos[v] = "tail" /\ ~writeErr[tailing[v]] =>
    Shows(tailChan[v], sent[v], subscribed[v], emitted[tailing[v]], onDisk[tailing[v]])
FilesOK == LiveBegun /\ HeldFits /\ StoredAll /\ ClosedFlushed
ViewersOK == \A v \in Viewers : Placed(v) /\ ShownWhole(v)
LogInv == LogTyped /\ FilesOK /\ ViewersOK

\* One more line of a build: it is stored or the write fails, and each of its tails is given
\* it or is no longer registered.
OneMoreLine(b) ==
  /\ emitted[b] < MaxLines /\ emitted' = [emitted EXCEPT ![b] = @ + 1]
  /\ \/ ~writeErr[b] /\ stored' = [stored EXCEPT ![b] = emitted[b] + 1] /\ UNCHANGED writeErr
     \/ writeErr' = [writeErr EXCEPT ![b] = TRUE] /\ UNCHANGED stored
  /\ tailChan' = [v \in Viewers |->
       IF subscribed[v] /\ tailing[v] = b /\ Len(tailChan[v]) < Buffer
       THEN Append(tailChan[v], emitted[b] + 1) ELSE tailChan[v]]
  /\ subscribed' \in [Viewers -> BOOLEAN]
  /\ \A v \in Viewers : subscribed'[v] =>
       subscribed[v] /\ (tailing[v] = b => Len(tailChan[v]) < Buffer)

\* The types of what one more line changes, and what it means for the file.
LEMMA LineStored ==
  ASSUME LogTyped, StoredAll, NEW b \in Logs, OneMoreLine(b)
  PROVE  /\ emitted' \in [Logs -> 0..MaxLines] /\ stored' \in [Logs -> 0..MaxLines]
         /\ writeErr' \in [Logs -> BOOLEAN] /\ StoredAll'
         /\ emitted'[b] = emitted[b] + 1 /\ \A c \in Logs \ {b} : emitted'[c] = emitted[c]
         /\ \A c \in Logs : writeErr[c] => writeErr'[c]
<1> USE LogAssumption
<1>1. /\ emitted \in [Logs -> 0..MaxLines] /\ stored \in [Logs -> 0..MaxLines]
      /\ writeErr \in [Logs -> BOOLEAN] /\ emitted[b] \in 0..MaxLines
  BY DEF LogTyped, LogTypeOK
<1>2. emitted[b] + 1 \in 0..MaxLines
  BY <1>1 DEF OneMoreLine
<1>3. /\ emitted' \in [Logs -> 0..MaxLines] /\ emitted'[b] = emitted[b] + 1
      /\ \A c \in Logs \ {b} : emitted'[c] = emitted[c]
  BY <1>1, <1>2 DEF OneMoreLine
<1>4. CASE ~writeErr[b] /\ stored' = [stored EXCEPT ![b] = emitted[b] + 1] /\ UNCHANGED writeErr
  BY <1>1, <1>2, <1>3, <1>4 DEF StoredAll
<1>5. CASE writeErr' = [writeErr EXCEPT ![b] = TRUE] /\ UNCHANGED stored
  BY <1>1, <1>3, <1>5 DEF StoredAll
<1>6. QED BY <1>3, <1>4, <1>5 DEF OneMoreLine

\* What it means for the tails.
LEMMA LineGiven ==
  ASSUME LogTyped, StoredAll, ViewersOK, NEW b \in Logs, OneMoreLine(b),
         UNCHANGED <<vpos, tailing, sent, onDisk>>, \A c \in Logs : Begun(c) => Begun(c)'
  PROVE  /\ tailChan' \in [Viewers -> Seq(1..MaxLines)]
         /\ \A v \in Viewers : tailChan'[v] \in Seq(1..MaxLines) /\ Len(tailChan'[v]) <= Buffer
         /\ ViewersOK'
<1> USE LogAssumption
<1> DEFINE n == emitted[b] + 1
<1>1. /\ emitted[b] \in 0..MaxLines /\ n \in 1..MaxLines /\ n # 0
      /\ tailChan \in [Viewers -> Seq(1..MaxLines)] /\ sent \in [Viewers -> 0..MaxLines]
      /\ \A v \in Viewers : Len(tailChan[v]) \in Nat /\ Len(tailChan[v]) <= Buffer
  BY LenProperties DEF LogTyped, LogTypeOK, OneMoreLine
<1>2. SUFFICES ASSUME NEW v \in Viewers
               PROVE  /\ tailChan'[v] \in Seq(1..MaxLines) /\ Len(tailChan'[v]) <= Buffer
                      /\ Placed(v)' /\ ShownWhole(v)'
  <2>1. DOMAIN tailChan' = Viewers /\ tailChan' = [v \in Viewers |-> tailChan'[v]]
    BY DEF OneMoreLine
  <2>2. QED BY <2>1 DEF ViewersOK
<1>3. Placed(v) /\ ShownWhole(v) /\ tailChan[v] \in Seq(1..MaxLines) /\ sent[v] \in 0..MaxLines
  BY <1>1 DEF ViewersOK
<1>4. vpos'[v] = vpos[v] /\ tailing'[v] = tailing[v] /\ sent'[v] = sent[v] /\ onDisk' = onDisk
  OBVIOUS
<1>5. CASE subscribed[v] /\ tailing[v] = b /\ Len(tailChan[v]) < Buffer
  <2>1. tailChan'[v] = Append(tailChan[v], n) /\ vpos[v] = "tail"
    BY <1>3, <1>5 DEF OneMoreLine, Placed
  <2>2. CASE writeErr'[b]
    <3>1. Len(tailChan'[v]) = Len(tailChan[v]) + 1 /\ tailChan'[v] \in Seq(1..MaxLines)
      BY <1>1, <1>3, <2>1, AppendProperties
    <3>2. QED BY <1>1, <1>3, <1>4, <1>5, <2>1, <2>2, <3>1 DEF Placed, ShownWhole
  <2>3. CASE ~writeErr'[b]
    <3>1. ~writeErr[b]
      BY <2>3, LineStored
    <3>2. Gapless(tailChan[v], sent[v]) /\ LastGiven(tailChan[v], sent[v]) \in {0, n - 1}
      BY <1>1, <1>5, <2>1, <3>1, <1>3 DEF ShownWhole, Shows
    <3>3. /\ tailChan'[v] \in Seq(1..MaxLines) /\ Len(tailChan'[v]) = Len(tailChan[v]) + 1
          /\ Gapless(tailChan'[v], sent[v]) /\ LastGiven(tailChan'[v], sent[v]) = n
      BY <1>1, <1>3, <2>1, <3>2, PassOn
    <3>4. emitted'[b] = n
      BY LineStored
    <3>5. ShownWhole(v)'
      BY <1>1, <1>4, <1>5, <3>3, <3>4 DEF ShownWhole, Shows
    <3>6. Placed(v)'
      BY <1>3, <1>4, <1>5, <2>1 DEF Placed
    <3>7. QED BY <1>1, <1>5, <3>3, <3>5, <3>6
  <2>4. QED BY <2>2, <2>3
<1>6. CASE ~(subscribed[v] /\ tailing[v] = b /\ Len(tailChan[v]) < Buffer)
  <2>1. tailChan'[v] = tailChan[v]
    BY <1>6 DEF OneMoreLine
  <2>2. subscribed'[v] => subscribed[v] /\ tailing[v] # b
    BY <1>6 DEF OneMoreLine
  <2>3. Placed(v)'
    BY <1>3, <1>4, <2>1, <2>2 DEF Placed, Begun
  <2>4. ShownWhole(v)'
    <3> SUFFICES ASSUME vpos[v] = "tail", ~writeErr'[tailing[v]]
                 PROVE  Shows(tailChan[v], sent[v], subscribed'[v], emitted'[tailing[v]], onDisk[tailing[v]])
      BY <1>4, <2>1 DEF ShownWhole
    <3>1. tailing[v] \in Logs
      BY <1>3 DEF Placed, Begun
    <3>2. ~writeErr[tailing[v]]
      BY <3>1, LineStored
    <3>3. Shows(tailChan[v], sent[v], subscribed[v], emitted[tailing[v]], onDisk[tailing[v]])
      BY <1>3, <3>2 DEF ShownWhole
    <3>4. subscribed'[v] => emitted'[tailing[v]] = emitted[tailing[v]]
      BY <2>2, <3>1, LineStored
    <3>5. QED BY <2>2, <3>3, <3>4 DEF Shows
  <2>5. QED BY <1>1, <1>3, <2>1, <2>3, <2>4
<1>7. QED BY <1>5, <1>6

\* A whole line is one more line.
LEMMA WritingIsOneMore ==
  ASSUME LogTyped, NEW b \in Logs, WriteLine(b)
  PROVE  OneMoreLine(b)
<1>1. /\ \A v \in Viewers : Len(tailChan[v]) \in Nat /\ Len(tailChan[v]) <= Buffer
      /\ Buffer \in Nat /\ subscribed \in [Viewers -> BOOLEAN]
  BY LogAssumption, LenProperties DEF LogTyped, LogTypeOK
<1>2. \A v \in Viewers : Len(tailChan[v]) # Buffer <=> Len(tailChan[v]) < Buffer
  BY <1>1
<1>3. /\ emitted[b] < MaxLines /\ emitted' = [emitted EXCEPT ![b] = @ + 1]
      /\ Emit(b, emitted[b] + 1)
  BY DEF WriteLine
<1>4. tailChan' = [v \in Viewers |->
         IF subscribed[v] /\ tailing[v] = b /\ Len(tailChan[v]) < Buffer
         THEN Append(tailChan[v], emitted[b] + 1) ELSE tailChan[v]]
  BY <1>2, <1>3 DEF Emit
<1>5. subscribed' \in [Viewers -> BOOLEAN]
  BY <1>1, <1>3 DEF Emit
<1>6. \A v \in Viewers : subscribed'[v] =>
         subscribed[v] /\ (tailing[v] = b => Len(tailChan[v]) < Buffer)
  BY <1>2, <1>3 DEF Emit
<1>7. \/ ~writeErr[b] /\ stored' = [stored EXCEPT ![b] = emitted[b] + 1] /\ UNCHANGED writeErr
      \/ writeErr' = [writeErr EXCEPT ![b] = TRUE] /\ UNCHANGED stored
  BY <1>3 DEF Emit
<1>8. QED BY <1>3, <1>4, <1>5, <1>6, <1>7 DEF OneMoreLine

\* So is the held-back one that a close writes.
LEMMA ClosingIsOneMore ==
  ASSUME LogTyped, HeldFits, NEW b \in Logs, CloseWriter(b), heldBack[b]
  PROVE  OneMoreLine(b)
<1>1. /\ emitted[b] < MaxLines /\ emitted' = [emitted EXCEPT ![b] = @ + 1]
      /\ tailChan' = [v \in Viewers |->
           IF subscribed[v] /\ tailing[v] = b /\ Len(tailChan[v]) < Buffer
           THEN Append(tailChan[v], emitted[b] + 1) ELSE tailChan[v]]
  BY DEF CloseWriter, HeldFits
<1>2. subscribed' \in [Viewers -> BOOLEAN] /\ \A v \in Viewers : subscribed'[v] => subscribed[v] /\ tailing[v] # b
  BY DEF CloseWriter, LogTyped, LogTypeOK
<1>3. \/ ~writeErr[b] /\ stored' = [stored EXCEPT ![b] = emitted[b] + 1] /\ UNCHANGED writeErr
      \/ writeErr' = [writeErr EXCEPT ![b] = TRUE] /\ UNCHANGED stored
  BY DEF CloseWriter
<1>4. QED BY <1>1, <1>2, <1>3 DEF OneMoreLine

\* A viewer is where it was when nothing of its tail or its build changes, but for builds
\* that begin, tails that are no longer registered and files that go.
LEMMA ViewersStay ==
  ASSUME ViewersOK, UNCHANGED <<vpos, tailing, tailChan, sent, emitted, writeErr>>,
         \A c \in Logs : Begun(c) => Begun(c)' /\ (onDisk'[c] => onDisk[c]),
         \A v \in Viewers : subscribed'[v] => subscribed[v]
  PROVE  ViewersOK'
<1> SUFFICES ASSUME NEW v \in Viewers PROVE Placed(v)' /\ ShownWhole(v)'
  BY DEF ViewersOK
<1>1. Placed(v) /\ ShownWhole(v)
  BY DEF ViewersOK
<1>2. Placed(v)'
  BY <1>1 DEF Placed, Begun
<1>3. vpos[v] = "tail" /\ onDisk'[tailing[v]] => onDisk[tailing[v]]
  BY <1>1 DEF Placed, Begun
<1>4. ShownWhole(v)'
  BY <1>1, <1>3 DEF ShownWhole, Shows
<1>5. QED BY <1>2, <1>4

\* A writer that is closed, by CloseLog or RemoveLogs, is flushed.
LEMMA Closing ==
  ASSUME LogInv, NEW b \in Logs, CloseWriter(b), Begun(b), wpos' = [wpos EXCEPT ![b] = "closed"],
         liveLog' \in {liveLog, 0}, UNCHANGED <<onDisk, ageing, vpos, tailing, sent>>,
         spos' \in {"idle", "judged", "checked", "removing"}
  PROVE  LogInv'
<1> USE LogAssumption DEF LogInv
<1>1. /\ wpos' \in [Logs -> {"none", "created", "open", "left", "ended", "closed"}]
      /\ \A c \in Logs : Begun(c) => Begun(c)'
      /\ \A c \in Logs \ {b} : wpos'[c] = wpos[c]
  BY DEF LogTyped, LogTypeOK, Begun
<1>2. heldBack' \in [Logs -> BOOLEAN] /\ ~heldBack'[b] /\ \A c \in Logs \ {b} : heldBack'[c] = heldBack[c]
  BY DEF CloseWriter, LogTyped, LogTypeOK
<1>3. subscribed' \in [Viewers -> BOOLEAN] /\ \A v \in Viewers : subscribed'[v] => subscribed[v]
  BY DEF CloseWriter, LogTyped, LogTypeOK
<1>4. /\ emitted' \in [Logs -> 0..MaxLines] /\ stored' \in [Logs -> 0..MaxLines]
      /\ writeErr' \in [Logs -> BOOLEAN] /\ StoredAll' /\ \A c \in Logs \ {b} : emitted'[c] = emitted[c]
      /\ tailChan' \in [Viewers -> Seq(1..MaxLines)]
      /\ \A v \in Viewers : tailChan'[v] \in Seq(1..MaxLines) /\ Len(tailChan'[v]) <= Buffer
      /\ ViewersOK'
  <2>1. CASE heldBack[b]
    <3>1. OneMoreLine(b)
      BY <2>1, ClosingIsOneMore DEF FilesOK
    <3>2. QED BY <1>1, <3>1, LineStored, LineGiven DEF FilesOK
  <2>2. CASE ~heldBack[b]
    <3>1. UNCHANGED <<emitted, stored, writeErr, tailChan>>
      BY <2>2 DEF CloseWriter
    <3>2. StoredAll'
      BY <3>1 DEF FilesOK, StoredAll
    <3>3. ViewersOK'
      BY <1>1, <1>3, <3>1, ViewersStay
    <3>4. QED BY <3>1, <3>2, <3>3 DEF LogTyped, LogTypeOK
  <2>3. QED BY <2>1, <2>2
<1>5. LiveBegun' /\ liveLog' \in 0..MaxLogs
  <2>1. liveLog \in 0..MaxLogs /\ (liveLog = 0 \/ Begun(liveLog))
    BY DEF FilesOK, LiveBegun, LogTyped, LogTypeOK
  <2>2. QED BY <1>1, <2>1 DEF LiveBegun, Begun
<1>6. HeldFits'
  BY <1>2, <1>4 DEF FilesOK, HeldFits
<1>7. ClosedFlushed'
  BY <1>1, <1>2 DEF FilesOK, ClosedFlushed
<1>8. LogTyped'
  <2>1. /\ onDisk' \in [Logs -> BOOLEAN] /\ ageing' \in BOOLEAN
        /\ vpos' \in [Viewers -> {"away", "history", "await", "attach", "tail", "over"}]
        /\ tailing' \in [Viewers -> 0..MaxLogs] /\ sent' \in [Viewers -> 0..MaxLines]
    BY DEF LogTyped, LogTypeOK
  <2>2. QED BY <1>1, <1>2, <1>3, <1>4, <1>5, <2>1 DEF LogTyped, LogTypeOK
<1>9. QED BY <1>4, <1>5, <1>6, <1>7, <1>8 DEF FilesOK

-----------------------------------------------------------------------------
(* Every action keeps it. *)

\* The invariant holds at the start.
LEMMA LogBeginning == LogInit => LogInv
<1> SUFFICES ASSUME LogInit PROVE LogInv
  OBVIOUS
<1> USE LogAssumption
<1>1. LogTyped
  <2>1. <<>> \in Seq(1..MaxLines) /\ Len(<<>>) = 0
    BY EmptySeq
  <2>2. tailChan = [v \in Viewers |-> <<>>] /\ 0 \in 0..MaxLines /\ 0 \in 0..MaxLogs
    BY DEF LogInit
  <2>3. /\ tailChan \in [Viewers -> Seq(1..MaxLines)]
        /\ \A v \in Viewers : tailChan[v] \in Seq(1..MaxLines) /\ Len(tailChan[v]) <= Buffer
    BY <2>1, <2>2
  <2>4. /\ wpos \in [Logs -> {"none", "created", "open", "left", "ended", "closed"}]
        /\ emitted \in [Logs -> 0..MaxLines] /\ heldBack \in [Logs -> BOOLEAN]
        /\ stored \in [Logs -> 0..MaxLines] /\ writeErr \in [Logs -> BOOLEAN]
        /\ onDisk \in [Logs -> BOOLEAN]
    BY <2>2 DEF LogInit
  <2>5. /\ vpos \in [Viewers -> {"away", "history", "await", "attach", "tail", "over"}]
        /\ tailing \in [Viewers -> 0..MaxLogs]
        /\ subscribed \in [Viewers -> BOOLEAN] /\ sent \in [Viewers -> 0..MaxLines]
    BY <2>2 DEF LogInit
  <2>6. liveLog = 0 /\ ageing = FALSE /\ spos = "idle"
    BY DEF LogInit
  <2>7. QED BY <2>2, <2>3, <2>4, <2>5, <2>6 DEF LogTyped, LogTypeOK
<1>2. FilesOK
  BY DEF LogInit, FilesOK, LiveBegun, HeldFits, StoredAll, ClosedFlushed
<1>3. ViewersOK
  BY DEF LogInit, ViewersOK, Placed, ShownWhole
<1>4. QED BY <1>1, <1>2, <1>3 DEF LogInv

\* A step of a build other than a close.
LEMMA BuildKeeps ==
  ASSUME LogInv, NEW b \in Logs,
         WriteLine(b) \/ WriteHalf(b) \/ BeginLog(b) \/ RegisterLog(b) \/ Leave(b) \/ FinishLog(b)
  PROVE  LogInv'
<1> USE LogAssumption DEF LogInv
<1>1. CASE WriteLine(b)
  <2>1. OneMoreLine(b) /\ UNCHANGED <<wpos, liveLog, onDisk, ageing, vpos, tailing, sent, spos>>
    BY <1>1, WritingIsOneMore DEF WriteLine
  <2>2. /\ emitted' \in [Logs -> 0..MaxLines] /\ stored' \in [Logs -> 0..MaxLines]
        /\ writeErr' \in [Logs -> BOOLEAN] /\ StoredAll' /\ \A c \in Logs \ {b} : emitted'[c] = emitted[c]
    BY <2>1, LineStored DEF FilesOK
  <2>3. /\ tailChan' \in [Viewers -> Seq(1..MaxLines)]
        /\ \A v \in Viewers : tailChan'[v] \in Seq(1..MaxLines) /\ Len(tailChan'[v]) <= Buffer
        /\ ViewersOK'
    BY <2>1, LineGiven DEF FilesOK, Begun
  <2>4. heldBack' \in [Logs -> BOOLEAN] /\ ~heldBack'[b] /\ \A c \in Logs \ {b} : heldBack'[c] = heldBack[c]
    BY <1>1 DEF WriteLine, LogTyped, LogTypeOK
  <2>5. subscribed' \in [Viewers -> BOOLEAN]
    BY <2>1 DEF OneMoreLine
  <2>6. LogTyped'
    BY <2>1, <2>2, <2>3, <2>4, <2>5 DEF LogTyped, LogTypeOK
  <2>7. LiveBegun' /\ HeldFits' /\ ClosedFlushed'
    BY <2>1, <2>2, <2>4 DEF FilesOK, LiveBegun, HeldFits, ClosedFlushed, Begun
  <2>8. QED BY <2>2, <2>3, <2>6, <2>7 DEF FilesOK
<1>2. CASE WriteHalf(b)
  <2>1. /\ heldBack' \in [Logs -> BOOLEAN] /\ wpos[b] = "open" /\ emitted[b] < MaxLines
        /\ \A c \in Logs \ {b} : heldBack'[c] = heldBack[c]
        /\ UNCHANGED <<wpos, liveLog, emitted, stored, writeErr, onDisk, ageing, vpos, tailing,
                       tailChan, subscribed, sent, spos>>
    BY <1>2 DEF WriteHalf, viewVars, LogTyped, LogTypeOK
  <2>2. LogTyped'
    BY <2>1 DEF LogTyped, LogTypeOK
  <2>3. FilesOK'
    BY <2>1 DEF FilesOK, LiveBegun, HeldFits, StoredAll, ClosedFlushed, Begun
  <2>4. ViewersOK'
    BY <2>1, ViewersStay DEF Begun
  <2>5. QED BY <2>2, <2>3, <2>4
<1>3. CASE BeginLog(b)
  <2>1. /\ wpos' \in [Logs -> {"none", "created", "open", "left", "ended", "closed"}]
        /\ onDisk' \in [Logs -> BOOLEAN] /\ ageing' \in BOOLEAN
        /\ wpos[b] = "none" /\ wpos'[b] = "created"
        /\ \A c \in Logs \ {b} : wpos'[c] = wpos[c] /\ onDisk'[c] = onDisk[c]
        /\ UNCHANGED <<liveLog, emitted, heldBack, stored, writeErr, vpos, tailing, tailChan,
                       subscribed, sent, spos>>
    BY <1>3 DEF BeginLog, fileVars, viewVars, LogTyped, LogTypeOK
  <2>2. LogTyped'
    BY <2>1 DEF LogTyped, LogTypeOK
  <2>3. FilesOK'
    BY <2>1 DEF FilesOK, LiveBegun, HeldFits, StoredAll, ClosedFlushed, Begun
  <2>4. \A c \in Logs : Begun(c) => Begun(c)' /\ c # b
    BY <2>1 DEF Begun
  <2>5. ViewersOK'
    <3> SUFFICES ASSUME NEW v \in Viewers PROVE Placed(v)' /\ ShownWhole(v)'
      BY DEF ViewersOK
    <3>1. Placed(v) /\ ShownWhole(v)
      BY DEF ViewersOK
    <3>2. vpos[v] \in {"attach", "tail"} => Begun(tailing[v])' /\ tailing[v] \in Logs \ {b}
      BY <2>1, <2>4, <3>1 DEF Placed, Begun
    <3>3. Placed(v)'
      BY <2>1, <3>1, <3>2 DEF Placed
    <3>4. ShownWhole(v)'
      BY <2>1, <3>1, <3>2 DEF ShownWhole
    <3>5. QED BY <3>3, <3>4
  <2>6. QED BY <2>2, <2>3, <2>5
<1>4. CASE RegisterLog(b) \/ Leave(b) \/ FinishLog(b)
  <2>1. /\ liveLog' \in {liveLog, 0, b}
        /\ UNCHANGED <<emitted, heldBack, stored, writeErr, onDisk, ageing, vpos, tailing,
                       tailChan, subscribed, sent, spos>>
    BY <1>4 DEF RegisterLog, Leave, FinishLog, fileVars, viewVars
  <2>2. /\ wpos' \in [Logs -> {"none", "created", "open", "left", "ended", "closed"}]
        /\ wpos'[b] \in {"open", "left", "ended"}
    <3>1. wpos \in [Logs -> {"none", "created", "open", "left", "ended", "closed"}]
      BY DEF LogTyped, LogTypeOK
    <3>2. CASE RegisterLog(b)
      BY <3>1, <3>2 DEF RegisterLog
    <3>3. CASE Leave(b) \/ FinishLog(b)
      BY <3>1, <3>3 DEF Leave, FinishLog
    <3>4. QED BY <1>4, <3>2, <3>3
  <2>3. \A c \in Logs \ {b} : wpos'[c] = wpos[c] \/ wpos'[c] = "ended"
    BY <1>4 DEF RegisterLog, Leave, FinishLog, LogTyped, LogTypeOK
  <2>4. \A c \in Logs : (Begun(c) => Begun(c)') /\ (wpos'[c] = "closed" => wpos[c] = "closed")
    BY <2>2, <2>3 DEF Begun
  <2>5. LogTyped'
    BY <2>1, <2>2 DEF LogTyped, LogTypeOK, Logs
  <2>6. LiveBegun'
    <3>1. liveLog = 0 \/ (liveLog \in Logs /\ wpos'[liveLog] \notin {"none", "created"})
      BY <2>4 DEF Begun, FilesOK, LiveBegun
    <3>2. QED BY <2>1, <2>2, <3>1 DEF LiveBegun, Begun
  <2>7. HeldFits' /\ StoredAll' /\ ClosedFlushed'
    BY <2>1, <2>4 DEF FilesOK, HeldFits, StoredAll, ClosedFlushed
  <2>8. ViewersOK'
    BY <2>1, <2>4, ViewersStay
  <2>9. QED BY <2>5, <2>6, <2>7, <2>8 DEF FilesOK
<1>5. QED BY <1>1, <1>2, <1>3, <1>4

\* A step of Remove or Sweep, or time.
LEMMA StoreKeeps ==
  ASSUME LogInv, RemoveLogs \/ Age \/ SweepJudge \/ SweepRecheck \/ DeleteDir
  PROVE  LogInv'
<1> USE LogAssumption DEF LogInv
<1>1. CASE RemoveLogs /\ liveLog # 0
  <2>1. Begun(liveLog)
    BY <1>1 DEF FilesOK, LiveBegun
  <2>2. QED BY <1>1, <2>1, Closing DEF RemoveLogs, Begun
<1>2. CASE (RemoveLogs /\ liveLog = 0) \/ Age \/ SweepJudge \/ SweepRecheck \/ DeleteDir
  <2>1. UNCHANGED <<wpos, liveLog, emitted, heldBack, stored, writeErr, vpos, tailing, tailChan, subscribed, sent>>
    BY <1>2 DEF RemoveLogs, Age, SweepJudge, SweepRecheck, DeleteDir, fileVars, viewVars
  <2>2. /\ onDisk' \in [Logs -> BOOLEAN] /\ \A c \in Logs : onDisk'[c] => onDisk[c]
        /\ ageing' \in BOOLEAN /\ spos' \in {"idle", "judged", "checked", "removing"}
    BY <1>2 DEF RemoveLogs, Age, SweepJudge, SweepRecheck, DeleteDir, LogTyped, LogTypeOK
  <2>3. LogTyped'
    BY <2>1, <2>2 DEF LogTyped, LogTypeOK
  <2>4. FilesOK'
    BY <2>1 DEF FilesOK, LiveBegun, HeldFits, StoredAll, ClosedFlushed, Begun
  <2>5. ViewersOK'
    BY <2>1, <2>2, ViewersStay DEF Begun
  <2>6. QED BY <2>3, <2>4, <2>5
<1>3. QED BY <1>1, <1>2

\* A step of one viewer leaves the others and the builds alone.
LEMMA ViewerStep ==
  ASSUME LogInv, NEW v \in Viewers,
         UNCHANGED <<wpos, liveLog, emitted, heldBack, stored, writeErr, onDisk, ageing, spos>>,
         NEW p \in {"away", "history", "await", "attach", "tail", "over"}, vpos' = [vpos EXCEPT ![v] = p],
         NEW b \in 0..MaxLogs, tailing' = [tailing EXCEPT ![v] = b],
         NEW c \in Seq(1..MaxLines), tailChan' = [tailChan EXCEPT ![v] = c], Len(c) <= Buffer,
         NEW r \in BOOLEAN, subscribed' = [subscribed EXCEPT ![v] = r],
         NEW s \in 0..MaxLines, sent' = [sent EXCEPT ![v] = s],
         p \in {"attach", "tail"} => Begun(b),
         r => p = "tail",
         p \notin {"tail", "over"} => s = 0 /\ c = <<>>,
         p = "tail" /\ ~writeErr[b] => Shows(c, s, r, emitted[b], onDisk[b])
  PROVE  LogInv'
<1> USE DEF LogInv
<1>1. /\ vpos' \in [Viewers -> {"away", "history", "await", "attach", "tail", "over"}]
      /\ tailing' \in [Viewers -> 0..MaxLogs] /\ subscribed' \in [Viewers -> BOOLEAN]
      /\ sent' \in [Viewers -> 0..MaxLines]
  BY DEF LogTyped, LogTypeOK
<1>2. /\ tailChan' \in [Viewers -> Seq(1..MaxLines)]
      /\ \A w \in Viewers : tailChan'[w] \in Seq(1..MaxLines) /\ Len(tailChan'[w]) <= Buffer
  BY DEF LogTyped, LogTypeOK
<1>3. /\ vpos'[v] = p /\ tailing'[v] = b /\ tailChan'[v] = c /\ subscribed'[v] = r /\ sent'[v] = s
      /\ \A w \in Viewers \ {v} : /\ vpos'[w] = vpos[w] /\ tailing'[w] = tailing[w]
                                  /\ tailChan'[w] = tailChan[w] /\ subscribed'[w] = subscribed[w]
                                  /\ sent'[w] = sent[w]
  BY DEF LogTyped, LogTypeOK
<1>4. LogTyped'
  BY <1>1, <1>2 DEF LogTyped, LogTypeOK
<1>5. FilesOK'
  BY DEF FilesOK, LiveBegun, HeldFits, StoredAll, ClosedFlushed, Begun
<1>6. ViewersOK'
  <2> SUFFICES ASSUME NEW w \in Viewers PROVE Placed(w)' /\ ShownWhole(w)'
    BY DEF ViewersOK
  <2>1. Placed(w) /\ ShownWhole(w)
    BY DEF ViewersOK
  <2>2. CASE w = v
    BY <1>3, <2>2 DEF Placed, ShownWhole, Begun
  <2>3. CASE w # v
    BY <1>3, <2>1, <2>3 DEF Placed, ShownWhole, Begun
  <2>4. QED BY <2>2, <2>3
<1>7. QED BY <1>4, <1>5, <1>6

\* What is left alone is set to what it was.
LEMMA SetToItself ==
  ASSUME NEW S, NEW f \in [Viewers -> S], NEW v \in Viewers
  PROVE  f = [f EXCEPT ![v] = f[v]]
OBVIOUS

\* The first line of a channel, and the rest.
LEMMA HeadAndTail ==
  ASSUME NEW c \in Seq(1..MaxLines), c # <<>>
  PROVE  Head(c) \in 1..MaxLines /\ Tail(c) \in Seq(1..MaxLines) /\ Len(Tail(c)) = Len(c) - 1 /\ Len(c) \in Nat
BY HeadTailProperties, LenProperties

\* A step of a viewer.
LEMMA ViewerKeeps ==
  ASSUME LogInv, NEW v \in Viewers,
         Watch(v) \/ Replayed(v) \/ AwaitLive(v) \/ Subscribe(v) \/ Receive(v) \/ Done(v) \/ Hangup(v)
  PROVE  LogInv'
<1> USE LogAssumption DEF LogInv
<1>1. /\ Placed(v) /\ ShownWhole(v)
      /\ tailing[v] \in 0..MaxLogs /\ subscribed[v] \in BOOLEAN /\ sent[v] \in 0..MaxLines
      /\ tailChan[v] \in Seq(1..MaxLines) /\ Len(tailChan[v]) <= Buffer
      /\ vpos[v] \in {"away", "history", "await", "attach", "tail", "over"}
  BY DEF LogTyped, LogTypeOK, ViewersOK
<1>2. /\ liveLog \in 0..MaxLogs /\ 0 \in 0..MaxLogs /\ 0 \in 0..MaxLines
      /\ liveLog # 0 => Begun(liveLog)
      /\ <<>> \in Seq(1..MaxLines) /\ Len(<<>>) <= Buffer
  BY EmptySeq DEF LogTyped, LogTypeOK, FilesOK, LiveBegun
<1>3. /\ tailing = [tailing EXCEPT ![v] = tailing[v]]
      /\ tailChan = [tailChan EXCEPT ![v] = tailChan[v]]
      /\ subscribed = [subscribed EXCEPT ![v] = subscribed[v]]
      /\ sent = [sent EXCEPT ![v] = sent[v]]
      /\ vpos = [vpos EXCEPT ![v] = vpos[v]]
  BY SetToItself DEF LogTyped, LogTypeOK
<1>4. UNCHANGED <<wpos, liveLog, emitted, heldBack, stored, writeErr, onDisk, ageing, spos>>
  BY DEF Watch, Replayed, AwaitLive, Subscribe, Receive, Done, Hangup, fileVars
<1>5. CASE Watch(v) \/ Replayed(v) \/ AwaitLive(v)
  <2>1. /\ vpos[v] \in {"away", "history", "await"} /\ UNCHANGED <<tailChan, subscribed, sent>>
        /\ \E p \in {"over", "await", "history", "attach"}, b \in {tailing[v], liveLog} :
             /\ vpos' = [vpos EXCEPT ![v] = p] /\ tailing' = [tailing EXCEPT ![v] = b]
             /\ p = "attach" => b # 0 /\ b = liveLog
    BY <1>3, <1>5 DEF Watch, Replayed, AwaitLive
  <2>2. ~subscribed[v] /\ sent[v] = 0 /\ tailChan[v] = <<>>
    BY <1>1, <2>1 DEF Placed
  <2>3. PICK p \in {"over", "await", "history", "attach"}, b \in {tailing[v], liveLog} :
             /\ vpos' = [vpos EXCEPT ![v] = p] /\ tailing' = [tailing EXCEPT ![v] = b]
             /\ p = "attach" => b # 0 /\ b = liveLog
    BY <2>1
  <2>4. /\ tailChan' = [tailChan EXCEPT ![v] = <<>>] /\ subscribed' = [subscribed EXCEPT ![v] = FALSE]
        /\ sent' = [sent EXCEPT ![v] = 0]
    BY <1>1, <1>3, <2>1, <2>2
  <2>5. b \in 0..MaxLogs /\ (p = "attach" => Begun(b)) /\ p # "tail"
    BY <1>1, <1>2, <2>3
  <2>6. QED BY <1>2, <1>4, <2>3, <2>4, <2>5, ViewerStep
<1>6. CASE Subscribe(v)
  <2> DEFINE b == tailing[v]
             c == TailOf(b)
             r == wpos[b] # "closed"
  <2>1. /\ vpos[v] = "attach" /\ vpos' = [vpos EXCEPT ![v] = "tail"]
        /\ tailChan' = [tailChan EXCEPT ![v] = c] /\ subscribed' = [subscribed EXCEPT ![v] = r]
        /\ UNCHANGED <<tailing, sent>>
    BY <1>6 DEF Subscribe
  <2>2. Begun(b) /\ sent[v] = 0
    BY <1>1, <2>1 DEF Placed
  <2>3. b \in Logs /\ stored[b] \in 0..MaxLines /\ (~writeErr[b] => stored[b] = emitted[b])
    BY <2>2 DEF Begun, LogTyped, LogTypeOK, FilesOK, StoredAll
  <2>4. /\ c \in Seq(1..MaxLines) /\ Len(c) <= Buffer /\ Consecutive(c)
        /\ c # <<>> => Last(c) = stored[b]
        /\ c = <<>> /\ onDisk[b] => stored[b] = 0
    BY <2>3, TailShape
  <2> HIDE DEF c
  <2>5. c # <<>> => Last(c) # 0
    BY <2>4, LenProperties, ElementOfSeq DEF Last
  <2>6. ~writeErr[b] => Shows(c, sent[v], r, emitted[b], onDisk[b])
    BY <2>2, <2>3, <2>4, <2>5 DEF Shows, Gapless, LastGiven
  <2>7. r \in BOOLEAN
    OBVIOUS
  <2> HIDE DEF b, r
  <2>8. tailing' = [tailing EXCEPT ![v] = b] /\ sent' = [sent EXCEPT ![v] = sent[v]] /\ b \in 0..MaxLogs
    BY <1>1, <1>3, <2>1 DEF b
  <2> DEFINE s == sent[v]
  <2>9. s \in 0..MaxLines /\ sent' = [sent EXCEPT ![v] = s]
    BY <1>1, <2>8
  <2>10. ~writeErr[b] => Shows(c, s, r, emitted[b], onDisk[b])
    BY <2>6
  <2> HIDE DEF s
  <2>11. vpos' = [vpos EXCEPT ![v] = "tail"] /\ Begun(b) /\ c \in Seq(1..MaxLines) /\ Len(c) <= Buffer
    BY <2>1, <2>2, <2>4
  <2>12. /\ tailing' = [tailing EXCEPT ![v] = b] /\ b \in 0..MaxLogs
         /\ tailChan' = [tailChan EXCEPT ![v] = c]
         /\ subscribed' = [subscribed EXCEPT ![v] = r] /\ r \in BOOLEAN
    BY <2>1, <2>7, <2>8
  <2>13. QED BY ONLY LogInv, v \in Viewers, <1>4, <2>9, <2>10, <2>11, <2>12, ViewerStep
<1>7. CASE Receive(v)
  <2> DEFINE c == tailChan[v]
  <2>1. /\ vpos[v] = "tail" /\ c # <<>>
        /\ sent' = [sent EXCEPT ![v] = Head(c)] /\ tailChan' = [tailChan EXCEPT ![v] = Tail(c)]
        /\ UNCHANGED <<vpos, tailing, subscribed>>
    BY <1>7 DEF Receive
  <2>2. /\ Head(c) \in 1..MaxLines /\ Tail(c) \in Seq(1..MaxLines) /\ Len(Tail(c)) <= Buffer
    <3>1. /\ Head(c) \in 1..MaxLines /\ Tail(c) \in Seq(1..MaxLines)
          /\ Len(Tail(c)) = Len(c) - 1 /\ Len(c) \in Nat
      BY <1>1, <2>1, HeadAndTail
    <3>2. QED BY <1>1, <3>1
  <2>3. ~writeErr[tailing[v]] => Shows(Tail(c), Head(c), subscribed[v], emitted[tailing[v]], onDisk[tailing[v]])
    <3> SUFFICES ASSUME ~writeErr[tailing[v]]
                 PROVE  Shows(Tail(c), Head(c), subscribed[v], emitted[tailing[v]], onDisk[tailing[v]])
      OBVIOUS
    <3>1. Shows(c, sent[v], subscribed[v], emitted[tailing[v]], onDisk[tailing[v]])
      BY <1>1, <2>1 DEF ShownWhole
    <3>2. Gapless(Tail(c), Head(c)) /\ LastGiven(Tail(c), Head(c)) = LastGiven(c, sent[v])
      BY <1>1, <2>1, <3>1, TakeOff DEF Shows
    <3>3. QED BY <3>1, <3>2 DEF Shows
  <2> DEFINE h == Head(c)
             t == Tail(c)
             b == tailing[v]
             r == subscribed[v]
  <2>4. /\ vpos' = [vpos EXCEPT ![v] = "tail"] /\ Begun(b)
        /\ tailing' = [tailing EXCEPT ![v] = b] /\ b \in 0..MaxLogs
    BY <1>1, <1>3, <2>1 DEF Placed
  <2>5. /\ tailChan' = [tailChan EXCEPT ![v] = t] /\ t \in Seq(1..MaxLines) /\ Len(t) <= Buffer
        /\ sent' = [sent EXCEPT ![v] = h] /\ h \in 0..MaxLines
        /\ subscribed' = [subscribed EXCEPT ![v] = r] /\ r \in BOOLEAN
    BY <1>1, <1>3, <2>1, <2>2
  <2>6. ~writeErr[b] => Shows(t, h, r, emitted[b], onDisk[b])
    BY <2>3
  <2> HIDE DEF c, h, t, b, r
  <2>7. QED BY ONLY LogInv, v \in Viewers, <1>4, <2>4, <2>5, <2>6, ViewerStep
<1>8. CASE Done(v)
  <2>1. /\ vpos' = [vpos EXCEPT ![v] = "over"] /\ ~subscribed[v]
        /\ UNCHANGED <<tailing, tailChan, subscribed, sent>>
    BY <1>8 DEF Done
  <2>2. /\ tailing' = [tailing EXCEPT ![v] = tailing[v]] /\ tailChan' = [tailChan EXCEPT ![v] = tailChan[v]]
        /\ subscribed' = [subscribed EXCEPT ![v] = FALSE] /\ sent' = [sent EXCEPT ![v] = sent[v]]
    BY <1>1, <1>3, <2>1
  <2> DEFINE b == tailing[v]
             c == tailChan[v]
             s == sent[v]
  <2>3. b \in 0..MaxLogs /\ c \in Seq(1..MaxLines) /\ Len(c) <= Buffer /\ s \in 0..MaxLines
    BY <1>1
  <2>4. /\ tailing' = [tailing EXCEPT ![v] = b] /\ tailChan' = [tailChan EXCEPT ![v] = c]
        /\ subscribed' = [subscribed EXCEPT ![v] = FALSE] /\ sent' = [sent EXCEPT ![v] = s]
    BY <2>2
  <2>5. vpos' = [vpos EXCEPT ![v] = "over"]
    BY <2>1
  <2> HIDE DEF b, c, s
  <2>6. QED BY ONLY LogInv, v \in Viewers, <1>4, <2>3, <2>4, <2>5, ViewerStep
<1>9. CASE Hangup(v)
  <2>1. /\ vpos' = [vpos EXCEPT ![v] = "away"] /\ tailing' = [tailing EXCEPT ![v] = 0]
        /\ tailChan' = [tailChan EXCEPT ![v] = <<>>] /\ subscribed' = [subscribed EXCEPT ![v] = FALSE]
        /\ sent' = [sent EXCEPT ![v] = 0]
    BY <1>9 DEF Hangup
  <2>2. QED BY <1>2, <1>4, <1>9, <2>1, ViewerStep
<1>10. QED BY <1>5, <1>6, <1>7, <1>8, <1>9

\* Every step keeps the invariant.
LEMMA LogSteps == LogInv /\ [LogNext]_logVars => LogInv'
<1> SUFFICES ASSUME LogInv, [LogNext]_logVars PROVE LogInv'
  OBVIOUS
<1>1. CASE UNCHANGED logVars
  BY <1>1 DEF logVars, fileVars, viewVars, LogInv, LogTyped, LogTypeOK, FilesOK, LiveBegun, HeldFits,
     StoredAll, ClosedFlushed, ViewersOK, Placed, ShownWhole, Begun
<1>2. CASE \E b \in Logs : CloseLog(b)
  <2>1. PICK b \in Logs : CloseLog(b)
    BY <1>2
  <2>2. /\ CloseWriter(b) /\ Begun(b) /\ wpos' = [wpos EXCEPT ![b] = "closed"]
        /\ UNCHANGED <<liveLog, onDisk, ageing, vpos, tailing, sent, spos>>
        /\ spos' \in {"idle", "judged", "checked", "removing"}
    BY <2>1 DEF CloseLog, Begun, LogInv, LogTyped, LogTypeOK
  <2>3. QED BY <2>2, Closing
<1>3. QED BY <1>1, <1>2, BuildKeeps, StoreKeeps, ViewerKeeps DEF LogNext

\* A tail misses nothing (TailHasNoGap), for any viewers, builds, lines and capacity: a
\* viewer that is too slow is cut off, and what it was given until then is in a row.
THEOREM TailWhole == LogSpec => []TailHasNoGap
<1>1. LogInv => TailHasNoGap
  <2> SUFFICES ASSUME LogInv, NEW v \in Viewers, vpos[v] = "tail", ~writeErr[tailing[v]]
               PROVE  LET b == tailing[v]
                          last == IF tailChan[v] = <<>> THEN sent[v] ELSE Last(tailChan[v]) IN
                      /\ \A i \in 2..Len(tailChan[v]) : tailChan[v][i] = tailChan[v][i - 1] + 1
                      /\ sent[v] # 0 /\ tailChan[v] # <<>> => Head(tailChan[v]) = sent[v] + 1
                      /\ subscribed[v] /\ last # 0 => last = emitted[b]
                      /\ subscribed[v] /\ last = 0 /\ onDisk[b] => emitted[b] = 0
    BY DEF TailHasNoGap
  <2>1. Shows(tailChan[v], sent[v], subscribed[v], emitted[tailing[v]], onDisk[tailing[v]])
    BY DEF LogInv, ViewersOK, ShownWhole
  <2>2. QED BY <2>1 DEF Shows, Gapless, Consecutive, LastGiven
<1>2. QED BY <1>1, LogBeginning, LogSteps, PTL DEF LogSpec

\* A closed log is whole (ClosedLogIsWhole), whoever closed it.
THEOREM ClosedWhole == LogSpec => []ClosedLogIsWhole
<1>1. LogInv => ClosedLogIsWhole
  BY DEF LogInv, FilesOK, StoredAll, ClosedFlushed, ClosedLogIsWhole
<1>2. QED BY <1>1, LogBeginning, LogSteps, PTL DEF LogSpec

-----------------------------------------------------------------------------
\* Both parts keep their variables within their types (StreamTypeOK), each by its own
\* invariant: a step of one is no step of the other.
THEOREM StreamTyped == StreamSpec => []StreamTypeOK
<1>1. StreamInit => LogInv /\ DashTypeOK
  BY LogBeginning, TypeInit DEF StreamInit
<1>2. LogInv /\ DashTypeOK /\ [StreamNext]_streamVars => (LogInv /\ DashTypeOK)'
  <2>1. [StreamNext]_streamVars => [LogNext]_logVars /\ [DashNext]_dashVars
    BY DEF StreamNext, streamVars
  <2>2. QED BY <2>1, LogSteps, TypeStep
<1>3. LogInv /\ DashTypeOK => StreamTypeOK
  BY DEF StreamTypeOK, LogInv, LogTyped
<1>4. QED BY <1>1, <1>2, <1>3, PTL DEF StreamSpec
=============================================================================
