---------------------------- MODULE PlatformProofs ----------------------------
(* What the daemon asks of GitHub and Bitbucket and hears from them, for any   *)
(* pull requests, commits and numbers of calls, faults and pages: the comment  *)
(* (Comment), one request after another (Platform), the deliveries and the     *)
(* scan at start-up (Intake).                                                  *)
EXTENDS Comment, Platform, Intake, FiniteSetTheorems, WellFoundedInduction, SequenceTheorems, TLAPS

-------------------------------------------------------------------------------
(* Comment: one comment per pull request, for any number of goroutines that    *)
(* call Publish for it one after the other.                                    *)

PostedEntries == [there : BOOLEAN, listed : BOOLEAN]

\* A call for the preview under way.
Busy(w) == wpc[w] # "idle"

\* One call at a time.
Solo ==
  /\ \A v, w \in Posters : Busy(v) /\ Busy(w) => v = w
  /\ \A w \in Posters : Busy(w) => rpc = "idle"

\* What each step of Publish knows about the comments that are there.
PublishHolds ==
  \A w \in Posters :
    /\ wpc[w] \in {"search", "post", "remember"} => known = 0
    /\ wpc[w] = "patch" => wid[w] = known /\ known # 0
    /\ wpc[w] = "post" => There = {}
    /\ wpc[w] = "remember" => There \subseteq {wid[w]}

\* And each step of Retract.
RetractHolds ==
  /\ rpc = "delete" => There \subseteq {rid}
  /\ rpc = "forget" => There = {}

\* The remembered comment is the only one, and one that nobody remembers, or is about to,
\* can be found.
Remembered ==
  /\ known # 0 => There \subseteq {known}
  /\ known = 0 /\ (\A w \in Posters : wpc[w] # "remember") => There \subseteq Listed

CommentInv == CommentTypeOK /\ OneComment /\ Solo /\ PublishHolds /\ RetractHolds /\ Remembered

-----------------------------------------------------------------------------
(* What the platform's actions do to the comments that are there. *)

\* A POST adds one comment, not yet listed.
LEMMA Appended ==
  ASSUME comments \in Seq(PostedEntries),
         comments' = Append(comments, [there |-> TRUE, listed |-> FALSE])
  PROVE  /\ comments' \in Seq(PostedEntries) /\ Len(comments') = Len(comments) + 1
         /\ There' = There \cup {Len(comments) + 1} /\ Listed' = Listed
<1> DEFINE e == [there |-> TRUE, listed |-> FALSE]
<1>1. e \in PostedEntries /\ e.there = TRUE /\ e.listed = FALSE
  BY DEF PostedEntries
<1> HIDE DEF e
<1>2. comments' = Append(comments, e)
  BY DEF e
<1>3. /\ comments' \in Seq(PostedEntries) /\ Len(comments') = Len(comments) + 1
      /\ \A i \in 1..Len(comments) : comments'[i] = comments[i]
      /\ comments'[Len(comments) + 1] = e
  BY <1>1, <1>2, AppendProperties
<1>4. Len(comments) \in Nat /\ DOMAIN comments = 1..Len(comments) /\ DOMAIN comments' = 1..(Len(comments) + 1)
  BY <1>3, LenProperties
<1>5. There' = There \cup {Len(comments) + 1}
  BY <1>1, <1>3, <1>4 DEF There
<1>6. Listed' = Listed
  BY <1>1, <1>3, <1>4, <1>5 DEF Listed, There
<1>7. QED BY <1>3, <1>5, <1>6

\* A comment that is deleted is no longer there, and the others are.
LEMMA Dropped ==
  ASSUME comments \in Seq(PostedEntries), NEW i \in DOMAIN comments,
         comments' = [comments EXCEPT ![i].there = FALSE]
  PROVE  /\ comments' \in Seq(PostedEntries) /\ Len(comments') = Len(comments)
         /\ There' = There \ {i} /\ Listed' = Listed \ {i}
<1> DEFINE e == [comments[i] EXCEPT !.there = FALSE]
<1>1. i \in 1..Len(comments) /\ DOMAIN comments = 1..Len(comments)
  BY LenProperties
<1>2. comments[i] \in PostedEntries
  BY <1>1, ElementOfSeq
<1>3. e \in PostedEntries /\ e.there = FALSE
  BY <1>2 DEF PostedEntries
<1>4. comments' = [comments EXCEPT ![i] = e]
  OBVIOUS
<1> HIDE DEF e
<1>5. /\ comments' \in Seq(PostedEntries) /\ Len(comments') = Len(comments)
      /\ \A j \in 1..Len(comments) : comments'[j] = IF j = i THEN e ELSE comments[j]
  <2>1. /\ [comments EXCEPT ![i] = e] \in Seq(PostedEntries) /\ Len([comments EXCEPT ![i] = e]) = Len(comments)
        /\ \A j \in 1..Len(comments) : [comments EXCEPT ![i] = e][j] = IF j = i THEN e ELSE comments[j]
    <3>1. e \in PostedEntries
      BY <1>3
    <3>2. QED BY ONLY <1>1, <3>1, comments \in Seq(PostedEntries), ExceptSeq
  <2>2. QED BY <1>4, <2>1
<1>6. DOMAIN comments' = DOMAIN comments
  BY <1>1, <1>5, LenProperties
<1>7. There' = There \ {i}
  BY <1>1, <1>3, <1>5, <1>6 DEF There
<1>8. Listed' = Listed \ {i}
  BY <1>1, <1>3, <1>5, <1>6, <1>7 DEF Listed, There
<1>9. QED BY <1>5, <1>7, <1>8

\* The listing catching up removes nothing.
LEMMA CaughtUp ==
  ASSUME comments \in Seq(PostedEntries), NEW i \in DOMAIN comments,
         comments' = [comments EXCEPT ![i].listed = TRUE]
  PROVE  /\ comments' \in Seq(PostedEntries) /\ Len(comments') = Len(comments)
         /\ There' = There /\ Listed \subseteq Listed'
<1> DEFINE e == [comments[i] EXCEPT !.listed = TRUE]
<1>1. i \in 1..Len(comments) /\ DOMAIN comments = 1..Len(comments)
  BY LenProperties
<1>2. comments[i] \in PostedEntries
  BY <1>1, ElementOfSeq
<1>3. e \in PostedEntries /\ e.there = comments[i].there /\ e.listed = TRUE
  BY <1>2 DEF PostedEntries
<1>4. comments' = [comments EXCEPT ![i] = e]
  OBVIOUS
<1> HIDE DEF e
<1>5. /\ comments' \in Seq(PostedEntries) /\ Len(comments') = Len(comments)
      /\ \A j \in 1..Len(comments) : comments'[j] = IF j = i THEN e ELSE comments[j]
  <2>1. /\ [comments EXCEPT ![i] = e] \in Seq(PostedEntries) /\ Len([comments EXCEPT ![i] = e]) = Len(comments)
        /\ \A j \in 1..Len(comments) : [comments EXCEPT ![i] = e][j] = IF j = i THEN e ELSE comments[j]
    <3>1. e \in PostedEntries
      BY <1>3
    <3>2. QED BY ONLY <1>1, <3>1, comments \in Seq(PostedEntries), ExceptSeq
  <2>2. QED BY <1>4, <2>1
<1>6. DOMAIN comments' = DOMAIN comments
  BY <1>1, <1>5, LenProperties
<1>7. There' = There
  BY <1>1, <1>3, <1>5, <1>6 DEF There
<1>8. Listed \subseteq Listed'
  BY <1>1, <1>3, <1>5, <1>6, <1>7 DEF Listed, There
<1>9. QED BY <1>5, <1>7, <1>8

\* Comments that are there were posted, so their ids are not 0.
LEMMA PostedIds ==
  ASSUME comments \in Seq(PostedEntries)
  PROVE  There \subseteq 1..Len(comments) /\ Len(comments) \in Nat /\ Listed \subseteq There
         /\ DOMAIN comments = 1..Len(comments)
BY LenProperties DEF There, Listed

-----------------------------------------------------------------------------
\* Nothing is posted and nobody calls at the start.
LEMMA CommentInvInit == CommentInit => CommentInv
<1> SUFFICES ASSUME CommentInit PROVE CommentInv
  OBVIOUS
<1>1. comments \in Seq(PostedEntries) /\ Len(comments) = 0 /\ There = {}
  BY EmptySeq DEF CommentInit, There
<1>2. CommentTypeOK
  BY <1>1 DEF CommentInit, CommentTypeOK, PostedEntries
<1>3. OneComment /\ Solo /\ PublishHolds /\ RetractHolds /\ Remembered
  BY <1>1 DEF CommentInit, OneComment, Solo, Busy, PublishHolds, RetractHolds, Remembered
<1>4. QED BY <1>2, <1>3 DEF CommentInv

\* A step of Publish, taken while nobody else calls: it suffices that the step leaves its
\* own caller and the map in order.
LEMMA PublishingStep ==
  ASSUME CommentInv, NEW w \in Posters, Busy(w) \/ NobodyCalls,
         NEW pc \in {"idle", "search", "patch", "post", "remember"}, NEW id \in 0..Len(comments'),
         To(w, pc, id), UNCHANGED <<rpc, rid>>,
         comments' \in Seq(PostedEntries), Len(comments) <= Len(comments'), known' \in 0..Len(comments'),
         OneComment',
         pc \in {"search", "post", "remember"} => known' = 0,
         pc = "patch" => id = known' /\ known' # 0,
         pc = "post" => There' = {},
         pc = "remember" => There' \subseteq {id},
         known' # 0 => There' \subseteq {known'},
         known' = 0 /\ pc # "remember" => There' \subseteq Listed'
  PROVE  CommentInv'
<1>1. rpc = "idle" /\ \A v \in Posters : v # w => wpc[v] = "idle"
  BY DEF CommentInv, Solo, Busy, NobodyCalls
<1>2. /\ wpc \in [Posters -> {"idle", "search", "patch", "post", "remember"}]
      /\ wid \in [Posters -> 0..Len(comments)] /\ rid \in 0..Len(comments)
      /\ Len(comments) \in Nat /\ Len(comments') \in Nat
  BY LenProperties DEF CommentInv, CommentTypeOK, PostedEntries
<1>3. wpc' = [wpc EXCEPT ![w] = pc] /\ wid' = [wid EXCEPT ![w] = id] /\ rpc' = "idle" /\ rid' = rid
  BY <1>1 DEF To
<1>4. /\ wpc' \in [Posters -> {"idle", "search", "patch", "post", "remember"}]
      /\ wid' \in [Posters -> 0..Len(comments')] /\ rid' \in 0..Len(comments')
  BY <1>2, <1>3
<1>5. wpc'[w] = pc /\ wid'[w] = id /\ \A v \in Posters : v # w => wpc'[v] = "idle"
  BY <1>1, <1>2, <1>3
<1>6. CommentTypeOK'
  BY <1>3, <1>4, <1>5 DEF CommentTypeOK, PostedEntries
<1>7. Solo'
  BY <1>3, <1>5 DEF Solo, Busy
<1>8. PublishHolds'
  BY <1>5 DEF PublishHolds
<1>9. RetractHolds'
  BY <1>3 DEF RetractHolds
<1>10. Remembered'
  BY <1>5 DEF Remembered
<1>11. QED BY <1>6, <1>7, <1>8, <1>9, <1>10 DEF CommentInv

\* Each step of Publish: a search finds the comment or there is none, an edit keeps it, and a
\* POST is only reached with nothing there.
LEMMA PublishCallKeeps ==
  ASSUME CommentInv, ~Overlap, NEW w \in Posters,
         Publish(w) \/ Search(w) \/ Patch(w) \/ Post(w) \/ Remember(w) \/ Refused(w)
  PROVE  CommentInv'
<1>1. /\ comments \in Seq(PostedEntries) /\ There \subseteq 1..Len(comments) /\ Len(comments) \in Nat
      /\ Listed \subseteq There
  BY PostedIds DEF CommentInv, CommentTypeOK, PostedEntries
<1>2. ASSUME UNCHANGED comments
      PROVE  /\ comments' \in Seq(PostedEntries) /\ Len(comments') = Len(comments) /\ Len(comments) <= Len(comments')
             /\ There' = There /\ Listed' = Listed /\ OneComment' /\ 0 \in 0..Len(comments')
  <2>1. There' = There /\ Listed' = Listed
    BY <1>2 DEF There, Listed
  <2>2. OneComment'
    BY <2>1 DEF CommentInv, OneComment
  <2>3. QED BY <1>1, <1>2, <2>1, <2>2
<1>3. known \in 0..Len(comments) /\ wid[w] \in 0..Len(comments)
  BY DEF CommentInv, CommentTypeOK
<1>4. known # 0 => There \subseteq {known}
  BY DEF CommentInv, Remembered
<1>5. ASSUME Busy(w) \/ NobodyCalls, wpc[w] # "remember", known = 0 PROVE There \subseteq Listed
  BY <1>5 DEF CommentInv, Solo, Busy, NobodyCalls, Remembered
<1>6. CASE Publish(w)
  <2>1. NobodyCalls /\ wpc[w] # "remember" /\ UNCHANGED <<comments, known, rpc, rid>>
    BY <1>6 DEF Publish
  <2>2. PICK pc \in {"search", "patch"} : To(w, pc, known) /\ (pc = "search" <=> known = 0)
    BY <1>6 DEF Publish
  <2>3. /\ known \in 0..Len(comments') /\ known' \in 0..Len(comments')
        /\ known' # 0 => There' \subseteq {known'}
        /\ known' = 0 => There' \subseteq Listed'
    BY <1>2, <1>3, <1>4, <1>5, <2>1
  <2>4. pc = "patch" => known # 0
    BY <2>2
  <2>5. QED BY <1>2, <2>1, <2>2, <2>3, <2>4, PublishingStep
<1>7. CASE Search(w)
  <2>1. Busy(w) /\ wpc[w] = "search" /\ UNCHANGED <<comments, rpc, rid>>
    BY <1>7 DEF Search, Busy
  <2>2. known = 0
    BY <2>1 DEF CommentInv, PublishHolds
  <2>3. CASE \E i \in There : known' = i /\ To(w, "patch", i)
    <3>1. PICK i \in There : known' = i /\ To(w, "patch", i)
      BY <2>3
    <3>2. There' \subseteq {i} /\ i \in 0..Len(comments') /\ i # 0
      <4>1. There \subseteq {i}
        BY <3>1 DEF CommentInv, OneComment
      <4>2. i \in 1..Len(comments) /\ Len(comments) \in Nat
        BY <1>1
      <4>3. There' = There /\ Len(comments') = Len(comments)
        BY <1>2, <2>1
      <4>4. QED BY <4>1, <4>2, <4>3
    <3>3. QED BY <1>2, <2>1, <3>1, <3>2, PublishingStep
  <2>4. CASE Listed = {} /\ To(w, "post", 0) /\ UNCHANGED known
    <3>1. There' = {}
      BY <1>2, <1>5, <2>1, <2>2, <2>4
    <3>2. known' = 0
      BY <2>2, <2>4
    <3>3. QED BY <1>2, <2>1, <2>4, <3>1, <3>2, PublishingStep
  <2>5. QED BY <1>7, <2>3, <2>4 DEF Search
<1>8. CASE Patch(w)
  <2>1. Busy(w) /\ UNCHANGED <<comments, rpc, rid>>
    BY <1>8 DEF Patch, Busy
  <2>2. wid[w] = known /\ known # 0
    BY <1>8 DEF Patch, CommentInv, PublishHolds
  <2>3. CASE wid[w] \in There
    <3>1. To(w, "idle", 0) /\ known' = known
      BY <1>8, <2>3 DEF Patch
    <3>2. known' # 0 /\ known' \in 0..Len(comments') /\ There' \subseteq {known'}
      BY <1>2, <1>3, <1>4, <2>1, <2>2, <3>1
    <3>3. QED BY <1>2, <2>1, <3>1, <3>2, PublishingStep
  <2>4. CASE wid[w] \notin There
    <3>1. To(w, "post", 0) /\ known' = 0
      BY <1>8, <2>4 DEF Patch
    <3>2. There' = {}
      BY <1>2, <1>4, <2>1, <2>2, <2>4
    <3>3. QED BY <1>2, <2>1, <3>1, <3>2, PublishingStep
  <2>5. QED BY <2>3, <2>4
<1>9. CASE Post(w)
  <2>1. Busy(w) /\ wpc[w] = "post" /\ UNCHANGED <<known, rpc, rid>> /\ To(w, "remember", Len(comments) + 1)
    BY <1>9 DEF Post, Busy
  <2>2. known = 0 /\ There = {}
    BY <2>1 DEF CommentInv, PublishHolds
  <2>3. /\ comments' \in Seq(PostedEntries) /\ Len(comments') = Len(comments) + 1
        /\ There' = There \cup {Len(comments) + 1}
    BY <1>1, <1>9, Appended DEF Post
  <2>4. There' = {Len(comments) + 1} /\ OneComment'
    BY <2>2, <2>3 DEF OneComment
  <2>5. /\ Len(comments) + 1 \in 0..Len(comments') /\ Len(comments) <= Len(comments')
        /\ known' \in 0..Len(comments') /\ known' = 0
    BY <1>1, <2>1, <2>2, <2>3
  <2>6. QED BY <2>1, <2>3, <2>4, <2>5, PublishingStep
<1>10. CASE Remember(w)
  <2>1. /\ Busy(w) /\ wpc[w] = "remember" /\ UNCHANGED <<comments, rpc, rid>>
        /\ known' = wid[w] /\ To(w, "idle", 0)
    BY <1>10 DEF Remember, Busy
  <2>2. There \subseteq {wid[w]}
    BY <2>1 DEF CommentInv, PublishHolds
  <2>3. There' \subseteq {known'} /\ known' \in 0..Len(comments')
    BY <1>2, <1>3, <2>1, <2>2
  <2>4. known' = 0 => There' \subseteq Listed'
    BY <1>1, <1>2, <2>1, <2>3
  <2>5. QED BY <1>2, <2>1, <2>3, <2>4, PublishingStep
<1>11. CASE Refused(w)
  <2>1. /\ Busy(w) /\ wpc[w] # "remember" /\ UNCHANGED <<comments, known, rpc, rid>>
        /\ To(w, "idle", 0)
    BY <1>11 DEF Refused, Busy
  <2>2. /\ known' \in 0..Len(comments')
        /\ known' # 0 => There' \subseteq {known'}
        /\ known' = 0 => There' \subseteq Listed'
    BY <1>2, <1>3, <1>4, <1>5, <2>1
  <2>3. QED BY <1>2, <2>1, <2>2, PublishingStep
<1>12. QED BY <1>6, <1>7, <1>8, <1>9, <1>10, <1>11

\* A step of Retract.
LEMMA RetractStep ==
  ASSUME CommentInv, ~Overlap, RetractComment \/ Delete \/ RetractRefused \/ Forget
  PROVE  CommentInv'
<1>1. /\ comments \in Seq(PostedEntries) /\ There \subseteq 1..Len(comments) /\ Len(comments) \in Nat
      /\ Listed \subseteq There /\ DOMAIN comments = 1..Len(comments)
  BY PostedIds DEF CommentInv, CommentTypeOK, PostedEntries
<1>2. ASSUME UNCHANGED comments PROVE There' = There /\ Listed' = Listed /\ (OneComment <=> OneComment')
  BY <1>2 DEF There, Listed, OneComment
<1>3. (\A w \in Posters : wpc[w] = "idle") /\ UNCHANGED <<wpc, wid>>
  BY DEF RetractComment, Delete, RetractRefused, Forget, NobodyCalls, CommentInv, Solo, Busy
<1>4. Solo' /\ PublishHolds'
  BY <1>3 DEF Solo, PublishHolds, Busy
<1>5. known = 0 => There \subseteq Listed
  BY <1>3 DEF CommentInv, Remembered
<1>6. CASE RetractComment
  <2>1. UNCHANGED <<comments, known>>
    BY <1>6 DEF RetractComment
  <2>2. CASE known # 0 /\ rpc' = "delete" /\ rid' = known
    BY <1>2, <1>3, <1>4, <2>1, <2>2
    DEF CommentInv, CommentTypeOK, Remembered, RetractHolds
  <2>3. CASE known = 0 /\ \E i \in There : rpc' = "delete" /\ rid' = i
    <3>1. rid' \in There /\ There \subseteq {rid'} /\ rid' \in 0..Len(comments) /\ rid' # 0 /\ rpc' = "delete"
      BY <1>1, <2>3 DEF CommentInv, OneComment
    <3>2. QED BY <1>2, <1>3, <1>4, <2>1, <3>1
          DEF CommentInv, CommentTypeOK, Remembered, RetractHolds
  <2>4. CASE known = 0 /\ Listed = {} /\ rpc' = "forget" /\ rid' = 0
    BY <1>1, <1>2, <1>3, <1>4, <1>5, <2>1, <2>4
    DEF CommentInv, CommentTypeOK, Remembered, RetractHolds
  <2>5. QED BY <1>6, <2>2, <2>3, <2>4 DEF RetractComment
<1>7. CASE Delete
  <2>1. /\ rpc = "delete" /\ rpc' = "forget" /\ UNCHANGED <<known, rid>>
        /\ comments' = [comments EXCEPT ![rid].there = FALSE]
    BY <1>7 DEF Delete
  <2>2. rid \in DOMAIN comments /\ There \subseteq {rid}
    BY <1>1, <2>1 DEF CommentInv, CommentTypeOK, RetractHolds
  <2>3. /\ comments' \in Seq(PostedEntries) /\ Len(comments') = Len(comments)
        /\ There' = There \ {rid} /\ Listed' = Listed \ {rid}
    BY <1>1, <2>1, <2>2, Dropped
  <2>4. There' = {}
    BY <2>2, <2>3
  <2>5. CommentTypeOK'
    BY <1>3, <2>1, <2>3 DEF CommentInv, CommentTypeOK, PostedEntries
  <2>6. OneComment' /\ RetractHolds' /\ Remembered'
    BY <2>1, <2>4 DEF OneComment, RetractHolds, Remembered
  <2>7. QED BY <1>4, <2>5, <2>6 DEF CommentInv
<1>8. CASE RetractRefused \/ Forget
  <2>1. /\ There \subseteq Listed
        /\ rpc' = "idle" /\ known' = 0 /\ rid' = 0 /\ UNCHANGED comments
    BY <1>8 DEF RetractRefused, Forget, CommentInv, RetractHolds
  <2>2. CommentTypeOK'
    BY <1>1, <1>3, <2>1 DEF CommentInv, CommentTypeOK
  <2>3. OneComment' /\ RetractHolds' /\ Remembered'
    BY <1>2, <2>1 DEF CommentInv, RetractHolds, Remembered
  <2>4. QED BY <1>4, <2>2, <2>3 DEF CommentInv
<1>9. QED BY <1>6, <1>7, <1>8

\* What the platform does on its own takes comments away or lists them.
LEMMA PlatformStep ==
  ASSUME CommentInv, NEW i \in DOMAIN comments, CatchUp(i) \/ DeletedByHand(i)
  PROVE  CommentInv'
<1>1. comments \in Seq(PostedEntries) /\ Listed \subseteq There
  BY PostedIds DEF CommentInv, CommentTypeOK, PostedEntries
<1>2. UNCHANGED <<known, wpc, wid, rpc, rid>>
  BY DEF CatchUp, DeletedByHand
<1>3. /\ comments' \in Seq(PostedEntries) /\ Len(comments') = Len(comments) /\ There' \subseteq There
      /\ There \subseteq Listed => There' \subseteq Listed'
  <2>1. CASE CatchUp(i)
    BY <1>1, <2>1, CaughtUp DEF CatchUp
  <2>2. CASE DeletedByHand(i)
    BY <1>1, <2>2, Dropped DEF DeletedByHand
  <2>3. QED BY <2>1, <2>2
<1>4. CommentTypeOK'
  BY <1>2, <1>3 DEF CommentInv, CommentTypeOK, PostedEntries
<1>5. OneComment'
  BY <1>3 DEF CommentInv, OneComment
<1>6. Solo'
  BY <1>2 DEF CommentInv, Solo, Busy
<1>7. PublishHolds' /\ RetractHolds'
  BY <1>2, <1>3 DEF CommentInv, PublishHolds, RetractHolds
<1>8. Remembered'
  BY <1>2, <1>3 DEF CommentInv, Remembered
<1>9. QED BY <1>4, <1>5, <1>6, <1>7, <1>8 DEF CommentInv

\* A restart forgets the id of a comment the listing shows.
LEMMA RestartStep == CommentInv /\ Restart => CommentInv'
<1> SUFFICES ASSUME CommentInv, Restart PROVE CommentInv'
  OBVIOUS
<1>1. There = Listed /\ known' = 0 /\ rpc' = "idle" /\ rid' = 0 /\ UNCHANGED comments
  BY DEF Restart
<1>2. wpc' = [w \in Posters |-> "idle"] /\ wid' = [w \in Posters |-> 0]
  BY DEF Restart
<1>3. There' = There /\ Listed' = Listed /\ OneComment'
  BY <1>1 DEF There, Listed, CommentInv, OneComment
<1>4. Len(comments) \in Nat
  BY LenProperties DEF CommentInv, CommentTypeOK
<1>5. CommentTypeOK'
  BY <1>1, <1>2, <1>4 DEF CommentInv, CommentTypeOK
<1>6. Solo' /\ PublishHolds' /\ RetractHolds' /\ Remembered'
  BY <1>1, <1>2, <1>3 DEF Solo, Busy, PublishHolds, RetractHolds, Remembered
<1>7. QED BY <1>3, <1>5, <1>6 DEF CommentInv

\* Every step keeps the invariant.
LEMMA CommentInvStep == ~Overlap /\ CommentInv /\ [CommentNext]_commentVars => CommentInv'
<1> SUFFICES ASSUME ~Overlap, CommentInv, [CommentNext]_commentVars PROVE CommentInv'
  OBVIOUS
<1>1. CASE UNCHANGED commentVars
  <2>1. There' = There /\ Listed' = Listed
    BY <1>1 DEF commentVars, There, Listed
  <2>2. QED BY <1>1, <2>1 DEF commentVars, CommentInv, CommentTypeOK, OneComment, Solo, Busy, PublishHolds, RetractHolds, Remembered
<1>2. QED BY <1>1, PublishCallKeeps, RetractStep, PlatformStep, RestartStep DEF CommentNext

-----------------------------------------------------------------------------
\* As long as no two calls for the pull request are under way at once, there is one
\* comment: a listing that lags, a restart, a comment deleted by hand or a refused request
\* do not lead to a second one.
THEOREM OnlyComment == ASSUME ~Overlap PROVE CommentSpec => []OneComment
<1>1. CommentInv => OneComment
  BY DEF CommentInv
<1>2. ~Overlap /\ CommentInv /\ [CommentNext]_commentVars => CommentInv'
  BY CommentInvStep
<1>3. CommentInv /\ [CommentNext]_commentVars => CommentInv'
  BY <1>2
<1>4. QED BY <1>1, <1>3, CommentInvInit, PTL DEF CommentSpec
-----------------------------------------------------------------------------
\* A step of a caller of Publish keeps the types, whether the calls overlap or not.
LEMMA CallTyped ==
  ASSUME CommentTypeOK, NEW w \in Posters, comments' \in Seq(PostedEntries), Len(comments) <= Len(comments'),
         known' \in 0..Len(comments'), UNCHANGED <<rpc, rid>>,
         NEW pc \in {"idle", "search", "patch", "post", "remember"}, NEW id \in 0..Len(comments'),
         To(w, pc, id), pc = "patch" => id # 0
  PROVE  CommentTypeOK'
<1>1. /\ wpc \in [Posters -> {"idle", "search", "patch", "post", "remember"}]
      /\ wid \in [Posters -> 0..Len(comments)] /\ rid \in 0..Len(comments)
      /\ Len(comments) \in Nat /\ Len(comments') \in Nat
  BY LenProperties DEF CommentTypeOK, PostedEntries
<1>2. /\ wpc' \in [Posters -> {"idle", "search", "patch", "post", "remember"}]
      /\ wid' \in [Posters -> 0..Len(comments')] /\ rid' \in 0..Len(comments')
  BY <1>1 DEF To
<1>3. \A v \in Posters : wpc'[v] = "patch" => wid'[v] # 0
  BY <1>1 DEF To, CommentTypeOK
<1>4. QED BY <1>2, <1>3 DEF CommentTypeOK, PostedEntries

\* Every step keeps the types.
LEMMA CommentTyped == CommentTypeOK /\ [CommentNext]_commentVars => CommentTypeOK'
<1> SUFFICES ASSUME CommentTypeOK, [CommentNext]_commentVars PROVE CommentTypeOK'
  OBVIOUS
<1>1. comments \in Seq(PostedEntries) /\ known \in 0..Len(comments) /\ 0 \in 0..Len(comments) /\ Len(comments) \in Nat
  BY LenProperties DEF CommentTypeOK, PostedEntries
<1>2. /\ There \subseteq 1..Len(comments) /\ DOMAIN comments = 1..Len(comments)
      /\ \A i \in There : i \in 0..Len(comments) /\ i # 0
  BY <1>1, PostedIds
<1>3. ASSUME NEW w \in Posters, Publish(w) \/ Search(w) \/ Patch(w) \/ Remember(w) \/ Refused(w)
      PROVE  CommentTypeOK'
  <2>1. UNCHANGED <<comments, rpc, rid>> /\ known' \in 0..Len(comments)
    BY <1>1, <1>2, <1>3 DEF Publish, Search, Patch, Remember, Refused, CommentTypeOK
  <2>2. \E pc \in {"idle", "search", "patch", "post", "remember"}, id \in 0..Len(comments) :
          To(w, pc, id) /\ (pc = "patch" => id # 0)
    <3>1. CASE Publish(w)
      BY <1>1, <3>1 DEF Publish
    <3>2. CASE Search(w)
      BY <1>1, <1>2, <3>2 DEF Search
    <3>3. CASE Patch(w) \/ Remember(w) \/ Refused(w)
      BY <1>1, <3>3 DEF Patch, Remember, Refused
    <3>4. QED BY <1>3, <3>1, <3>2, <3>3
  <2>3. QED BY <1>1, <2>1, <2>2, CallTyped
<1>4. ASSUME NEW w \in Posters, Post(w)
      PROVE  CommentTypeOK'
  <2>1. comments' \in Seq(PostedEntries) /\ Len(comments') = Len(comments) + 1
    BY <1>1, <1>4, Appended DEF Post
  <2>2. Len(comments) + 1 \in 0..Len(comments') /\ known \in 0..Len(comments') /\ Len(comments) <= Len(comments')
    BY <1>1, <2>1
  <2>3. To(w, "remember", Len(comments) + 1) /\ UNCHANGED <<known, rpc, rid>>
    BY <1>4 DEF Post
  <2>4. QED BY <2>1, <2>2, <2>3, CallTyped
<1>5. CASE RetractComment \/ RetractRefused \/ Forget
  <2>1. UNCHANGED <<comments, wpc, wid>> /\ known' \in 0..Len(comments) /\ rid' \in 0..Len(comments)
    BY <1>1, <1>2, <1>5 DEF RetractComment, RetractRefused, Forget, CommentTypeOK
  <2>2. rpc' \in {"idle", "delete", "forget"} /\ (rpc' = "delete" => rid' # 0)
    BY <1>1, <1>2, <1>5 DEF RetractComment, RetractRefused, Forget, CommentTypeOK
  <2>3. QED BY <2>1, <2>2 DEF CommentTypeOK
<1>6. ASSUME comments' \in Seq(PostedEntries), Len(comments') = Len(comments), UNCHANGED <<known, wpc, wid, rid>>,
             rpc' = rpc \/ rpc' = "forget"
      PROVE  CommentTypeOK'
  BY <1>6 DEF CommentTypeOK, PostedEntries
<1>7. CASE Delete
  <2>1. rid \in DOMAIN comments
    BY <1>2, <1>7 DEF Delete, CommentTypeOK
  <2>2. comments' \in Seq(PostedEntries) /\ Len(comments') = Len(comments)
    BY <1>1, <1>7, <2>1, Dropped DEF Delete
  <2>3. QED BY <1>6, <1>7, <2>2 DEF Delete
<1>8. ASSUME NEW i \in DOMAIN comments, CatchUp(i) \/ DeletedByHand(i)
      PROVE  CommentTypeOK'
  <2>1. comments' \in Seq(PostedEntries) /\ Len(comments') = Len(comments)
    BY <1>1, <1>8, CaughtUp, Dropped DEF CatchUp, DeletedByHand
  <2>2. QED BY <1>6, <1>8, <2>1 DEF CatchUp, DeletedByHand
<1>9. CASE Restart
  BY <1>1, <1>9 DEF Restart, CommentTypeOK
<1>10. CASE UNCHANGED commentVars
  BY <1>10 DEF commentVars, CommentTypeOK
<1>11. QED BY <1>3, <1>4, <1>5, <1>7, <1>8, <1>9, <1>10 DEF CommentNext

\* Every variable of the comment has its type (CommentTypeOK), also while calls overlap.
THEOREM CommentTypeCorrect == CommentSpec => []CommentTypeOK
<1>1. CommentInit => CommentTypeOK
  BY CommentInvInit DEF CommentInv
<1>2. QED BY <1>1, CommentTyped, PTL DEF CommentSpec

-------------------------------------------------------------------------------
(* Platform: a request that is repeated has its effect once.                   *)

\* Every variable has its type, and the call under way has what its request needs.
CallSteps == {"idle", "search", "create", "edit", "search-delete", "delete", "files", "find-run", "create-run",
        "update-run", "status"}
CallRecords == [at : CallSteps, state : States \cup {"none"}, head : Heads \cup {"none"}, id : Nat, try : 1..4,
         fresh : BOOLEAN, page : Nat, pages : Nat, docs : Nat]
Reporting == {"search", "create", "edit", "find-run", "create-run", "update-run", "status"}
AskTyped ==
  /\ ask \in CallRecords
  /\ ~ask.fresh => ask.try <= 3
  /\ ask.at \in {"edit", "delete"} => ask.id \in DOMAIN notes
  /\ ask.at \in Reporting => ask.head \in Heads /\ ask.state \in States
PlatTyped ==
  /\ client \in {"github", "bitbucket"} /\ notes \in Seq(BOOLEAN)
  /\ checks \in Seq([head : Heads, state : States]) /\ knownId \in 0..Len(notes)
  /\ token \in {"none", "good", "dead"} /\ creds \subseteq {"project", "global"}
  /\ verdict \in {"none", "build", "skip"}
  /\ AskTyped

\* GitHub's comments: at most one is there, what is remembered or edited is it, and one is
\* made only where there is none.
NotesKept == client = "github" =>
  /\ \A i, j \in NotesThere : i = j
  /\ knownId # 0 => NotesThere \subseteq {knownId}
  /\ ask.at \in {"edit", "delete"} => NotesThere \subseteq {ask.id}
  /\ ask.at = "create" => NotesThere = {} /\ knownId = 0

\* Check runs and statuses: a commit has at most one.
ChecksKept ==
  /\ \A i, j \in DOMAIN checks : checks[i].head = checks[j].head => i = j
  /\ ask.at \in {"create-run", "update-run", "find-run"} => client = "github"
  /\ ask.at = "status" => client = "bitbucket"
  /\ ask.at = "create-run" => RunsOf(ask.head) = {}
  /\ ask.at = "update-run" => ask.id \in RunsOf(ask.head)

PlatInv == PlatTyped /\ NotesKept /\ ChecksKept

\* The first of the comments that are there is one of them, if there is only one.
LEMMA FoundIsIt ==
  ASSUME PlatTyped, \A i, j \in NotesThere : i = j, NotesThere # {}
  PROVE  Found \in NotesThere /\ NotesThere \subseteq {Found}
<1>1. PICK x \in NotesThere : TRUE
  OBVIOUS
<1>2. x \in Nat /\ \A j \in NotesThere : x <= j
  BY <1>1 DEF NotesThere, PlatTyped
<1>3. QED BY <1>1, <1>2 DEF Found

\* Where there are several, it is still one of them.
LEMMA FoundIsThere ==
  ASSUME PlatTyped
  PROVE  Found = 0 \/ Found \in DOMAIN notes
<1>1. CASE NotesThere = {}
  BY <1>1 DEF Found
<1>2. CASE NotesThere # {}
  <2>1. \E i \in NotesThere : \A j \in NotesThere : i <= j
    <3>1. NotesThere \in SUBSET Nat
      BY DEF NotesThere, PlatTyped
    <3> DEFINE Less == {ss \in Nat \X Nat : ss[1] < ss[2]}
    <3>2. IsWellFoundedOn(Less, Nat)
      BY NatLessThanWellFounded DEF OpToRel
    <3>3. PICK x \in NotesThere : \A y \in NotesThere : ~ (<<y, x>> \in Less)
      <4> HIDE DEF Less
      <4>1. QED BY <1>2, <3>1, <3>2, WFMin
    <3>4. ASSUME NEW y \in NotesThere PROVE x <= y
      <4>1. x \in Nat /\ y \in Nat
        BY <3>1
      <4>2. y < x => <<y, x>> \in Less
        BY <4>1
      <4>3. QED BY <3>3, <4>1, <4>2
    <3>5. QED BY <3>4
  <2>2. QED BY <1>2, <2>1 DEF Found, NotesThere
<1>3. QED BY <1>1, <1>2

\* What is appended to leaves the rest alone.
LEMMA AppendKeeps ==
  ASSUME NEW S, NEW s \in Seq(S), NEW e \in S
  PROVE  \A i \in DOMAIN s : Append(s, e)[i] = s[i]
BY AppendProperties

\* What a request that has its effect does to the comments, ...
LEMMA TakesNotes ==
  ASSUME PlatTyped, Takes
  PROVE  /\ notes' \in Seq(BOOLEAN) /\ DOMAIN notes \subseteq DOMAIN notes' /\ Len(notes') >= Len(notes)
         /\ ask.at # "create" => NotesThere' \subseteq NotesThere /\ Len(notes') = Len(notes)
         /\ ask.at = "create" => Len(notes') = Len(notes) + 1 /\ NotesThere' \subseteq NotesThere \cup {Len(notes')}
<1>1. CASE ask.at = "create"
  <2>1. notes' = Append(notes, TRUE)
    BY <1>1 DEF Takes
  <2>2. /\ notes' \in Seq(BOOLEAN) /\ Len(notes') = Len(notes) + 1
    BY <2>1 DEF PlatTyped
  <2>5. \A i \in DOMAIN notes : notes'[i] = notes[i]
    <3>1. notes \in Seq(BOOLEAN) /\ TRUE \in BOOLEAN /\ DOMAIN notes = 1..Len(notes)
      BY DEF PlatTyped
    <3>2. \A e \in BOOLEAN : \A i \in DOMAIN notes : Append(notes, e)[i] = notes[i]
      BY ONLY <3>1, AppendKeeps
    <3>3. QED BY <2>1, <3>2, Zenon
  <2>3. DOMAIN notes' = DOMAIN notes \cup {Len(notes')}
    BY <2>2 DEF PlatTyped
  <2>4. QED BY <1>1, <2>2, <2>3, <2>5 DEF NotesThere, PlatTyped
<1>2. CASE ask.at = "delete"
  <2>1. notes' = [notes EXCEPT ![ask.id] = FALSE] /\ ask.id \in DOMAIN notes
    BY <1>2 DEF Takes, PlatTyped, AskTyped
  <2>2. notes' \in Seq(BOOLEAN) /\ Len(notes') = Len(notes)
    BY <2>1 DEF PlatTyped
  <2>3. \A i \in DOMAIN notes : notes'[i] => notes[i]
    BY <2>1
  <2>4. DOMAIN notes' = DOMAIN notes
    BY <2>1
  <2>5. QED BY <1>2, <2>2, <2>3, <2>4 DEF NotesThere, PlatTyped
<1>3. CASE ask.at \notin {"create", "delete"}
  <2>1. UNCHANGED notes
    BY <1>3 DEF Takes, serverVars
  <2>2. NotesThere' = NotesThere
    BY <2>1 DEF NotesThere
  <2>3. QED BY <1>3, <2>1, <2>2 DEF PlatTyped
<1>4. QED BY <1>1, <1>2, <1>3

\* ... and to the runs.
LEMMA TakesChecks ==
  ASSUME PlatTyped, ChecksKept, Takes
  PROVE  /\ checks' \in Seq([head : Heads, state : States])
         /\ \A i, j \in DOMAIN checks' : checks'[i].head = checks'[j].head => i = j
<1>1. CASE UNCHANGED checks
  BY <1>1 DEF PlatTyped, ChecksKept
<1>2. CASE checks' = Append(checks, CheckRun) /\ RunsOf(ask.head) = {} /\ ask.at \in {"create-run", "status"}
  <2>1. CheckRun \in [head : Heads, state : States]
    BY <1>2 DEF CheckRun, Shown, PlatTyped, AskTyped, Reporting, States
  <2>2. /\ checks' \in Seq([head : Heads, state : States]) /\ Len(checks') = Len(checks) + 1
        /\ \A i \in 1..Len(checks) : checks'[i] = checks[i]
        /\ checks'[Len(checks) + 1].head = ask.head
    BY <1>2, <2>1 DEF PlatTyped, CheckRun
  <2>3. \A i \in 1..Len(checks) : checks[i].head # ask.head
    BY <1>2 DEF RunsOf, PlatTyped
  <2>4. \A i \in DOMAIN checks' : i \in DOMAIN checks \/ i = Len(checks) + 1
    BY <2>2 DEF PlatTyped
  <2>5. DOMAIN checks = 1..Len(checks)
    BY DEF PlatTyped
  <2>6. QED BY <2>2, <2>3, <2>4, <2>5 DEF ChecksKept
<1>3. ASSUME NEW i \in RunsOf(ask.head), checks' = [checks EXCEPT ![i] = CheckRun], ask.at \in {"status", "update-run"}
      PROVE  /\ checks' \in Seq([head : Heads, state : States])
             /\ \A k, j \in DOMAIN checks' : checks'[k].head = checks'[j].head => k = j
  <2>1. CheckRun \in [head : Heads, state : States]
    BY <1>3 DEF CheckRun, Shown, PlatTyped, AskTyped, Reporting, States
  <2>2. DOMAIN checks' = DOMAIN checks /\ \A k \in DOMAIN checks : checks'[k].head = checks[k].head
    BY <1>3 DEF CheckRun, RunsOf
  <2>3. checks' \in Seq([head : Heads, state : States])
    BY <1>3, <2>1 DEF PlatTyped, RunsOf
  <2>4. \A k, j \in DOMAIN checks : checks[k].head = checks[j].head => k = j
    BY DEF ChecksKept
  <2>5. QED
    <3> SUFFICES ASSUME NEW k \in DOMAIN checks', NEW j \in DOMAIN checks', checks'[k].head = checks'[j].head
                 PROVE  k = j
      BY <2>3
    <3>1. QED BY <2>2, <2>4
<1>4. QED BY <1>1, <1>2, <1>3 DEF Takes, serverVars, ChecksKept

OtherVars == client' = client /\ token' \in {"none", "good", "dead"} /\ creds' \subseteq {"project", "global"}
  /\ verdict' \in {"none", "build", "skip"}

\* What the platform holds after a request, whether it had its effect or none.
Answered == Takes \/ UNCHANGED serverVars

\* A call that ends keeps everything, whether its last request had its effect or not.
LEMMA EndKeeps ==
  ASSUME PlatInv, OtherVars, Answered, ask' = Quiescent, knownId' \in {0, knownId}
  PROVE  PlatInv'
<1>1. PlatTyped /\ NotesKept /\ ChecksKept
  BY DEF PlatInv
<1>2. PlatTyped'
  <2>1. notes' \in Seq(BOOLEAN) /\ Len(notes') >= Len(notes) /\ Len(notes) \in Nat /\ Len(notes') \in Nat
    BY <1>1, TakesNotes DEF Answered, serverVars, PlatTyped
  <2>2. checks' \in Seq([head : Heads, state : States])
    BY <1>1, TakesChecks DEF Answered, serverVars, PlatTyped
  <2>3. AskTyped'
    BY DEF AskTyped, CallRecords, CallSteps, Quiescent, Reporting
  <2>4. knownId' \in 0..Len(notes')
    BY <1>1, <2>1 DEF PlatTyped
  <2>5. QED BY <1>1, <2>1, <2>2, <2>3, <2>4 DEF PlatTyped, OtherVars
<1>3. NotesKept'
  <2> SUFFICES ASSUME client = "github"
               PROVE  /\ \A i, j \in NotesThere' : i = j
                      /\ knownId' # 0 => NotesThere' \subseteq {knownId'}
    BY DEF NotesKept, Quiescent, OtherVars
  <2>1. CASE ask.at = "create" /\ Takes
    BY <1>1, <2>1, TakesNotes DEF NotesKept
  <2>2. CASE NotesThere' \subseteq NotesThere
    BY <1>1, <2>2 DEF NotesKept
  <2>3. UNCHANGED serverVars => NotesThere' = NotesThere
    BY DEF serverVars, NotesThere
  <2>4. QED BY <1>1, <2>1, <2>2, <2>3, TakesNotes DEF Answered
<1>4. ChecksKept'
  <2>1. CASE Takes
    BY <1>1, <2>1, TakesChecks DEF ChecksKept, Quiescent
  <2>2. CASE UNCHANGED serverVars
    BY <1>1, <2>2 DEF ChecksKept, Quiescent, serverVars
  <2>3. QED BY <2>1, <2>2 DEF Answered
<1>5. QED BY <1>2, <1>3, <1>4 DEF PlatInv

\* A request may be made again with all that it asks for: one that had its effect only at
\* Bitbucket.
LEMMA RepeatKeeps ==
  ASSUME PlatInv, OtherVars, knownId' = knownId, AskTyped',
         ask'.at = ask.at, ask'.id = ask.id, ask'.head = ask.head,
         UNCHANGED serverVars \/ (Takes /\ client = "bitbucket")
  PROVE  PlatInv'
<1>1. PlatTyped /\ NotesKept /\ ChecksKept
  BY DEF PlatInv
<1>2. PlatTyped'
  <2>1. notes' \in Seq(BOOLEAN) /\ Len(notes') >= Len(notes) /\ Len(notes) \in Nat /\ Len(notes') \in Nat
    BY <1>1, TakesNotes DEF serverVars, PlatTyped
  <2>2. checks' \in Seq([head : Heads, state : States])
    BY <1>1, TakesChecks DEF serverVars, PlatTyped
  <2>3. knownId' \in 0..Len(notes')
    BY <1>1, <2>1 DEF PlatTyped
  <2>4. QED BY <1>1, <2>1, <2>2, <2>3 DEF PlatTyped, OtherVars
<1>3. NotesKept'
  <2>1. UNCHANGED serverVars => NotesThere' = NotesThere
    BY DEF serverVars, NotesThere
  <2>2. QED BY <1>1, <2>1 DEF NotesKept, OtherVars
<1>4. ChecksKept'
  <2>1. CASE Takes /\ client = "bitbucket"
    BY <1>1, <2>1, TakesChecks DEF ChecksKept, OtherVars
  <2>2. CASE UNCHANGED serverVars
    <3>1. RunsOf(ask.head)' = RunsOf(ask.head)
      BY <2>2, ask'.head = ask.head DEF RunsOf, serverVars
    <3>2. QED BY <1>1, <2>2, <3>1 DEF ChecksKept, serverVars, OtherVars, RunsOf
  <2>3. QED BY <2>1, <2>2
<1>5. QED BY <1>2, <1>3, <1>4 DEF PlatInv

\* What fails, and what is tried again.
LEMMA FaultKeeps ==
  ASSUME PlatInv, RateLimited \/ ServerError \/ Broken \/ Declined \/ Unauthorized \/ NoCredential
  PROVE  PlatInv'
<1>1. OtherVars
  BY DEF PlatInv, PlatTyped, OtherVars, RateLimited, ServerError, Broken, Declined, Unauthorized, NoCredential
<1>2. Answered
  BY DEF Answered, RateLimited, ServerError, Broken, Declined, Unauthorized, NoCredential
<1>3. CASE CallFails
  BY <1>1, <1>2, <1>3, EndKeeps DEF CallFails, EndsCall
<1>4. CASE ~CallFails
  <2>1. knownId' = knownId /\ (UNCHANGED serverVars \/ (Takes /\ client = "bitbucket"))
    BY <1>4 DEF RateLimited, ServerError, Broken, Declined, Unauthorized, NoCredential, Repeats, Repeats5xx
  <2>2. AskTyped /\ DOMAIN notes \subseteq DOMAIN notes'
    BY <2>1, TakesNotes DEF PlatInv, PlatTyped, serverVars
  <2>3. \/ ask' = [ask EXCEPT !.try = @ + 1] /\ ask.try < 3
        \/ ask' = [ask EXCEPT !.fresh = TRUE, !.try = @ + 1] /\ ~ask.fresh
    BY <1>4 DEF RateLimited, ServerError, Broken, Declined, Unauthorized, NoCredential, Repeats, Repeats5xx, Attempts
  <2>4. /\ AskTyped' /\ ask'.at = ask.at /\ ask'.id = ask.id /\ ask'.head = ask.head
    <3>1. ask' \in CallRecords
      <4>1. CASE ask' = [ask EXCEPT !.try = @ + 1] /\ ask.try < 3
        BY <2>2, <4>1 DEF AskTyped, CallRecords
      <4>2. CASE ask' = [ask EXCEPT !.fresh = TRUE, !.try = @ + 1] /\ ~ask.fresh
        <5>1. ask.try + 1 \in 1..4
          BY <2>2, <4>2 DEF AskTyped, CallRecords
        <5>2. \A n \in 1..4, b \in BOOLEAN : [ask EXCEPT !.fresh = b, !.try = n] \in CallRecords
          BY <2>2 DEF AskTyped, CallRecords
        <5>3. TRUE \in BOOLEAN
          OBVIOUS
        <5>4. QED BY <4>2, <5>1, <5>2, <5>3, Zenon
      <4>3. QED BY <2>3, <4>1, <4>2
    <3>2. ~ask'.fresh => ask'.try <= 3
      <4>1. CASE ask' = [ask EXCEPT !.try = @ + 1] /\ ask.try < 3
        BY <2>2, <4>1 DEF AskTyped, CallRecords
      <4>2. CASE ask' = [ask EXCEPT !.fresh = TRUE, !.try = @ + 1] /\ ~ask.fresh
        BY <2>2, <4>2 DEF AskTyped, CallRecords
      <4>3. QED BY <2>3, <4>1, <4>2
    <3>3. ask'.at = ask.at /\ ask'.id = ask.id /\ ask'.head = ask.head /\ ask'.state = ask.state
      BY <2>2, <2>3 DEF AskTyped, CallRecords
    <3>4. QED BY <2>2, <3>1, <3>2, <3>3 DEF AskTyped
  <2>5. QED BY <1>1, <2>1, <2>4, RepeatKeeps
<1>5. QED BY <1>3, <1>4

\* A call begins with nothing in hand but what is remembered.
LEMMA CallKeeps ==
  ASSUME PlatInv,
         \/ \E s \in States, c \in Heads : PublishReport(s, c)
         \/ RetractReport
         \/ \E p \in 1..MaxPages, d \in 0..MaxPages : ListFiles(p, d)
  PROVE  PlatInv'
<1>1. PlatTyped /\ NotesKept /\ ChecksKept
  BY DEF PlatInv
<1>2. UNCHANGED <<client, notes, checks, knownId, token, creds, verdict>>
  BY DEF PublishReport, RetractReport, ListFiles, serverVars
<1>3. knownId \in Nat /\ (knownId # 0 => knownId \in DOMAIN notes)
  BY <1>1 DEF PlatTyped
<1>4. /\ ask'.at \in {"search", "edit", "search-delete", "delete", "files"}
      /\ ask'.at \in {"edit", "delete"} => knownId # 0 /\ ask'.id = knownId
      /\ AskTyped'
  <2>1. Quiescent \in CallRecords
    BY DEF Quiescent, CallRecords, CallSteps
  <2>2. CASE \E s \in States, c \in Heads : PublishReport(s, c)
    <3>1. PICK s \in States, c \in Heads : PublishReport(s, c)
      BY <2>2
    <3> DEFINE at == IF knownId = 0 THEN "search" ELSE "edit"
    <3>2. ask' = [Quiescent EXCEPT !.at = at, !.id = knownId, !.state = s, !.head = c]
      BY <3>1 DEF PublishReport
    <3>3. ask' \in CallRecords
      BY <1>3, <2>1, <3>2 DEF CallRecords, CallSteps
    <3>4. ask'.at = at /\ ask'.id = knownId /\ ask'.state = s /\ ask'.head = c /\ ask'.try = 1
      BY <3>2 DEF Quiescent
    <3>5. QED BY <1>2, <1>3, <3>3, <3>4 DEF AskTyped
  <2>3. CASE RetractReport
    <3> DEFINE at == IF knownId = 0 THEN "search-delete" ELSE "delete"
    <3>2. ask' = [Quiescent EXCEPT !.at = at, !.id = knownId]
      BY <2>3 DEF RetractReport
    <3>3. ask' \in CallRecords
      BY <1>3, <2>1, <3>2 DEF CallRecords, CallSteps
    <3>4. ask'.at = at /\ ask'.id = knownId /\ ask'.try = 1
      BY <3>2 DEF Quiescent
    <3>5. QED BY <1>2, <1>3, <3>3, <3>4 DEF AskTyped, Reporting
  <2>4. CASE \E p \in 1..MaxPages, d \in 0..MaxPages : ListFiles(p, d)
    <3>1. PICK p \in 1..MaxPages, d \in 0..MaxPages : ListFiles(p, d)
      BY <2>4
    <3>2. ask' = [Quiescent EXCEPT !.at = "files", !.page = 1, !.pages = p, !.docs = d]
      BY <3>1 DEF ListFiles
    <3>3. ask' \in CallRecords
      <4>1. p \in Nat /\ d \in Nat /\ 1 \in Nat
        BY PlatformAssumption
      <4>2. QED BY <2>1, <3>2, <4>1 DEF CallRecords, CallSteps
    <3>4. ask'.at = "files" /\ ask'.try = 1
      BY <3>2 DEF Quiescent
    <3>5. QED BY <3>3, <3>4 DEF AskTyped, Reporting
  <2>5. QED BY <2>2, <2>3, <2>4
<1>5. PlatTyped'
  BY <1>1, <1>2, <1>4 DEF PlatTyped
<1>6. NotesThere' = NotesThere
  BY <1>2 DEF NotesThere
<1>7. NotesKept'
  BY <1>1, <1>2, <1>4, <1>6 DEF NotesKept
<1>8. ChecksKept'
  BY <1>1, <1>2, <1>4 DEF ChecksKept
<1>9. QED BY <1>5, <1>7, <1>8 DEF PlatInv

\* The call moves on to its next request, which has what it needs.
LEMMA MoveTyped ==
  ASSUME AskTyped, NEW at \in CallSteps, NEW id \in Nat, Proceeds(at, id),
         at \in {"edit", "delete"} => id \in DOMAIN notes',
         at \in Reporting => ask.at \in Reporting
  PROVE  /\ AskTyped' /\ ask'.at = at /\ ask'.id = id /\ ask'.head = ask.head
<1>1. ask' \in CallRecords
  <2> DEFINE moved == [ask EXCEPT !.at = at, !.id = id, !.try = 1]
  <2>1. ask \in CallRecords
    BY DEF AskTyped
  <2>4. moved \in CallRecords
    BY <2>1, 1 \in 1..4 DEF CallRecords, CallSteps
  <2>5. \A b \in BOOLEAN : [moved EXCEPT !.fresh = b] \in CallRecords
    <3> HIDE DEF moved
    <3>1. QED BY <2>4 DEF CallRecords
  <2>6. ask' = [moved EXCEPT !.fresh = FALSE]
    BY <2>1, Zenon DEF CallRecords, Proceeds
  <2>2. FALSE \in BOOLEAN
    OBVIOUS
  <2>3. QED BY <2>2, <2>5, <2>6, Zenon
<1>2. ask'.at = at /\ ask'.id = id /\ ask'.head = ask.head /\ ask'.state = ask.state /\ ask'.try = 1
  BY DEF AskTyped, CallRecords, Proceeds
<1>3. QED BY <1>1, <1>2 DEF AskTyped

\* The answers.
LEMMA AnswerKeeps ==
  ASSUME PlatInv, Succeeds
  PROVE  PlatInv'
<1>1. PlatTyped /\ NotesKept /\ ChecksKept /\ AskTyped
  BY DEF PlatInv, PlatTyped
<1>2. Takes /\ OtherVars /\ UNCHANGED <<client, token, creds, verdict>>
  BY <1>1 DEF Succeeds, OtherVars, PlatTyped
<1>3. notes' \in Seq(BOOLEAN) /\ DOMAIN notes \subseteq DOMAIN notes' /\ Len(notes') >= Len(notes)
      /\ Len(notes) \in Nat /\ Len(notes') \in Nat /\ DOMAIN notes' = 1..Len(notes')
      /\ checks' \in Seq([head : Heads, state : States])
      /\ \A i, j \in DOMAIN checks' : checks'[i].head = checks'[j].head => i = j
  BY <1>1, <1>2, TakesNotes, TakesChecks DEF PlatTyped
<1>4. ASSUME AskTyped', knownId' \in 0..Len(notes') PROVE PlatTyped'
  BY <1>1, <1>2, <1>3, <1>4 DEF PlatTyped
<1>5. CASE ask.at = "search"
  <2>1. knownId' = Found /\ Proceeds(IF Found = 0 THEN "create" ELSE "edit", Found) /\ UNCHANGED <<notes, checks>>
    BY <1>5 DEF Succeeds, Takes, serverVars
  <2>2. Found \in Nat /\ (Found # 0 => Found \in DOMAIN notes')
    BY <1>1, <2>1, FoundIsThere DEF PlatTyped
  <2>3. /\ AskTyped' /\ ask'.at = (IF Found = 0 THEN "create" ELSE "edit") /\ ask'.id = Found
        /\ ask'.head = ask.head
    BY <1>1, <1>5, <2>1, <2>2, MoveTyped DEF CallSteps, Reporting
  <2>4. knownId' \in 0..Len(notes')
    BY <1>3, <2>1, <2>2
  <2>5. NotesThere' = NotesThere
    BY <2>1 DEF NotesThere
  <2>6. NotesKept'
    <3>1. client = "github" => IF Found = 0 THEN NotesThere = {} ELSE NotesThere \subseteq {Found}
      <4>1. CASE NotesThere = {}
        BY <4>1
      <4>2. CASE NotesThere # {}
        <5>1. client = "github" => Found \in DOMAIN notes /\ NotesThere \subseteq {Found}
          BY <1>1, <4>2, FoundIsIt DEF NotesKept, NotesThere
        <5>2. 0 \notin DOMAIN notes
          BY <1>1 DEF PlatTyped
        <5>3. QED BY <5>1, <5>2
      <4>3. QED BY <4>1, <4>2
    <3>2. QED BY <1>1, <1>2, <2>1, <2>3, <2>5, <3>1 DEF NotesKept
  <2>7. ChecksKept'
    BY <1>3, <2>3 DEF ChecksKept
  <2>8. QED BY <1>4, <2>3, <2>4, <2>6, <2>7 DEF PlatInv
<1>6. CASE ask.at \in {"create", "edit"}
  <2>1. AfterComment /\ knownId' = IF ask.at = "create" THEN Len(notes') ELSE knownId
    BY <1>6 DEF Succeeds
  <2>2. knownId' \in 0..Len(notes')
    BY <1>1, <1>3, <2>1 DEF PlatTyped
  <2>3. CASE ask' = Quiescent /\ ask.at = "edit"
    BY <1>2, <2>1, <2>3, EndKeeps DEF Answered
  <2>4. NotesKept' \/ ask'.at \notin {"find-run", "status", "idle"}
    <3>1. CASE ask.at = "create"
      BY <1>1, <1>2, <1>3, <2>1, <3>1, TakesNotes DEF NotesKept
    <3>2. CASE ask.at = "edit"
      BY <1>1, <1>2, <2>1, <3>2, TakesNotes DEF NotesKept
    <3>3. QED BY <1>6, <3>1, <3>2
  <2>5. CASE ask' = Quiescent
    <3>1. AskTyped'
      BY <2>5 DEF AskTyped, CallRecords, CallSteps, Quiescent, Reporting
    <3>2. ChecksKept'
      BY <1>3, <2>5 DEF ChecksKept, Quiescent
    <3>3. QED BY <1>4, <2>2, <2>4, <2>5, <3>1, <3>2 DEF PlatInv, Quiescent
  <2>6. CASE ask' # Quiescent
    <3>1. \E at \in {"find-run", "status"} : Proceeds(at, 0) /\ at = (IF client = "github" THEN "find-run" ELSE "status")
      BY <2>1, <2>6 DEF AfterComment, EndsCall
    <3>2. AskTyped' /\ ask'.at = (IF client = "github" THEN "find-run" ELSE "status")
      BY <1>1, <1>6, <3>1, MoveTyped DEF CallSteps, Reporting
    <3>3. ChecksKept'
      BY <1>1, <1>2, <1>3, <3>2 DEF ChecksKept, PlatTyped
    <3>4. QED BY <1>4, <2>2, <2>4, <3>2, <3>3 DEF PlatInv
  <2>7. QED BY <2>5, <2>6
<1>7. CASE ask.at = "find-run"
  <2>1. UNCHANGED <<knownId, notes, checks>> /\ NotesThere' = NotesThere
    BY <1>7 DEF Succeeds, Takes, serverVars, NotesThere
  <2>2. \/ RunsOf(ask.head) = {} /\ Proceeds("create-run", 0)
        \/ \E i \in RunsOf(ask.head) : Proceeds("update-run", i)
    BY <1>7 DEF Succeeds
  <2>3. \A i \in RunsOf(ask.head) : i \in Nat
    BY <1>1 DEF RunsOf, PlatTyped
  <2>4. /\ AskTyped' /\ ask'.head = ask.head
        /\ \/ ask'.at = "create-run" /\ RunsOf(ask.head) = {}
           \/ ask'.at = "update-run" /\ ask'.id \in RunsOf(ask.head)
    BY <1>1, <1>7, <2>2, <2>3, MoveTyped DEF CallSteps, Reporting
  <2>5. RunsOf(ask.head)' = RunsOf(ask.head)
    BY <2>1, <2>4 DEF RunsOf
  <2>6. ChecksKept'
    BY <1>1, <1>2, <1>3, <1>7, <2>4, <2>5 DEF ChecksKept
  <2>7. NotesKept'
    BY <1>1, <1>2, <2>1, <2>4 DEF NotesKept
  <2>8. PlatTyped'
    BY <1>1, <1>3, <1>4, <2>1, <2>4 DEF PlatTyped
  <2>9. QED BY <2>6, <2>7, <2>8 DEF PlatInv
<1>8. CASE ask.at \in {"create-run", "update-run", "status", "delete"} \/ (ask.at = "search-delete" /\ Found = 0)
  BY <1>2, <1>8, EndKeeps DEF Succeeds, Answered, EndsCall
<1>9. CASE ask.at = "search-delete" /\ Found # 0
  <2>1. Proceeds("delete", Found) /\ UNCHANGED <<knownId, notes, checks>>
    BY <1>9 DEF Succeeds, Takes, serverVars
  <2>2. Found \in Nat /\ Found \in DOMAIN notes'
    BY <1>1, <1>9, <2>1, FoundIsThere DEF PlatTyped
  <2>3. AskTyped' /\ ask'.at = "delete" /\ ask'.id = Found
    BY <1>1, <2>1, <2>2, MoveTyped DEF CallSteps, Reporting
  <2>4. NotesThere' = NotesThere
    BY <2>1 DEF NotesThere
  <2>5. NotesKept'
    <3>1. client = "github" => NotesThere \subseteq {Found}
      BY <1>1, FoundIsIt DEF NotesKept
    <3>2. QED BY <1>1, <1>2, <2>1, <2>3, <2>4, <3>1 DEF NotesKept
  <2>6. ChecksKept'
    BY <1>3, <2>3 DEF ChecksKept
  <2>7. PlatTyped'
    BY <1>1, <1>3, <1>4, <2>1, <2>3 DEF PlatTyped
  <2>8. QED BY <2>5, <2>6, <2>7 DEF PlatInv
<1>10. QED BY <1>5, <1>6, <1>7, <1>8, <1>9 DEF Succeeds

\* A page of changed files.
LEMMA PageKeeps ==
  ASSUME PlatInv, NextPage
  PROVE  PlatInv'
<1>1. PlatTyped /\ AskTyped /\ ask \in CallRecords /\ ask.at = "files"
  BY DEF PlatInv, PlatTyped, AskTyped, NextPage
<1>2. OtherVars /\ UNCHANGED <<serverVars, knownId>>
  BY <1>1 DEF NextPage, OtherVars, PlatTyped
<1>3. CASE ask' = Quiescent
  BY <1>2, <1>3, EndKeeps DEF Answered
<1>4. CASE ask' # Quiescent
  <2>1. ask' = [ask EXCEPT !.page = @ + 1, !.try = 1, !.fresh = FALSE]
    BY <1>4 DEF NextPage, EndsCall
  <2> DEFINE turned == [ask EXCEPT !.page = @ + 1, !.try = 1]
  <2>2. turned \in CallRecords
    <3>1. ask.page + 1 \in Nat /\ 1 \in 1..4
      BY <1>1 DEF CallRecords
    <3>2. \A n \in Nat, m \in 1..4 : [ask EXCEPT !.page = n, !.try = m] \in CallRecords
      BY <1>1 DEF CallRecords
    <3>3. QED BY <3>1, <3>2
  <2>3. \A b \in BOOLEAN : [turned EXCEPT !.fresh = b] \in CallRecords
    <3> HIDE DEF turned
    <3>1. QED BY <2>2 DEF CallRecords
  <2>4. ask' = [turned EXCEPT !.fresh = FALSE]
    BY <1>1, <2>1, Zenon DEF CallRecords
  <2>5. FALSE \in BOOLEAN
    OBVIOUS
  <2>6. ask' \in CallRecords
    BY <2>3, <2>4, <2>5, Zenon
  <2>7. ask'.at = ask.at /\ ask'.id = ask.id /\ ask'.head = ask.head /\ ask'.try = 1
    BY <1>1, <2>1 DEF CallRecords
  <2>8. AskTyped'
    BY <1>1, <2>6, <2>7 DEF AskTyped, Reporting
  <2>9. QED BY <1>2, <2>7, <2>8, RepeatKeeps
<1>5. QED BY <1>3, <1>4

\* The comment to write to is gone.
LEMMA NotFoundKeeps ==
  ASSUME PlatInv, NotFound
  PROVE  PlatInv'
<1>1. PlatTyped /\ NotesKept /\ ChecksKept /\ AskTyped
  BY DEF PlatInv, PlatTyped
<1>2. OtherVars /\ UNCHANGED <<serverVars, client, token, creds, verdict>> /\ knownId' = 0
  BY <1>1 DEF NotFound, OtherVars, PlatTyped
<1>3. CASE ask' = Quiescent
  BY <1>2, <1>3, EndKeeps DEF Answered
<1>4. CASE ask' # Quiescent
  <2>1. ask.at = "edit" /\ ~notes[ask.id] /\ \E at \in {"create", "search"} : Proceeds(at, 0) /\ (at = "search" => client # "github")
    BY <1>4 DEF NotFound, Gone, EndsCall
  <2>2. AskTyped' /\ ask'.at \in {"create", "search"} /\ (client = "github" => ask'.at = "create")
    BY <1>1, <2>1, MoveTyped DEF CallSteps, Reporting
  <2>3. PlatTyped'
    BY <1>1, <1>2, <2>2 DEF PlatTyped, serverVars
  <2>4. NotesThere' = NotesThere
    BY <1>2 DEF NotesThere, serverVars
  <2>5. client = "github" => NotesThere = {}
    BY <1>1, <2>1 DEF NotesKept, NotesThere
  <2>6. NotesKept'
    BY <1>2, <2>2, <2>4, <2>5 DEF NotesKept
  <2>7. ChecksKept'
    BY <1>1, <1>2, <2>2 DEF ChecksKept, serverVars
  <2>8. QED BY <2>3, <2>6, <2>7 DEF PlatInv
<1>5. QED BY <1>3, <1>4

\* What happens around the client.
LEMMA AroundKeeps ==
  ASSUME PlatInv, Mint \/ TokenDies \/ CredentialChanges \/ ClientRestarts \/ \E i \in DOMAIN notes : NoteDeleted(i)
  PROVE  PlatInv'
<1>1. PlatTyped /\ NotesKept /\ ChecksKept /\ AskTyped
  BY DEF PlatInv, PlatTyped
<1>2. OtherVars
  BY <1>1 DEF Mint, TokenDies, CredentialChanges, ClientRestarts, NoteDeleted, OtherVars, PlatTyped
<1>3. CASE ClientRestarts
  BY <1>2, <1>3, EndKeeps DEF ClientRestarts, Answered
<1>4. CASE Mint \/ TokenDies \/ CredentialChanges
  <2>1. UNCHANGED <<serverVars, knownId, ask>>
    BY <1>4 DEF Mint, TokenDies, CredentialChanges
  <2>2. AskTyped'
    BY <1>1, <2>1 DEF AskTyped, serverVars
  <2>3. QED BY <1>2, <2>1, <2>2, RepeatKeeps
<1>5. CASE \E i \in DOMAIN notes : NoteDeleted(i)
  <2>1. PICK i \in DOMAIN notes : NoteDeleted(i)
    BY <1>5
  <2>2. notes' = [notes EXCEPT ![i] = FALSE] /\ UNCHANGED <<client, checks, knownId, token, creds, ask, verdict>>
    BY <2>1 DEF NoteDeleted
  <2>3. notes' \in Seq(BOOLEAN) /\ Len(notes') = Len(notes) /\ DOMAIN notes' = DOMAIN notes
    BY <1>1, <2>2 DEF PlatTyped
  <2>4. \A j \in DOMAIN notes : notes'[j] => notes[j]
    BY <2>2
  <2>5. NotesThere' \subseteq NotesThere
    BY <2>3, <2>4 DEF NotesThere
  <2>6. PlatTyped'
    BY <1>1, <2>2, <2>3 DEF PlatTyped, AskTyped
  <2>7. NotesKept'
    BY <1>1, <2>2, <2>5 DEF NotesKept
  <2>8. ChecksKept'
    BY <1>1, <2>2 DEF ChecksKept, RunsOf
  <2>9. QED BY <2>6, <2>7, <2>8 DEF PlatInv
<1>6. QED BY <1>3, <1>4, <1>5

\* The invariant holds of a new client, ...
LEMMA PlatBegins == PlatformInit => PlatInv
<1> SUFFICES ASSUME PlatformInit PROVE PlatInv
  OBVIOUS
<1>1. notes = <<>> /\ checks = <<>> /\ knownId = 0 /\ ask = Quiescent
  BY DEF PlatformInit
<1>2. NotesThere = {} /\ notes \in Seq(BOOLEAN) /\ checks \in Seq([head : Heads, state : States]) /\ Len(notes) = 0
  BY <1>1 DEF NotesThere
<1>3. AskTyped
  BY <1>1 DEF AskTyped, CallRecords, CallSteps, Quiescent, Reporting
<1>4. creds \subseteq {"project", "global"}
  BY DEF PlatformInit
<1>5. PlatTyped
  BY <1>1, <1>2, <1>3, <1>4 DEF PlatTyped, PlatformInit
<1>6. NotesKept /\ ChecksKept
  BY <1>1, <1>2 DEF NotesKept, ChecksKept, Quiescent
<1>7. QED BY <1>5, <1>6 DEF PlatInv

\* ... and every step keeps it.
LEMMA PlatGoesOn == PlatInv /\ [PlatformNext]_platVars => PlatInv'
<1> SUFFICES ASSUME PlatInv, [PlatformNext]_platVars PROVE PlatInv'
  OBVIOUS
<1>1. CASE PlatformNext
  BY <1>1, CallKeeps, AnswerKeeps, PageKeeps, NotFoundKeeps, FaultKeeps, AroundKeeps DEF PlatformNext
<1>2. CASE UNCHANGED platVars
  BY <1>2 DEF platVars, PlatInv, PlatTyped, AskTyped, NotesKept, ChecksKept, NotesThere, RunsOf
<1>3. QED BY <1>1, <1>2

\* A set of numbers without two that differ has at most one.
LEMMA CountAtMostOne ==
  ASSUME NEW S, \A i, j \in S : i = j
  PROVE  Cardinality(S) <= 1
<1>1. CASE S = {}
  BY <1>1, FS_EmptySet
<1>2. CASE S # {}
  <2>1. PICK x \in S : S = {x}
    BY <1>2
  <2>2. QED BY <2>1, FS_Singleton
<1>3. QED BY <1>1, <1>2

LEMMA PlatformInvariant == PlatformSpec => []PlatInv
BY PlatBegins, PlatGoesOn, PTL DEF PlatformSpec

\* Every variable of the clients' requests has its type (PlatformTypeOK).
THEOREM PlatformTypeCorrect == PlatformSpec => []PlatformTypeOK
<1>1. PlatInv => PlatformTypeOK
  BY DEF PlatInv, PlatTyped, AskTyped, CallRecords, PlatformTypeOK, Attempts
<1>2. QED BY <1>1, PlatformInvariant, PTL

\* One comment, and one check run per commit (NothingTwice), for any number of calls,
\* faults and pages: what a client searches for before it creates is what it created.
THEOREM OnceIsEnough == PlatformSpec => []NothingTwice
<1>1. PlatInv => NothingTwice
  <2> SUFFICES ASSUME NotesKept, ChecksKept PROVE NothingTwice
    BY DEF PlatInv
  <2>1. client = "github" => Cardinality(NotesThere) <= 1
    BY CountAtMostOne DEF NotesKept
  <2>2. ASSUME NEW c \in Heads PROVE Cardinality(RunsOf(c)) <= 1
    <3>1. \A i, j \in RunsOf(c) : i = j
      BY DEF ChecksKept, RunsOf
    <3>2. QED BY <3>1, CountAtMostOne
  <2>3. QED BY <2>1, <2>2 DEF NothingTwice
<1>2. QED BY <1>1, PlatformInvariant, PTL
-------------------------------------------------------------------------------
(* Intake: the previews there are follow the pull requests there are.          *)

\* IntakeTypeOK, one variable after the other.
IntakeTyped ==
  /\ opened \subseteq PRs \cup Forks /\ events \in 0..MaxEvents /\ project \in {"none", "on", "off"}
  /\ outcome \in [Refs -> {"none", "ok", "failed"}] /\ asked \subseteq Refs \ Forks
  /\ unlinked \subseteq PRs /\ dropping \subseteq PRs
  /\ have \subseteq PRs /\ listed \subseteq PRs /\ left \subseteq PRs
  /\ inbox \subseteq {"build", "refresh", "teardown"} \X Refs /\ checked \subseteq PRs \cup {Main}
  /\ spc \in {"down", "branch", "snapshot", "list", "queue", "tear", "done"}
  /\ calm \in BOOLEAN /\ raced \in BOOLEAN

\* The types, as the run states them.
LEMMA IntakeTypes == IntakeTyped => IntakeTypeOK
BY DEF IntakeTyped, IntakeTypeOK

\* No fork has a row.
NoForks == \A r \in Forks : outcome[r] = "none"

\* No handler is past the check with an unlinked pull request.
NeverPast == ~raced => unlinked \cap checked = {}

\* What is to be built, and what the scan has done about its listing so far.
Pending == checked \cup asked
ScanSoFar == calm =>
  /\ spc \in {"list", "queue", "tear"} => project = "on"
  /\ spc = "list" => have = Rows \ {Main} /\ Pending \subseteq {Main}
  /\ spc = "queue" => /\ have \subseteq Rows /\ left \subseteq listed \ have
                      /\ listed \ have \subseteq left \cup Pending \cup Rows \cup unlinked
                      /\ Rows \ {Main} \subseteq have \cup listed
                      /\ Pending \subseteq {Main} \cup (listed \ have)
  /\ spc = "tear" => /\ left \subseteq Closed
                     /\ listed \subseteq Pending \cup Rows \cup unlinked
                     /\ listed # {} => Rows \ {Main} \subseteq left \cup listed
                     /\ Pending \subseteq {Main} \cup (listed \ have)
  /\ spc = "done" /\ project = "on" /\ listed # {} =>
        /\ listed \subseteq Pending \cup Rows \cup unlinked
        /\ Rows \ {Main} \subseteq listed
        /\ Pending \subseteq {Main} \cup listed
  /\ spc \in {"queue", "tear"} => listed = {} \/ listed = opened \ Forks

IntakeInv == IntakeTyped /\ NoForks /\ NeverPast /\ UnlinkedStaysGone /\ ScanSoFar

\* Rows after a build, and after a teardown.
LEMMA RowsOfBuilt ==
  ASSUME IntakeTyped, NEW r \in Refs, Built(r)
  PROVE  Rows' = Rows \cup {r}
BY DEF Built, Rows, IntakeTyped

\* A teardown takes its row, whether it ends well or fails.
LEMMA RowsOfTearDown ==
  ASSUME IntakeTyped, NEW r \in Refs, TearDown(r)
  PROVE  Rows' = Rows \ {r} /\ asked' = asked \ {r}
BY DEF TearDown, Rows, IntakeTyped

LEMMA RowsStay ==
  ASSUME UNCHANGED outcome
  PROVE  Rows' = Rows
BY DEF Rows

\* Types. A delivery is parsed before it is looked at, so no fork comes through.
LEMMA WorldTyped ==
  ASSUME IntakeTyped, NoForks, WorldStep
  PROVE  IntakeTyped' /\ NoForks'
<1> USE IntakeAssumption
<1>1. opened' \subseteq PRs \cup Forks
  BY DEF WorldStep, PushMain, OpenPR, ClosePR, IntakeTyped
<1>4. \E kind \in {"build", "refresh", "teardown"}, r \in Refs : Announce(kind, r)
  BY DEF WorldStep, PushMain, OpenPR, ClosePR, Refs
<1>5. events' \in 0..MaxEvents /\ calm' = FALSE
  BY <1>4 DEF Announce, Happens, IntakeTyped
<1>6. inbox' \subseteq {"build", "refresh", "teardown"} \X Refs
  BY <1>4 DEF Announce, IntakeTyped
<1>2. UNCHANGED <<project, unlinked, outcome, asked, checked, dropping, scanVars, raced>>
  BY DEF WorldStep, PushMain, OpenPR, ClosePR
<1>3. QED BY <1>1, <1>2, <1>5, <1>6 DEF scanVars, IntakeTyped, NoForks

LEMMA CheckTyped ==
  ASSUME IntakeTyped, NEW r \in PRs \cup {Main}, Check(r) \/ UNCHANGED checked
  PROVE  checked' \subseteq PRs \cup {Main}
BY DEF Check, IntakeTyped

LEMMA TearDownTyped ==
  ASSUME IntakeTyped, NoForks, NEW r \in Refs, TearDown(r) \/ UNCHANGED <<outcome, asked>>
  PROVE  outcome' \in [Refs -> {"none", "ok", "failed"}] /\ asked' \subseteq Refs \ Forks /\ NoForks'
BY DEF TearDown, IntakeTyped, NoForks, Refs

LEMMA HandlerTyped ==
  ASSUME IntakeTyped, NoForks, HandlerStep
  PROVE  IntakeTyped' /\ NoForks'
<1> USE IntakeAssumption
<1>1. UNCHANGED <<opened, events, project, unlinked, dropping, scanVars, raced>>
  BY DEF HandlerStep, Enqueue, Built, Deliver
<1>2. PICK r \in Refs : Enqueue(r) \/ Built(r) \/ \E k \in {"build", "refresh", "teardown"} : Deliver(k, r)
  BY DEF HandlerStep
<1>3. CASE Enqueue(r)
  <2>1. r \in Refs \ Forks
    BY <1>3 DEF Enqueue, IntakeTyped
  <2>2. QED BY <1>1, <1>3, <2>1 DEF Enqueue, scanVars, IntakeTyped, NoForks
<1>4. CASE Built(r)
  <2>1. r \notin Forks /\ UNCHANGED <<inbox, checked, calm>> /\ asked' \subseteq Refs \ Forks
    BY <1>4 DEF Built, IntakeTyped
  <2>2. /\ outcome' \in [Refs -> {"none", "ok", "failed"}]
        /\ \A q \in Refs \ {r} : outcome'[q] = outcome[q]
    BY <1>4 DEF Built, IntakeTyped
  <2>4. NoForks'
    BY <2>1, <2>2 DEF NoForks, Refs
  <2>3. QED BY <1>1, <2>1, <2>2, <2>4 DEF scanVars, IntakeTyped
<1>5. ASSUME NEW k \in {"build", "refresh", "teardown"}, Deliver(k, r) PROVE IntakeTyped' /\ NoForks'
  <2>1. inbox' \subseteq {"build", "refresh", "teardown"} \X Refs /\ calm' = FALSE
    BY <1>5 DEF Deliver, IntakeTyped
  <2>2. TearDown(r) \/ UNCHANGED <<outcome, asked>>
    BY <1>5 DEF Deliver
  <2>3. (Check(r) /\ r \notin Forks) \/ UNCHANGED checked
    BY <1>5 DEF Deliver, Parsed, Rows, NoForks
  <2>4. checked' \subseteq PRs \cup {Main}
    BY <2>3, CheckTyped DEF Refs, IntakeTyped
  <2>5. outcome' \in [Refs -> {"none", "ok", "failed"}] /\ asked' \subseteq Refs \ Forks /\ NoForks'
    BY <2>2, TearDownTyped
  <2>6. QED BY <1>1, <2>1, <2>4, <2>5 DEF scanVars, IntakeTyped
<1>6. QED BY <1>2, <1>3, <1>4, <1>5

LEMMA OperatorTyped ==
  ASSUME IntakeTyped, NoForks, OperatorStep
  PROVE  IntakeTyped' /\ NoForks'
<1> USE IntakeAssumption
<1>1. UNCHANGED <<opened, inbox, scanVars>> /\ calm' = FALSE /\ project' \in {"none", "on", "off"}
  BY DEF OperatorStep, AddProject, Disable, Rebuild, Unlink, UnlinkTearDown, Link, IntakeTyped
<1>6. events' \in 0..MaxEvents
  BY DEF OperatorStep, AddProject, Disable, Rebuild, Unlink, UnlinkTearDown, Link, Happens, IntakeTyped
<1>7. raced' \in BOOLEAN
  <2>1. raced \in BOOLEAN
    BY DEF IntakeTyped
  <2>2. raced' = raced \/ \E r \in Refs : raced' = (raced \/ r \in checked)
    BY DEF OperatorStep, AddProject, Disable, Rebuild, Unlink, UnlinkTearDown, Link
  <2>3. QED BY <2>1, <2>2, Zenon
<1>2. unlinked' \subseteq PRs /\ dropping' \subseteq PRs
  <2>1. CASE \E r \in Refs : Unlink(r)
    BY <2>1 DEF Unlink, Rows, NoForks, Refs, IntakeTyped
  <2>2. CASE ~ \E r \in Refs : Unlink(r)
    BY <2>2 DEF OperatorStep, AddProject, Disable, Rebuild, UnlinkTearDown, Link, IntakeTyped
  <2>3. QED BY <2>1, <2>2
<1>3. checked' \subseteq PRs \cup {Main}
  <2>1. CASE AddProject
    BY <2>1, CheckTyped DEF AddProject
  <2>2. CASE \E r \in Refs : Rebuild(r)
    <3>1. PICK r \in Refs : Rebuild(r)
      BY <2>2
    <3>2. Check(r) /\ r \in PRs \cup {Main}
      BY <3>1 DEF Rebuild, Rows, NoForks, Refs
    <3>3. QED BY <3>2, CheckTyped
  <2>3. CASE \E r \in Refs : Link(r)
    BY <2>3 DEF Link, IntakeTyped
  <2>4. CASE Disable \/ \E r \in Refs : Unlink(r) \/ UnlinkTearDown(r)
    BY <2>4 DEF Disable, Unlink, UnlinkTearDown, IntakeTyped
  <2>5. QED BY <2>1, <2>2, <2>3, <2>4 DEF OperatorStep
<1>4. outcome' \in [Refs -> {"none", "ok", "failed"}] /\ asked' \subseteq Refs \ Forks /\ NoForks'
  <2>1. \E r \in Refs : TearDown(r) \/ UNCHANGED <<outcome, asked>>
    BY DEF OperatorStep, AddProject, Disable, Rebuild, Unlink, UnlinkTearDown, Link, Refs
  <2>2. QED BY <2>1, TearDownTyped
<1>5. QED BY <1>1, <1>2, <1>3, <1>4, <1>6, <1>7 DEF scanVars, IntakeTyped

LEMMA ScanTyped ==
  ASSUME IntakeTyped, NoForks, ScanStep \/ GoDown \/ ComeUp
  PROVE  IntakeTyped' /\ NoForks'
<1> USE IntakeAssumption
<1>1. /\ UNCHANGED <<opened, project, unlinked>> /\ dropping' \subseteq PRs
      /\ inbox' \in {inbox, {}}
      /\ spc' \in {"down", "branch", "snapshot", "list", "queue", "tear", "done"}
  BY DEF ScanStep, ScanBranch, ScanSnapshot, ScanList, ScanQueue, ScanTear, GoDown, ComeUp, IntakeTyped
<1>7. events' \in 0..MaxEvents
  BY DEF ScanStep, ScanBranch, ScanSnapshot, ScanList, ScanQueue, ScanTear, GoDown, ComeUp, Happens, IntakeTyped
<1>8. raced' \in BOOLEAN
  <2>1. raced \in BOOLEAN
    BY DEF IntakeTyped
  <2>2. raced' = raced \/ raced' = (raced \/ dropping # {})
    BY DEF ScanStep, ScanBranch, ScanSnapshot, ScanList, ScanQueue, ScanTear, GoDown, ComeUp
  <2>3. QED BY <2>1, <2>2, Zenon
<1>9. calm' \in BOOLEAN
  <2>1. calm \in BOOLEAN
    BY DEF IntakeTyped
  <2>2. \/ calm' = calm \/ calm' = FALSE
        \/ calm' = (inbox = {} /\ dropping = {} /\ checked \cup asked \subseteq {Main})
    BY DEF ScanStep, ScanBranch, ScanSnapshot, ScanList, ScanQueue, ScanTear, GoDown, ComeUp
  <2>3. QED BY <2>1, <2>2, Zenon
<1>2. have' \subseteq PRs /\ listed' \subseteq PRs
  <2>1. CASE ScanSnapshot
    BY <2>1 DEF ScanSnapshot, Rows, NoForks, Refs, IntakeTyped
  <2>2. CASE ScanList
    BY <2>2 DEF ScanList, IntakeTyped
  <2>3. CASE ScanBranch \/ ScanQueue \/ ScanTear \/ GoDown \/ ComeUp
    BY <2>3 DEF ScanBranch, ScanQueue, ScanTear, GoDown, ComeUp, IntakeTyped
  <2>4. QED BY <2>1, <2>2, <2>3 DEF ScanStep
<1>3. left' \subseteq PRs
  <2>1. CASE ScanList
    BY <2>1 DEF ScanList, Missed, IntakeTyped
  <2>2. CASE ScanQueue
    BY <2>2 DEF ScanQueue, Closed, IntakeTyped
  <2>3. CASE ScanBranch \/ ScanSnapshot \/ ScanTear \/ GoDown \/ ComeUp
    BY <2>3 DEF ScanBranch, ScanSnapshot, ScanTear, GoDown, ComeUp, IntakeTyped
  <2>4. QED BY <2>1, <2>2, <2>3 DEF ScanStep
<1>4. checked' \subseteq PRs \cup {Main}
  <2>1. \/ \E r \in PRs \cup {Main} : Check(r) \/ UNCHANGED checked
        \/ checked' = {}
    BY DEF ScanStep, ScanBranch, ScanSnapshot, ScanList, ScanQueue, ScanTear, GoDown, ComeUp, IntakeTyped
  <2>2. QED BY <2>1, CheckTyped
<1>5. outcome' \in [Refs -> {"none", "ok", "failed"}] /\ asked' \subseteq Refs \ Forks /\ NoForks'
  <2>1. \E r \in Refs : TearDown(r) \/ UNCHANGED <<outcome, asked>>
    BY DEF ScanStep, ScanBranch, ScanSnapshot, ScanList, ScanQueue, ScanTear, GoDown, ComeUp, Refs, IntakeTyped
  <2>2. QED BY <2>1, TearDownTyped
<1>6. QED BY <1>1, <1>2, <1>3, <1>4, <1>5, <1>7, <1>8, <1>9 DEF IntakeTyped

\* What one step can do to the queue, the rows and what is unlinked.
LEMMA GoneKept ==
  ASSUME IntakeTyped, NeverPast, UnlinkedStaysGone, IntakeNext
  PROVE  NeverPast' /\ UnlinkedStaysGone'
<1> SUFFICES ASSUME ~raced' PROVE /\ unlinked' \cap checked' = {}
                                  /\ (unlinked' \ dropping') \cap (asked' \cup checked' \cup Rows') = {}
  BY DEF NeverPast, UnlinkedStaysGone
<1>2. ~raced
  <2>1. CASE \E r \in Refs : Unlink(r)
    BY <2>1, Zenon DEF Unlink
  <2>2. CASE WorldStep \/ HandlerStep \/ ScanStep \/ ComeUp
    <3>1. UNCHANGED raced
      BY <2>2 DEF WorldStep, PushMain, OpenPR, ClosePR, HandlerStep, Enqueue, Built, Deliver, ScanStep, ScanBranch,
         ScanSnapshot, ScanList, ScanQueue, ScanTear, ComeUp
    <3>2. QED BY <3>1, Zenon
  <2>3. CASE AddProject \/ Disable \/ \E r \in Refs : Rebuild(r) \/ UnlinkTearDown(r) \/ Link(r)
    <3>1. UNCHANGED raced
      BY <2>3 DEF AddProject, Disable, Rebuild, UnlinkTearDown, Link
    <3>2. QED BY <3>1, Zenon
  <2>4. CASE GoDown
    BY <2>4, Zenon DEF GoDown
  <2>5. QED BY <2>1, <2>2, <2>3, <2>4, Zenon DEF IntakeNext, OperatorStep
<1>3. unlinked \cap checked = {} /\ (unlinked \ dropping) \cap (asked \cup checked \cup Rows) = {}
  BY <1>2 DEF NeverPast, UnlinkedStaysGone
<1>4. CASE WorldStep \/ AddProject \/ Disable \/ ScanStep \/ GoDown \/ ComeUp
  <2>1. UNCHANGED unlinked /\ (dropping' = dropping \/ dropping = {})
    <3>1. CASE GoDown
      <4>1. dropping = {}
        BY <3>1, Zenon DEF GoDown
      <4>2. QED BY <3>1, <4>1 DEF GoDown
    <3>2. CASE ~GoDown
      BY <1>4, <3>2 DEF WorldStep, PushMain, OpenPR, ClosePR, AddProject, Disable, ScanStep, ScanBranch,
         ScanSnapshot, ScanList, ScanQueue, ScanTear, ComeUp
    <3>3. QED BY <3>1, <3>2
  <2>2. (\E r \in Refs : Check(r)) \/ checked' \subseteq checked
    BY <1>4, IntakeAssumption DEF WorldStep, PushMain, OpenPR, ClosePR, AddProject, Disable, ScanStep, ScanBranch,
       ScanSnapshot, ScanList, ScanQueue, ScanTear, GoDown, ComeUp, Refs, IntakeTyped
  <2>3. (\E r \in Refs : TearDown(r)) \/ UNCHANGED <<outcome, asked>>
    BY <1>4 DEF WorldStep, PushMain, OpenPR, ClosePR, AddProject, Disable, ScanStep, ScanBranch, ScanSnapshot,
       ScanList, ScanQueue, ScanTear, GoDown, ComeUp, Refs, IntakeTyped
  <2>4. Rows' \subseteq Rows /\ asked' \subseteq asked
    BY <2>3, RowsOfTearDown, RowsStay
  <2>5. unlinked \cap checked' = {}
    BY <1>3, <2>2 DEF Check
  <2>6. QED BY <1>3, <2>1, <2>4, <2>5
<1>5. CASE HandlerStep
  <2>1. UNCHANGED <<unlinked, dropping>>
    BY <1>5 DEF HandlerStep, Enqueue, Built, Deliver
  <2>2. PICK r \in Refs : Enqueue(r) \/ Built(r) \/ \E k \in {"build", "refresh", "teardown"} : Deliver(k, r)
    BY <1>5 DEF HandlerStep
  <2>3. CASE Enqueue(r)
    <3>1. r \in checked /\ checked' = checked \ {r} /\ asked' = asked \cup {r} /\ Rows' = Rows
      BY <2>3, RowsStay DEF Enqueue
    <3>2. QED BY <1>3, <2>1, <3>1
  <2>4. CASE Built(r)
    <3>1. r \in asked /\ asked' = asked \ {r} /\ checked' = checked /\ Rows' = Rows \cup {r}
      BY <2>4, RowsOfBuilt DEF Built
    <3>2. QED BY <1>3, <2>1, <3>1
  <2>5. CASE \E k \in {"build", "refresh", "teardown"} : Deliver(k, r)
    <3>1. (TearDown(r) \/ UNCHANGED <<outcome, asked>>) /\ (Check(r) \/ UNCHANGED checked)
      BY <2>5 DEF Deliver
    <3>2. Rows' \subseteq Rows /\ asked' \subseteq asked
      BY <3>1, RowsOfTearDown, RowsStay
    <3>3. unlinked \cap checked' = {}
      BY <1>3, <3>1 DEF Check
    <3>4. QED BY <1>3, <2>1, <3>2, <3>3
  <2>6. QED BY <2>2, <2>3, <2>4, <2>5
<1>6. CASE \E r \in Refs : Rebuild(r) \/ Unlink(r) \/ UnlinkTearDown(r) \/ Link(r)
  <2>1. PICK r \in Refs : Rebuild(r) \/ Unlink(r) \/ UnlinkTearDown(r) \/ Link(r)
    BY <1>6
  <2>2. CASE Rebuild(r)
    <3>1. UNCHANGED <<unlinked, dropping, asked>> /\ Rows' = Rows /\ unlinked \cap checked' = {}
      BY <1>3, <2>2, RowsStay DEF Rebuild, Check
    <3>2. QED BY <1>3, <3>1
  <2>3. CASE Unlink(r)
    <3>1. /\ unlinked' = unlinked \cup {r} /\ dropping' = dropping \cup {r}
          /\ UNCHANGED <<asked, checked>> /\ Rows' = Rows
      BY <2>3, RowsStay DEF Unlink
    <3>2. r \notin checked
      BY <2>3 DEF Unlink
    <3>3. QED BY <1>3, <3>1, <3>2
  <2>4. CASE UnlinkTearDown(r)
    <3>1. /\ dropping' = dropping \ {r} /\ UNCHANGED <<unlinked, checked>>
          /\ Rows' = Rows \ {r} /\ asked' = asked \ {r}
      BY <2>4, RowsOfTearDown DEF UnlinkTearDown
    <3>2. QED BY <1>3, <3>1
  <2>5. CASE Link(r)
    <3>1. /\ unlinked' = unlinked \ {r} /\ checked' = checked \cup {r}
          /\ UNCHANGED <<dropping, asked>> /\ Rows' = Rows
      BY <2>5, RowsStay DEF Link
    <3>2. QED BY <1>3, <3>1
  <2>6. QED BY <2>1, <2>2, <2>3, <2>4, <2>5
<1>7. QED BY <1>4, <1>5, <1>6 DEF IntakeNext, OperatorStep

\* A step of anybody else, but for what was asked for before, ends the calm.
LEMMA CalmEnds ==
  ASSUME WorldStep \/ OperatorStep \/ \E r \in Refs, k \in {"build", "refresh", "teardown"} : Deliver(k, r)
  PROVE  calm' = FALSE
BY DEF WorldStep, PushMain, OpenPR, ClosePR, Announce, OperatorStep, AddProject, Disable, Rebuild, Unlink,
   UnlinkTearDown, Link, Deliver

\* How far the scan is, through builds that end and its own steps.
LEMMA ScanKept ==
  ASSUME IntakeTyped, ScanSoFar, IntakeNext
  PROVE  ScanSoFar'
<1> USE IntakeAssumption
<1>1. CASE WorldStep \/ OperatorStep \/ \E r \in Refs, k \in {"build", "refresh", "teardown"} : Deliver(k, r)
  BY <1>1, CalmEnds DEF ScanSoFar
<1>2. CASE \E r \in Refs : Enqueue(r) \/ Built(r)
  <2>1. PICK r \in Refs : Enqueue(r) \/ Built(r)
    BY <1>2
  <2>2. UNCHANGED <<opened, project, unlinked, spc, have, listed, left, calm>> /\ Closed' = Closed
    BY <2>1 DEF Enqueue, Built, scanVars, Closed
  <2>3. /\ Rows \subseteq Rows' /\ Rows' \subseteq Rows \cup {r} /\ r \in Pending
        /\ Pending' \subseteq Pending /\ Pending \subseteq Pending' \cup Rows'
        /\ (r \in Pending' \/ r \in Rows')
    <3>1. CASE Enqueue(r)
      BY <3>1, RowsStay DEF Enqueue, Pending
    <3>2. CASE Built(r)
      BY <3>2, RowsOfBuilt DEF Built, Pending
    <3>3. QED BY <2>1, <3>1, <3>2
  <2>4. QED BY <2>2, <2>3 DEF ScanSoFar, IntakeTyped
<1>3. CASE GoDown \/ ComeUp \/ ScanBranch
  BY <1>3 DEF ScanSoFar, GoDown, ComeUp, ScanBranch
<1>4. CASE ScanSnapshot
  <2>1. /\ spc' = IF project = "on" THEN "list" ELSE "done"
        /\ have' = Rows \ {Main} /\ (calm' => checked \cup asked \subseteq {Main})
        /\ UNCHANGED <<project, asked, checked>> /\ Rows' = Rows
    BY <1>4, RowsStay DEF ScanSnapshot
  <2>2. CASE project = "on"
    BY <2>1, <2>2 DEF ScanSoFar, Pending
  <2>3. CASE project # "on"
    <3>1. spc' = "done" /\ project' # "on"
      BY <2>1, <2>3
    <3>2. QED BY <3>1 DEF ScanSoFar
  <2>4. QED BY <2>2, <2>3
<1>5. CASE ScanList
  <2>1. UNCHANGED <<opened, project, unlinked, asked, checked, have>> /\ Rows' = Rows /\ spc = "list"
    BY <1>5, RowsStay DEF ScanList
  <2>2. CASE spc' = "done" /\ calm' = FALSE
    BY <2>2 DEF ScanSoFar
  <2>3. CASE \E open \in {opened \ Forks, {}} :
               spc' = "queue" /\ listed' = open /\ left' = Missed(open) /\ UNCHANGED calm
    <3>1. /\ spc' = "queue" /\ left' = listed' \ have /\ UNCHANGED calm
          /\ listed' = {} \/ listed' = opened \ Forks
      BY <2>3 DEF Missed
    <3>2. QED BY <2>1, <3>1 DEF ScanSoFar, Pending
  <2>4. QED BY <1>5, <2>2, <2>3 DEF ScanList
<1>6. CASE ScanQueue
  <2>1. /\ UNCHANGED <<opened, project, unlinked, asked, have, listed, calm>> /\ Rows' = Rows
        /\ spc = "queue" /\ Closed' = Closed
    BY <1>6, RowsStay DEF ScanQueue, Closed
  <2>2. CASE left # {}
    <3>1. PICK r \in left : Check(r) /\ left' = left \ {r} /\ UNCHANGED spc
      BY <1>6, <2>2 DEF ScanQueue
    <3>2. Pending \subseteq Pending' /\ Pending' \subseteq Pending \cup {r} /\ (r \in Pending' \/ r \in unlinked)
      BY <2>1, <3>1 DEF Pending, Check
    <3>3. QED BY <2>1, <3>1, <3>2 DEF ScanSoFar
  <2>3. CASE left = {}
    <3>1. left' = Closed /\ spc' = "tear" /\ Pending' = Pending
      BY <1>6, <2>1, <2>3 DEF ScanQueue, Pending
    <3>2. listed # {} => Closed = have \ listed
      BY DEF Closed
    <3>3. QED BY <2>1, <2>3, <3>1, <3>2 DEF ScanSoFar
  <2>4. QED BY <2>2, <2>3
<1>7. CASE ScanTear
  <2>1. /\ UNCHANGED <<opened, project, unlinked, checked, have, listed, calm>>
        /\ spc = "tear" /\ Closed' = Closed /\ Closed \subseteq have \ listed
    BY <1>7 DEF ScanTear, Closed
  <2>2. CASE left # {}
    <3>1. PICK r \in left : TearDown(r) /\ left' = left \ {r} /\ UNCHANGED spc
      BY <1>7, <2>2 DEF ScanTear
    <3>2. Rows' = Rows \ {r} /\ Pending' \subseteq Pending /\ Pending \subseteq Pending' \cup {r}
      BY <2>1, <3>1, RowsOfTearDown DEF Pending, Refs, IntakeTyped
    <3>3. calm => r \notin listed
      BY <2>1, <3>1 DEF ScanSoFar
    <3>4. QED BY <2>1, <3>1, <3>2, <3>3 DEF ScanSoFar
  <2>3. CASE left = {}
    <3>1. spc' = "done" /\ Pending' = Pending /\ Rows' = Rows
      BY <1>7, <2>1, <2>3, RowsStay DEF ScanTear, Pending
    <3>2. QED BY <2>1, <2>3, <3>1 DEF ScanSoFar
  <2>4. QED BY <2>2, <2>3
<1>8. QED BY <1>1, <1>2, <1>3, <1>4, <1>5, <1>6, <1>7 DEF IntakeNext, HandlerStep, ScanStep

\* The invariant holds of a new daemon, ...
LEMMA IntakeBegins == IntakeInit => IntakeInv
<1> SUFFICES ASSUME IntakeInit PROVE IntakeInv
  OBVIOUS
<1>1. NoForks /\ Rows = {}
  BY DEF IntakeInit, NoForks, Refs, Rows
<1>2. NeverPast /\ UnlinkedStaysGone /\ ScanSoFar
  BY DEF IntakeInit, NeverPast, UnlinkedStaysGone, ScanSoFar
<1>3. IntakeTyped
  <2>1. events \in 0..MaxEvents /\ project \in {"none", "on", "off"} /\ spc = "branch"
    BY IntakeAssumption DEF IntakeInit
  <2>2. outcome \in [Refs -> {"none", "ok", "failed"}] /\ opened = {} /\ asked = {} /\ unlinked = {} /\ dropping = {}
    BY DEF IntakeInit
  <2>3. have = {} /\ listed = {} /\ left = {} /\ inbox = {} /\ checked = {}
    BY DEF IntakeInit
  <2>4. calm \in BOOLEAN /\ raced \in BOOLEAN
    BY Zenon DEF IntakeInit
  <2>5. QED BY <2>1, <2>2, <2>3, <2>4 DEF IntakeTyped
<1>4. QED BY <1>1, <1>2, <1>3 DEF IntakeInv

\* ... and every step keeps it.
LEMMA IntakeGoesOn == IntakeInv /\ [IntakeNext]_intakeVars => IntakeInv'
<1> SUFFICES ASSUME IntakeInv, [IntakeNext]_intakeVars PROVE IntakeInv'
  OBVIOUS
<1>1. CASE IntakeNext
  <2>1. IntakeTyped /\ NoForks /\ NeverPast /\ UnlinkedStaysGone /\ ScanSoFar
    BY DEF IntakeInv
  <2>2. IntakeTyped' /\ NoForks'
    BY <1>1, <2>1, WorldTyped, HandlerTyped, OperatorTyped, ScanTyped DEF IntakeNext
  <2>3. NeverPast' /\ UnlinkedStaysGone'
    BY <1>1, <2>1, GoneKept
  <2>4. ScanSoFar'
    BY <1>1, <2>1, ScanKept
  <2>5. QED BY <2>2, <2>3, <2>4 DEF IntakeInv
<1>2. CASE UNCHANGED intakeVars
  BY <1>2 DEF intakeVars, scanVars, IntakeInv, IntakeTyped, NoForks, NeverPast, UnlinkedStaysGone, ScanSoFar, Rows,
     Pending, Closed
<1>3. QED BY <1>1, <1>2

\* The inductive invariant holds of every state: the types, no row for a fork, no build of
\* an unlinked pull request past the check, and what the scan has done so far.
THEOREM IntakeInvariant == IntakeSpec => []IntakeInv
BY IntakeBegins, IntakeGoesOn, PTL DEF IntakeSpec

\* Every variable of the intake has its type (IntakeTypeOK): only a pull request of the
\* repository itself is ever asked for.
THEOREM IntakeTypeCorrect == IntakeSpec => []IntakeTypeOK
<1>1. IntakeInv => IntakeTypeOK
  BY IntakeTypes DEF IntakeInv
<1>2. QED BY <1>1, IntakeInvariant, PTL

\* An unlinked pull request has no preview, no build and no request for one
\* (UnlinkedStaysGone), however deliveries, the scan and rebuilds interleave with it.
THEOREM UnlinkHolds == IntakeSpec => []UnlinkedStaysGone
<1>1. IntakeInv => UnlinkedStaysGone
  BY DEF IntakeInv
<1>2. QED BY <1>1, IntakeInvariant, PTL

\* A scan that is through has made up for what was missed (ScanRepairs): every open pull
\* request has its preview and no closed one has.
THEOREM ScanMakesUp == IntakeSpec => []ScanRepairs
<1>1. IntakeInv => ScanRepairs
  <2> SUFFICES ASSUME ScanSoFar, spc = "done" /\ calm /\ project = "on" /\ listed # {} /\ checked \cup asked = {}
               PROVE  listed \ unlinked \subseteq Rows /\ Rows \ {Main} \subseteq listed
    BY DEF IntakeInv, ScanRepairs
  <2>1. QED BY DEF ScanSoFar, Pending
<1>2. QED BY <1>1, IntakeInvariant, PTL

\* No step of the scan takes the preview of an open pull request (ScanSparesOpen).
THEOREM ScanSpares == IntakeSpec => ScanSparesOpen
<1>1. IntakeInv /\ [IntakeNext]_intakeVars
        => [ScanTear /\ calm => \A r \in Rows \cap opened : outcome'[r] # "none"]_intakeVars
  <2> SUFFICES ASSUME IntakeInv, ScanTear, calm, NEW r \in Rows \cap opened
               PROVE  outcome'[r] # "none"
    OBVIOUS
  <2>1. IntakeTyped /\ NoForks /\ ScanSoFar
    BY DEF IntakeInv
  <2>2. r \in Refs /\ outcome[r] # "none" /\ r \notin Forks
    BY <2>1 DEF Rows, NoForks
  <2>3. CASE left = {}
    BY <2>2, <2>3 DEF ScanTear
  <2>4. CASE left # {}
    <3>1. PICK q \in left : TearDown(q)
      BY <2>4 DEF ScanTear
    <3>2. left \subseteq Closed /\ (listed = {} \/ listed = opened \ Forks)
      BY <2>1 DEF ScanTear, ScanSoFar
    <3>3. r # q
      BY <2>2, <3>1, <3>2 DEF Closed
    <3>4. QED BY <2>1, <2>2, <3>1, <3>3 DEF TearDown, IntakeTyped
  <2>5. QED BY <2>3, <2>4
<1>2. QED BY <1>1, IntakeInvariant, PTL DEF IntakeSpec, ScanSparesOpen
===============================================================================
