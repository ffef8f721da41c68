------------------------------- MODULE Comment -------------------------------
(***************************************************************************)
(* The GitHub client's one comment per pull request: upsertComment and     *)
(* Retract over a remembered id, a marker search on a listing that lags,   *)
(* restarts, and people who delete comments. Calls for different previews  *)
(* share nothing, so one preview is the whole state.                       *)
(***************************************************************************)
EXTENDS Naturals, Sequences

CONSTANTS
  Posters,  (* goroutines in Client.Publish: flushes of the debouncer        *)
  Overlap,  (* whether two calls for the preview may be under way at once    *)
  MaxPosts  (* bound: comments posted                                        *)

ASSUME CommentAssumption == Overlap \in BOOLEAN /\ MaxPosts \in Nat

VARIABLES
  comments, \* the platform's comments with our marker, in order of posting
  known,    \* c.comments[preview], 0 when the map has no entry
  wpc, wid, \* Publish: step, comment
  rpc, rid  \* Retract: step, comment

commentVars == <<comments, known, wpc, wid, rpc, rid>>

CommentInit ==
  /\ comments = <<>>
  /\ known = 0
  /\ wpc = [w \in Posters |-> "idle"]
  /\ wid = [w \in Posters |-> 0]
  /\ rpc = "idle" /\ rid = 0

There == {i \in DOMAIN comments : comments[i].there}
\* A comment that was just posted can be missing from the listing.
Listed == {i \in There : comments[i].listed}

NobodyCalls == rpc = "idle" /\ \A w \in Posters : wpc[w] = "idle"
To(w, pc, id) == wpc' = [wpc EXCEPT ![w] = pc] /\ wid' = [wid EXCEPT ![w] = id]

-----------------------------------------------------------------------------
(* Publish. *)

\* Mutant: the map is read and the absence of an entry not noticed.
PublishTrusts(w) ==
  /\ wpc[w] = "idle"
  /\ Overlap \/ NobodyCalls
  /\ To(w, "patch", known)
  /\ UNCHANGED <<comments, known, rpc, rid>>

\* The remembered comment is edited; without one the marker is searched for.
Publish(w) ==
  /\ wpc[w] = "idle"
  /\ Overlap \/ NobodyCalls
  /\ To(w, IF known = 0 THEN "search" ELSE "patch", known)
  /\ UNCHANGED <<comments, known, rpc, rid>>

\* findComment: the first comment with the marker, remembered.
Search(w) ==
  /\ wpc[w] = "search"
  /\ \/ \E i \in There : known' = i /\ To(w, "patch", i)
     \/ Listed = {} /\ To(w, "post", 0) /\ UNCHANGED known
  /\ UNCHANGED <<comments, rpc, rid>>

\* A comment that is gone answers 404: forget it and post a new one.
Patch(w) ==
  /\ wpc[w] = "patch"
  /\ IF wid[w] \in There
     THEN To(w, "idle", 0) /\ UNCHANGED known
     ELSE To(w, "post", 0) /\ known' = 0
  /\ UNCHANGED <<comments, rpc, rid>>

\* createComment: the POST ...
Post(w) ==
  /\ wpc[w] = "post"
  /\ Len(comments) < MaxPosts
  /\ comments' = Append(comments, [there |-> TRUE, listed |-> FALSE])
  /\ To(w, "remember", Len(comments) + 1)
  /\ UNCHANGED <<known, rpc, rid>>

\* Mutant: the id in the answer is not kept.
ForgetsId(w) ==
  /\ wpc[w] = "remember"
  /\ To(w, "idle", 0)
  /\ UNCHANGED <<comments, known, rpc, rid>>

\* ... and its answer.
Remember(w) ==
  /\ wpc[w] = "remember"
  /\ known' = wid[w]
  /\ To(w, "idle", 0)
  /\ UNCHANGED <<comments, rpc, rid>>

\* A request is refused: the report is lost, and the call over.
Refused(w) ==
  /\ wpc[w] \in {"search", "patch", "post"}
  /\ To(w, "idle", 0)
  /\ UNCHANGED <<comments, known, rpc, rid>>

-----------------------------------------------------------------------------
(* Retract. *)

RetractComment ==
  /\ rpc = "idle"
  /\ Overlap \/ NobodyCalls
  /\ \/ known # 0 /\ rpc' = "delete" /\ rid' = known
     \/ known = 0 /\ \E i \in There : rpc' = "delete" /\ rid' = i
     \/ known = 0 /\ Listed = {} /\ rpc' = "forget" /\ rid' = 0
  /\ UNCHANGED <<comments, known, wpc, wid>>

\* Already gone is the outcome this wanted.
Delete ==
  /\ rpc = "delete"
  /\ comments' = [comments EXCEPT ![rid].there = FALSE]
  /\ rpc' = "forget"
  /\ UNCHANGED <<known, wpc, wid, rid>>

\* The DELETE is refused, its retries over and the listing caught up meanwhile: an
\* error, with the id forgotten all the same.
RetractRefused ==
  /\ rpc = "delete"
  /\ There = Listed
  /\ known' = 0
  /\ rpc' = "idle" /\ rid' = 0
  /\ UNCHANGED <<comments, wpc, wid>>

\* The deferred forgetComment.
Forget ==
  /\ rpc = "forget"
  /\ known' = 0
  /\ rpc' = "idle" /\ rid' = 0
  /\ UNCHANGED <<comments, wpc, wid>>

-----------------------------------------------------------------------------
(* The platform and the process. *)

\* The listing catches up.
CatchUp(i) ==
  /\ ~comments[i].listed
  /\ comments' = [comments EXCEPT ![i].listed = TRUE]
  /\ UNCHANGED <<known, wpc, wid, rpc, rid>>

\* Somebody deletes the comment.
DeletedByHand(i) ==
  /\ comments[i].there
  /\ comments' = [comments EXCEPT ![i].there = FALSE]
  /\ UNCHANGED <<known, wpc, wid, rpc, rid>>

\* The daemon restarts: the map is gone, and the calls with it. A restart takes
\* longer than the listing lags.
Restart ==
  /\ There = Listed
  /\ known' = 0
  /\ wpc' = [w \in Posters |-> "idle"] /\ wid' = [w \in Posters |-> 0]
  /\ rpc' = "idle" /\ rid' = 0
  /\ UNCHANGED comments

-----------------------------------------------------------------------------
CommentNext ==
  \/ \E w \in Posters : \/ Publish(w) \/ Search(w) \/ Patch(w) \/ Post(w)
                        \/ Remember(w) \/ Refused(w)
  \/ RetractComment \/ Delete \/ RetractRefused \/ Forget
  \/ \E i \in DOMAIN comments : CatchUp(i) \/ DeletedByHand(i)
  \/ Restart

CommentSpec == CommentInit /\ [][CommentNext]_commentVars

-----------------------------------------------------------------------------
\* Every variable has its type, and no id is used that was not posted.
CommentTypeOK ==
  /\ comments \in Seq([there : BOOLEAN, listed : BOOLEAN])
  /\ known \in 0..Len(comments)
  /\ wpc \in [Posters -> {"idle", "search", "patch", "post", "remember"}]
  /\ wid \in [Posters -> 0..Len(comments)]
  /\ \A w \in Posters : wpc[w] = "patch" => wid[w] # 0
  /\ rpc \in {"idle", "delete", "forget"}
  /\ rid \in 0..Len(comments)
  /\ rpc = "delete" => rid # 0

\* One comment per pull request, matched by marker: neither the listing's lag, a
\* restart, a deleted comment nor a failed request leads to a second one.
OneComment == \A i, j \in There : i = j
=============================================================================
