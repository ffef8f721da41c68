------------------------------- MODULE Platform -------------------------------
(* The requests of a platform's client: Publish (comment, then check run or      *)
(* build status), Retract and ChangedFiles, over a transport that repeats some   *)
(* of what fails (scm/github, scm/bitbucket). A request that fails may have had  *)
(* its effect all the same. Comment has the calls that overlap and the listing   *)
(* that lags; here calls come one at a time and a listing is current.            *)
EXTENDS Naturals, Sequences, FiniteSets

CONSTANTS
  Heads,      (* commits reported on                                  *)
  MaxCalls,   (* calls of the client (bound)                          *)
  MaxTroubles,  (* failures of the network, the platform, a token (bound) *)
  MaxPages    (* pages a listing of changed files can have (bound)    *)

ASSUME PlatformAssumption == MaxCalls \in Nat /\ MaxTroubles \in Nat /\ MaxPages \in Nat

VARIABLES
  client,  \* which of the two
  notes,   \* the platform's comments with our marker: whether each is there
  checks,  \* check runs or build statuses, in order of their making
  knownId, \* c.comments[preview], 0 when the map has no entry
  token,   \* GitHub: the cached installation token
  creds,   \* Bitbucket: where a credential is stored
  ask,     \* the call under way and its request
  verdict, \* what the changed files decided
  calls, troubles

platVars == <<client, notes, checks, knownId, token, creds, ask, verdict, calls, troubles>>
serverVars == <<notes, checks>>

States == {"queued", "building", "ready", "failed", "skipped"}
Attempts == 3
PageLimit == 2 \* maxChangedFilePages, 30 in the code

Quiescent == [at |-> "idle", state |-> "none", head |-> "none", id |-> 0, try |-> 1, fresh |-> FALSE,
              page |-> 0, pages |-> 0, docs |-> 0]

PlatformInit ==
  /\ client \in {"github", "bitbucket"}
  /\ notes = <<>> /\ checks = <<>> /\ knownId = 0 /\ token = "none"
  /\ creds \in IF client = "github" THEN {{}} ELSE {{"project"}, {"global"}}
  /\ ask = Quiescent /\ verdict = "none" /\ calls = 0 /\ troubles = 0

Fault == troubles < MaxTroubles /\ troubles' = troubles + 1
NotesThere == {i \in DOMAIN notes : notes[i]}
\* findComment skips what Bitbucket lists after its deletion.
Found == IF NotesThere = {} THEN 0 ELSE CHOOSE i \in NotesThere : \A j \in NotesThere : i <= j
RunsOf(c) == {i \in DOMAIN checks : checks[i].head = c}
\* The next request of the call, its attempts counted anew; the last one ends it.
Proceeds(at, id) == ask' = [ask EXCEPT !.at = at, !.id = id, !.try = 1, !.fresh = FALSE]
EndsCall == ask' = Quiescent

------------------------------------------------------------------------------
(* The calls. *)

\* checkStatus and checkConclusion, buildStatus. Bitbucket has no queued state.
Shown(s) ==
  IF client = "bitbucket" /\ s = "queued" THEN "building" ELSE s

\* upsertComment: the remembered comment, or the marker search.
PublishReport(s, c) ==
  /\ ask.at = "idle" /\ calls < MaxCalls /\ calls' = calls + 1
  /\ ask' = [Quiescent EXCEPT !.at = IF knownId = 0 THEN "search" ELSE "edit", !.id = knownId,
                              !.state = s, !.head = c]
  /\ UNCHANGED <<client, serverVars, knownId, token, creds, verdict, troubles>>

RetractReport ==
  /\ ask.at = "idle" /\ calls < MaxCalls /\ calls' = calls + 1
  /\ ask' = [Quiescent EXCEPT !.at = IF knownId = 0 THEN "search-delete" ELSE "delete", !.id = knownId]
  /\ UNCHANGED <<client, serverVars, knownId, token, creds, verdict, troubles>>

\* A file that matters is on page docs, or nowhere (0).
ListFiles(p, d) ==
  /\ ask.at = "idle" /\ calls < MaxCalls /\ calls' = calls + 1 /\ d <= p
  /\ ask' = [Quiescent EXCEPT !.at = "files", !.page = 1, !.pages = p, !.docs = d]
  /\ UNCHANGED <<client, serverVars, knownId, token, creds, verdict, troubles>>

\* postBuildStatus needs a URL, which only a published preview has; both need the commit.
AfterComment ==
  IF client = "github" THEN Proceeds("find-run", 0)
  ELSE IF ask.state = "ready" THEN Proceeds("status", 0) ELSE EndsCall

------------------------------------------------------------------------------
(* What a request does at the platform, and what its answer does here. *)

Gone == ask.at \in {"edit", "delete"} /\ ~notes[ask.id]
CheckRun == [head |-> ask.head, state |-> Shown(ask.state)]

Takes ==
  \/ /\ ask.at = "create" /\ notes' = Append(notes, TRUE) /\ UNCHANGED checks
  \/ /\ ask.at = "delete" /\ notes' = [notes EXCEPT ![ask.id] = FALSE] /\ UNCHANGED checks
  \/ /\ ask.at = "create-run" \/ (ask.at = "status" /\ RunsOf(ask.head) = {})
     /\ checks' = Append(checks, CheckRun) /\ UNCHANGED notes
  \/ /\ ask.at = "status" /\ \E i \in RunsOf(ask.head) : checks' = [checks EXCEPT ![i] = CheckRun]
     /\ UNCHANGED notes
  \/ /\ ask.at = "update-run" /\ checks' = [checks EXCEPT ![ask.id] = CheckRun] /\ UNCHANGED notes
  \/ /\ ask.at \in {"search", "search-delete", "edit", "find-run", "files"} /\ UNCHANGED serverVars

Authorised == client = "bitbucket" \/ token = "good"

\* The answer moves the call on.
Succeeds ==
  /\ ask.at # "idle" /\ ~Gone /\ Authorised /\ ask.at # "files" /\ Takes
  /\ \/ /\ ask.at = "search" /\ knownId' = Found
        /\ Proceeds(IF Found = 0 THEN "create" ELSE "edit", Found)
     \/ /\ ask.at = "create" /\ knownId' = Len(notes') /\ AfterComment
     \/ /\ ask.at = "edit" /\ AfterComment /\ UNCHANGED knownId
     \/ /\ ask.at = "find-run" /\ UNCHANGED knownId
        /\ \/ RunsOf(ask.head) = {} /\ Proceeds("create-run", 0)
           \/ \E i \in RunsOf(ask.head) : Proceeds("update-run", i)
     \/ /\ ask.at \in {"create-run", "update-run", "status"} /\ EndsCall /\ UNCHANGED knownId
     \/ /\ ask.at = "search-delete" /\ UNCHANGED knownId
        /\ IF Found = 0 THEN EndsCall ELSE Proceeds("delete", Found)
     \/ /\ ask.at = "delete" /\ EndsCall /\ knownId' = 0
  /\ UNCHANGED <<client, token, creds, verdict, calls, troubles>>

\* A page of changed files. The walk ends at the last page, at the page limit, or at a next
\* link that leaves the host; what was collected decides.
NextPage ==
  /\ ask.at = "files" /\ Authorised
  /\ LET last == ask.page = ask.pages \/ ask.page = PageLimit
     IN \/ /\ ~last /\ ask' = [ask EXCEPT !.page = @ + 1, !.try = 1, !.fresh = FALSE] /\ UNCHANGED verdict
        \/ /\ last \/ client = "bitbucket"
           /\ EndsCall
           /\ verdict' = IF ask.docs \in 1..ask.page THEN "build" ELSE "skip"
  /\ UNCHANGED <<client, serverVars, knownId, token, creds, calls, troubles>>

\* The comment was deleted: a new one, which Bitbucket searches for once more.
NotFound ==
  /\ Gone /\ Authorised /\ knownId' = 0
  /\ IF ask.at = "delete" THEN EndsCall
     ELSE Proceeds(IF client = "github" THEN "create" ELSE "search", 0)
  /\ UNCHANGED <<client, serverVars, token, creds, verdict, calls, troubles>>

------------------------------------------------------------------------------
(* do: what fails, and what is tried again. *)

\* A report whose comment was written keeps it; GitHub forgets the id it meant to retract.
CallFails ==
  /\ EndsCall
  /\ knownId' = IF client = "github" /\ ask.at \in {"delete", "search-delete"} THEN 0 ELSE knownId
Repeats == ask' = [ask EXCEPT !.try = @ + 1] /\ UNCHANGED knownId

\* A rate limit is refused before anything is done.
RateLimited ==
  /\ ask.at # "idle" /\ Fault
  /\ IF ask.try < Attempts THEN Repeats ELSE CallFails
  /\ UNCHANGED <<client, serverVars, token, creds, verdict, calls>>

\* Mutant: every 5xx is tried again.
RepeatsAll5xx == ask.try < Attempts

\* A 5xx is tried again by the Bitbucket client only.
Repeats5xx == client = "bitbucket" /\ ask.try < Attempts

\* A 5xx may have had its effect.
ServerError ==
  /\ ask.at # "idle" /\ Fault
  /\ \/ Authorised /\ Takes
     \/ UNCHANGED serverVars
  /\ IF Repeats5xx THEN Repeats ELSE CallFails
  /\ UNCHANGED <<client, token, creds, verdict, calls>>

\* So may one whose connection broke, which nobody repeats.
Broken ==
  /\ ask.at # "idle" /\ Fault
  /\ \/ Authorised /\ Takes
     \/ UNCHANGED serverVars
  /\ CallFails
  /\ UNCHANGED <<client, token, creds, verdict, calls>>

\* A token, a scope or a repository that is not accepted.
Declined ==
  /\ ask.at # "idle" /\ Fault /\ CallFails
  /\ UNCHANGED <<client, serverVars, token, creds, verdict, calls>>

\* A dead token answers 401: once, a fresh one is made.
Unauthorized ==
  /\ ask.at # "idle" /\ client = "github" /\ token = "dead"
  /\ IF ask.fresh THEN CallFails /\ UNCHANGED token
     ELSE /\ ask' = [ask EXCEPT !.fresh = TRUE, !.try = @ + 1] /\ token' = "none" /\ UNCHANGED knownId
  /\ UNCHANGED <<client, serverVars, creds, verdict, calls, troubles>>

\* installationToken.
Mint ==
  /\ ask.at # "idle" /\ client = "github" /\ token = "none" /\ token' = "good"
  /\ UNCHANGED <<client, serverVars, knownId, creds, ask, verdict, calls, troubles>>

\* credentialFor, before the first attempt: a repository with none, nor the workspace.
NoCredential ==
  /\ ask.at # "idle" /\ client = "bitbucket" /\ creds = {} /\ ask.try = 1 /\ CallFails
  /\ UNCHANGED <<client, serverVars, token, creds, verdict, calls, troubles>>

------------------------------------------------------------------------------
(* Around the client. *)

\* Permissions changed, a reinstall: the cache cannot know.
TokenDies ==
  /\ token = "good" /\ Fault /\ token' = "dead"
  /\ UNCHANGED <<client, serverVars, knownId, creds, ask, verdict, calls>>

CredentialChanges ==
  /\ client = "bitbucket" /\ Fault /\ creds' \in SUBSET {"project", "global"} \ {creds}
  /\ UNCHANGED <<client, serverVars, knownId, token, ask, verdict, calls>>

NoteDeleted(i) ==
  /\ notes[i] /\ Fault /\ notes' = [notes EXCEPT ![i] = FALSE]
  /\ UNCHANGED <<client, checks, knownId, token, creds, ask, verdict, calls>>

ClientRestarts ==
  /\ Fault /\ knownId' = 0 /\ token' = "none" /\ ask' = Quiescent
  /\ UNCHANGED <<client, serverVars, creds, verdict, calls>>

------------------------------------------------------------------------------
PlatformNext ==
  \/ \E s \in States, c \in Heads : PublishReport(s, c)
  \/ RetractReport
  \/ \E p \in 1..MaxPages, d \in 0..MaxPages : ListFiles(p, d)
  \/ Succeeds \/ NextPage \/ NotFound
  \/ RateLimited \/ ServerError \/ Broken \/ Declined \/ Unauthorized \/ Mint \/ NoCredential
  \/ TokenDies \/ CredentialChanges \/ ClientRestarts
  \/ \E i \in DOMAIN notes : NoteDeleted(i)

PlatformSpec == PlatformInit /\ [][PlatformNext]_platVars

PlatformTypeOK ==
  /\ client \in {"github", "bitbucket"} /\ notes \in Seq(BOOLEAN)
  /\ checks \in Seq([head : Heads, state : States]) /\ knownId \in 0..Len(notes)
  /\ token \in {"none", "good", "dead"} /\ creds \subseteq {"project", "global"}
  /\ ask.try \in 1..Attempts + 1 /\ verdict \in {"none", "build", "skip"}

\* A failed request is never repeated in a way that shows: the GitHub client leaves one
\* comment, and one check run per commit, whatever was answered to a request that had its
\* effect; the Bitbucket client one status per commit.
NothingTwice ==
  /\ client = "github" => Cardinality(NotesThere) <= 1
  /\ \A c \in Heads : Cardinality(RunsOf(c)) <= 1
=============================================================================
