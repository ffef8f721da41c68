------------------------------- MODULE Intake --------------------------------
(***************************************************************************)
(* Which builds and teardowns are asked for: webhook deliveries of both    *)
(* platforms, the project row that admits them, an operator's unlink, link *)
(* and rebuild, and the scan after a start that makes up for the           *)
(* deliveries a daemon that was down never got. One repository.            *)
(***************************************************************************)
EXTENDS Naturals, FiniteSets

CONSTANTS
  PRs,       (* pull requests from the repository itself                    *)
  Forks,     (* pull requests from a fork of it                             *)
  Main,      (* the preview of the default branch                           *)
  MaxEvents  (* bound: things that people, the platform and init do        *)

ASSUME IntakeAssumption ==
  /\ PRs \cap Forks = {} /\ Main \notin PRs \cup Forks /\ MaxEvents \in Nat

Refs == PRs \cup Forks \cup {Main}

VARIABLES
  opened,    \* pull requests open on the platform
  events,    \* opens, closes, pushes, stops and operator's acts so far
  project,   \* the project row: "none", "on", "off"
  unlinked,  \* ignored_prs
  outcome,   \* the previews table: "none", "ok", "failed" or skipped
  asked,     \* previews with a job queued or a build running
  inbox,     \* deliveries answered with 202, each in a goroutine of its own
  checked,   \* handleBuild calls past the ignore check, before their enqueue
  dropping,  \* UnlinkPreview calls between the ignore and the teardown
  spc,       \* the scan: "down", "branch", "snapshot", "list", "queue", "tear", "done"
  have, listed, left, \* the rows and the listing it works from, pull requests to go
  calm,      \* history: nobody but the scan has done anything since its snapshot
  raced      \* history: one was unlinked with a handler past the check, or the process
             \* stopped before its teardown

intakeVars == <<opened, events, project, unlinked, outcome, asked, inbox, checked, dropping,
                spc, have, listed, left, calm, raced>>
scanVars == <<spc, have, listed, left>>

IntakeInit ==
  /\ opened = {} /\ events = 0 /\ project \in {"none", "on"} /\ unlinked = {}
  /\ outcome = [r \in Refs |-> "none"] /\ asked = {} /\ inbox = {} /\ checked = {} /\ dropping = {}
  /\ spc = "branch" /\ have = {} /\ listed = {} /\ left = {} /\ calm = FALSE /\ raced = FALSE

Up == spc # "down"
\* One of the counted things happens.
Happens == events < MaxEvents /\ events' = events + 1
Rows == {r \in Refs : outcome[r] # "none"}

-----------------------------------------------------------------------------
(* The platform, and what it delivers. *)

\* A delivery may fail, and one sent while the daemon is down does.
Announce(kind, r) ==
  /\ Happens /\ calm' = FALSE
  /\ \/ Up /\ inbox' = inbox \cup {<<kind, r>>}
     \/ UNCHANGED inbox

OpenPR(r) ==
  /\ r \notin opened /\ opened' = opened \cup {r}
  /\ Announce("build", r)
  /\ UNCHANGED <<project, unlinked, outcome, asked, checked, dropping, scanVars, raced>>

ClosePR(r) ==
  /\ r \in opened /\ opened' = opened \ {r}
  /\ Announce("teardown", r)
  /\ UNCHANGED <<project, unlinked, outcome, asked, checked, dropping, scanVars, raced>>

PushMain ==
  /\ Announce("refresh", Main)
  /\ UNCHANGED <<opened, project, unlinked, outcome, asked, checked, dropping, scanVars, raced>>

-----------------------------------------------------------------------------
(* handleBuild and teardown. *)

\* Mutant: only the scan skips what is unlinked.
CheckBlind(r) == checked' = checked \cup {r}

\* handleBuild reads the ignore; the enqueue is a later statement.
Check(r) == checked' = IF r \in unlinked THEN checked ELSE checked \cup {r}

Enqueue(r) ==
  /\ r \in checked /\ checked' = checked \ {r} /\ asked' = asked \cup {r}
  /\ UNCHANGED <<opened, events, project, unlinked, outcome, inbox, dropping, scanVars, calm, raced>>

TearDown(r) ==
  /\ outcome' = [outcome EXCEPT ![r] = "none"] /\ asked' = asked \ {r}

\* A build ends in a row, whatever its outcome; a failure leaves the row of a ready preview
\* alone. The outcome is told apart for the branch preview only.
Built(r) ==
  /\ Up /\ r \in asked /\ asked' = asked \ {r}
  /\ \/ outcome' = [outcome EXCEPT ![r] = "ok"]
     \/ r = Main /\ outcome[r] = "none" /\ outcome' = [outcome EXCEPT ![r] = "failed"]
     \/ r = Main /\ outcome[r] # "none" /\ UNCHANGED outcome
  /\ UNCHANGED <<opened, events, project, unlinked, inbox, checked, dropping, scanVars, calm, raced>>

-----------------------------------------------------------------------------
(* Webhook deliveries. *)

\* Mutant: no pull request is refused for where it comes from.
ParsedAll(r) == TRUE

\* The parser refuses the pull request of a fork.
Parsed(r) == r \notin Forks

\* A repository without a project row is refused; the row's Enabled is not looked at. A
\* refresh of what has no row is refused by handleBuild.
Deliver(kind, r) ==
  /\ <<kind, r>> \in inbox /\ inbox' = inbox \ {<<kind, r>>} /\ calm' = FALSE
  /\ IF project = "none" THEN UNCHANGED <<outcome, asked, checked>>
     ELSE \/ /\ kind = "build"
             /\ IF Parsed(r) THEN Check(r) ELSE UNCHANGED checked
             /\ UNCHANGED <<outcome, asked>>
          \/ /\ kind = "refresh"
             /\ IF r \in Rows THEN Check(r) ELSE UNCHANGED checked
             /\ UNCHANGED <<outcome, asked>>
          \/ kind = "teardown" /\ TearDown(r) /\ UNCHANGED checked
  /\ UNCHANGED <<opened, events, project, unlinked, dropping, scanVars, raced>>

-----------------------------------------------------------------------------
(* The operator. *)

\* The row is there before the default branch is asked for.
AddProject ==
  /\ Happens /\ Up /\ project = "none" /\ project' = "on" /\ calm' = FALSE
  /\ Check(Main) \/ UNCHANGED checked
  /\ UNCHANGED <<opened, unlinked, outcome, asked, inbox, dropping, scanVars, raced>>

Disable ==
  /\ Happens /\ Up /\ project = "on" /\ project' = "off" /\ calm' = FALSE
  /\ UNCHANGED <<opened, unlinked, outcome, asked, inbox, checked, dropping, scanVars, raced>>

Rebuild(r) ==
  /\ Happens /\ Up /\ r \in Rows /\ r \notin checked
  /\ Check(r) /\ calm' = FALSE
  /\ UNCHANGED <<opened, project, unlinked, outcome, asked, inbox, dropping, scanVars, raced>>

\* Unlink: the ignore is written first.
Unlink(r) ==
  /\ Happens /\ Up /\ r \in Rows \ {Main}
  /\ unlinked' = unlinked \cup {r} /\ dropping' = dropping \cup {r} /\ calm' = FALSE
  /\ raced' = (raced \/ r \in checked)
  /\ UNCHANGED <<opened, project, outcome, asked, inbox, checked, scanVars>>

UnlinkTearDown(r) ==
  /\ r \in dropping /\ dropping' = dropping \ {r} /\ calm' = FALSE
  /\ TearDown(r)
  /\ UNCHANGED <<opened, events, project, unlinked, inbox, checked, scanVars, raced>>

\* Link: found open in the listing, the ignore deleted, and built.
Link(r) ==
  /\ Happens /\ Up /\ r \in unlinked \cap opened
  /\ unlinked' = unlinked \ {r} /\ checked' = checked \cup {r} /\ calm' = FALSE
  /\ UNCHANGED <<opened, project, outcome, asked, inbox, dropping, scanVars, raced>>

-----------------------------------------------------------------------------
(* The scan of a start. *)

\* The process stops: what it had accepted and not enqueued is gone.
GoDown ==
  /\ Happens /\ Up /\ spc' = "down"
  /\ inbox' = {} /\ checked' = {} /\ dropping' = {} /\ left' = {} /\ have' = {} /\ listed' = {}
  /\ raced' = (raced \/ dropping # {})
  /\ UNCHANGED <<opened, project, unlinked, outcome, asked, calm>>

ComeUp ==
  /\ spc = "down" /\ spc' = "branch"
  /\ UNCHANGED <<opened, events, project, unlinked, outcome, asked, inbox, checked, dropping,
                 have, listed, left, calm, raced>>

\* backfillBranchPreviews: a failed branch preview counts as none. The platform may not
\* name the head.
ScanBranch ==
  /\ spc = "branch" /\ spc' = "snapshot"
  /\ \/ project = "on" /\ outcome[Main] # "ok" /\ Check(Main)
     \/ UNCHANGED checked
  /\ UNCHANGED <<opened, events, project, unlinked, outcome, asked, inbox, dropping,
                 have, listed, left, calm, raced>>

ScanSnapshot ==
  /\ spc = "snapshot"
  /\ spc' = IF project = "on" THEN "list" ELSE "done"
  /\ have' = Rows \ {Main} /\ calm' = (inbox = {} /\ dropping = {} /\ checked \cup asked \subseteq {Main})
  /\ UNCHANGED <<opened, events, project, unlinked, outcome, asked, inbox, checked, dropping,
                 listed, left, raced>>

\* Mutant: what the snapshot has is taken for built whether or not it still is.
MissedNothing(open) == IF have = {} THEN open ELSE {}

\* The open pull requests without a preview in the snapshot.
Missed(open) == open \ have

\* Mutant: an empty listing is believed.
ClosedTrusting == have \ listed

\* teardownClosed: nothing open is taken for a fault of the listing.
Closed == IF listed = {} THEN {} ELSE have \ listed

\* OpenPullRequests leaves forks out. A listing that fails ends the scan; one the token
\* may not read is empty.
ScanList ==
  /\ spc = "list"
  /\ \/ \E open \in {opened \ Forks, {}} :
          spc' = "queue" /\ listed' = open /\ left' = Missed(open) /\ UNCHANGED calm
     \/ spc' = "done" /\ calm' = FALSE /\ UNCHANGED <<listed, left>>
  /\ UNCHANGED <<opened, events, project, unlinked, outcome, asked, inbox, checked, dropping, have, raced>>

ScanQueue ==
  /\ spc = "queue"
  /\ IF left # {}
     THEN \E r \in left : Check(r) /\ left' = left \ {r} /\ UNCHANGED spc
     ELSE /\ left' = Closed
          /\ spc' = "tear" /\ UNCHANGED checked
  /\ UNCHANGED <<opened, events, project, unlinked, outcome, asked, inbox, dropping, have, listed, calm, raced>>

ScanTear ==
  /\ spc = "tear"
  /\ IF left # {}
     THEN \E r \in left : TearDown(r) /\ left' = left \ {r} /\ UNCHANGED spc
     ELSE spc' = "done" /\ UNCHANGED <<left, outcome, asked>>
  /\ UNCHANGED <<opened, events, project, unlinked, inbox, checked, dropping, have, listed, calm, raced>>

WorldStep == PushMain \/ \E r \in PRs \cup Forks : OpenPR(r) \/ ClosePR(r)
HandlerStep == \E r \in Refs : Enqueue(r) \/ Built(r) \/ \E k \in {"build", "refresh", "teardown"} : Deliver(k, r)
OperatorStep == AddProject \/ Disable \/ \E r \in Refs : Rebuild(r) \/ Unlink(r) \/ UnlinkTearDown(r) \/ Link(r)
ScanStep == ScanBranch \/ ScanSnapshot \/ ScanList \/ ScanQueue \/ ScanTear

IntakeNext == WorldStep \/ HandlerStep \/ OperatorStep \/ ScanStep \/ GoDown \/ ComeUp

IntakeSpec == IntakeInit /\ [][IntakeNext]_intakeVars

-----------------------------------------------------------------------------
\* Every variable has its type, and no fork is ever built.
IntakeTypeOK ==
  /\ opened \subseteq PRs \cup Forks /\ events \in 0..MaxEvents /\ project \in {"none", "on", "off"}
  /\ outcome \in [Refs -> {"none", "ok", "failed"}] /\ asked \subseteq Refs \ Forks
  /\ {unlinked, dropping, have, listed, left} \subseteq SUBSET PRs
  /\ inbox \subseteq {"build", "refresh", "teardown"} \X Refs /\ checked \subseteq PRs \cup {Main}
  /\ spc \in {"down", "branch", "snapshot", "list", "queue", "tear", "done"} /\ {calm, raced} \subseteq BOOLEAN

\* A start makes up for what was missed: with nobody else at work and nothing queued from
\* before, once the scan is through and its builds are over, every open pull request that
\* is not unlinked has a preview and no closed one has.
ScanRepairs ==
  spc = "done" /\ calm /\ project = "on" /\ listed # {} /\ checked \cup asked = {} =>
    /\ listed \ unlinked \subseteq Rows
    /\ Rows \ {Main} \subseteq listed

\* An unlinked pull request does not come back, from a delivery, a scan or a rebuild, unless
\* a handler was already past the check or the process stopped before the teardown.
UnlinkedStaysGone ==
  ~raced => (unlinked \ dropping) \cap (asked \cup checked \cup Rows) = {}

\* The scan takes no preview of a pull request that is open, except one opened again since
\* it listed them.
ScanSparesOpen == [][ScanTear /\ calm => \A r \in Rows \cap opened : outcome'[r] # "none"]_intakeVars
=============================================================================
