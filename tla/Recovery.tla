------------------------------ MODULE Recovery ------------------------------
(***************************************************************************)
(* What a daemon keeps across restarts: the rows of one preview and of its *)
(* builds, the artifact directories, and the shares of the exposer, which  *)
(* outlive the process that serves them. The commit phase of a build, with *)
(* its build share and its pruning; teardown; the hourly sweep; and, after *)
(* a crash anywhere, recover: reap, adopt or publish, restore. Previews    *)
(* have names, rows and directories of their own, so one is enough. The    *)
(* exposer is zrok's; its names' reservations are left to its own module.  *)
(***************************************************************************)
EXTENDS Naturals, FiniteSets

CONSTANTS
  Commits,    (* head commits                                              *)
  Branch,     (* the name of the preview's own share                       *)
  None,
  KeepBuilds, (* preview.keep_builds                                       *)
  MaxBuilds, MaxCrashes, MaxSweeps (* bounds *)

Builds == 1..MaxBuilds
Site == 0                    \* the key of the preview's own publication
Keys == {Site} \cup Builds   \* and a build's share has the build as its key

ASSUME RecoveryAssumption ==
  /\ KeepBuilds \in Nat \ {0}
  /\ MaxBuilds \in Nat /\ MaxCrashes \in Nat /\ MaxSweeps \in Nat
  /\ Branch \notin Commits /\ None \notin Commits \cup {Branch} \cup Keys

Names == Commits \cup {Branch}

VARIABLES
  dirs,      \* disk: builds whose artifact directory is there
  row,       \* previews table: [st, build], the build whose artifacts it names
  urls,      \* builds table: builds with a recorded url
  commit,    \* the commit each build builds, None before it starts
  begun,     \* builds begun, oldest first
  share,     \* controller: the key whose share is bound to each name, or None
  zlive,     \* z.live: the build each key's listener serves, 0 for none
  pub,       \* per key: where Publish or Adopt of it is
  up,        \* the process: "down", recover's stages, "running"
  adoptable, \* d.adoptable: keys of the shares listed at startup
  keep,      \* the keep-set of recover or of the sweep
  bpc, cur, victim, \* the commit phase: step, build, build being pruned
  tpc,       \* teardown: step
  rpc, doomed, \* sweep: step, names whose share goes
  settled,     \* history: keys live since the sweep began
  crashes, sweeps

disk == <<dirs, row, urls>>
bVars == <<bpc, cur, victim, commit, begun>>
rVars == <<rpc, settled, sweeps>>
rStep == <<rpc, sweeps>>
sVars == <<up, adoptable, crashes>>
vars == <<disk, share, zlive, pub, keep, doomed, bVars, tpc, rVars, sVars>>

NoRow == [st |-> "none", build |-> 0]
\* A build's share is named for its commit, so a Rebuild's has the same name.
Name(k) == IF k = Site THEN Branch ELSE commit[k]
Bound(k) == k \in {share[n] : n \in {Name(k)} \cap Names}
Idle(k) == pub[k] \in {"idle", "done", "failed"}
\* Nobody holds the preview's commit lock.
Unlocked == bpc = "idle" /\ tpc = "idle"

Init ==
  /\ dirs = {} /\ urls = {} /\ row = NoRow
  /\ commit = [b \in Builds |-> None] /\ begun = 0
  /\ share = [n \in Names |-> None]
  /\ zlive = [k \in Keys |-> 0]
  /\ pub = [k \in Keys |-> "idle"]
  /\ up = "running" /\ adoptable = {} /\ keep = {}
  /\ bpc = "idle" /\ cur = 0 /\ victim = 0
  /\ tpc = "idle"
  /\ rpc = "idle" /\ doomed = {} /\ settled = {}
  /\ crashes = 0 /\ sweeps = 0

-----------------------------------------------------------------------------
(* Publish and Adopt of one key. *)

\* What a publication of k is to serve: the row's build or the one being committed.
Content(k) == IF k # Site THEN k ELSE IF up = "running" THEN cur ELSE row.build

PStep(k, from, to) == pub[k] = from /\ pub' = [pub EXCEPT ![k] = to]

\* close: the listeners of ks stop and their shares are deleted, unless the
\* controller refuses, which is logged.
Withdrawn(ks) ==
  /\ zlive' = [k \in Keys |-> IF k \in ks THEN 0 ELSE zlive[k]]
  /\ \E gone \in SUBSET {n \in Names : share[n] \in {k \in ks : zlive[k] # 0}} :
       share' = [n \in Names |-> IF n \in gone THEN None ELSE share[n]]
  /\ settled' = settled \ ks

\* Live publications of other keys under k's name: earlier builds of the commit.
Superseded(k) == {j \in Keys \ {k} : zlive[j] # 0 /\ Name(j) = Name(k)}

\* Adopt: other publications of the name go, and a listener is opened ...
AdoptTake(k) ==
  /\ PStep(k, "adopt", "open")
  /\ Withdrawn(Superseded(k))
  /\ UNCHANGED <<disk, keep, doomed, bVars, tpc, rStep, sVars>>

\* ... on the share that was listed. One that cannot be opened for now is not
\* replaced; one that cannot be opened at all is, by Publish.
AdoptOpen(k) ==
  /\ \/ Bound(k) /\ PStep(k, "open", "done") /\ zlive' = [zlive EXCEPT ![k] = Content(k)]
     \/ (PStep(k, "open", "failed") \/ PStep(k, "open", "take")) /\ UNCHANGED zlive
  /\ UNCHANGED <<disk, share, keep, doomed, bVars, tpc, rVars, sVars>>

\* Publish: the key's own publication and the name's others are withdrawn ...
PublishTake(k) ==
  /\ PStep(k, "take", "create")
  /\ Withdrawn(Superseded(k) \cup {k})
  /\ UNCHANGED <<disk, keep, doomed, bVars, tpc, rStep, sVars>>

\* ... the share is created, after reapName deleted whatever held the name. (A share
\* that is created is not the one a sweep under way may have listed.)
PublishCreate(k) ==
  /\ \/ /\ PStep(k, "create", "listen")
        /\ share' = [share EXCEPT ![Name(k)] = k]
        /\ doomed' = doomed \ {Name(k)}
     \/ /\ PStep(k, "create", "failed")
        /\ share' \in {share, [share EXCEPT ![Name(k)] = None]}
        /\ UNCHANGED doomed
  /\ UNCHANGED <<disk, zlive, keep, bVars, tpc, rVars, sVars>>

\* ... and its listener is opened and entered in z.live, or the share is deleted.
PublishListen(k) ==
  /\ \/ /\ Bound(k) /\ PStep(k, "listen", "done")
        /\ zlive' = [zlive EXCEPT ![k] = Content(k)]
        /\ UNCHANGED share
     \/ /\ PStep(k, "listen", "failed")
        /\ share' \in {share, IF Bound(k) THEN [share EXCEPT ![Name(k)] = None] ELSE share}
        /\ UNCHANGED zlive
  /\ UNCHANGED <<disk, keep, doomed, bVars, tpc, rVars, sVars>>

-----------------------------------------------------------------------------
(* The commit phase of runPipeline, under the commit lock. *)

BStep(from, to) == up = "running" /\ bpc = from /\ bpc' = to

\* Mutant: a build id that does not tell two builds apart.
CommitSameId(c) ==
  /\ Unlocked /\ begun < MaxBuilds
  /\ cur' = begun + 1
  /\ commit' = [commit EXCEPT ![begun + 1] = c]
  /\ dirs' = dirs \cup {begun + 1}
  /\ BStep("idle", "publish")
  /\ pub' = [pub EXCEPT ![Site] = "take"]
  /\ UNCHANGED <<begun, zlive, row, urls, share, keep, doomed, victim, tpc, rVars, sVars>>

\* The artifacts are moved into place and Publish is called: the share this process
\* serves already gets the new site, unless the base URL changed.
Commit(c) ==
  /\ Unlocked /\ begun < MaxBuilds
  /\ begun' = begun + 1 /\ cur' = begun + 1
  /\ commit' = [commit EXCEPT ![begun + 1] = c]
  /\ dirs' = dirs \cup {begun + 1}
  /\ \/ /\ zlive[Site] # 0
        /\ BStep("idle", "save")
        /\ zlive' = [zlive EXCEPT ![Site] = begun + 1]
        /\ UNCHANGED pub
     \/ /\ BStep("idle", "publish")
        /\ pub' = [pub EXCEPT ![Site] = "take"]
        /\ UNCHANGED zlive
  /\ UNCHANGED <<row, urls, share, keep, doomed, victim, tpc, rVars, sVars>>

\* A build that ends before its commit phase leaves a row only if there is none.
BuildFails ==
  /\ up = "running" /\ row = NoRow
  /\ row' = [st |-> "failed", build |-> 0]
  /\ UNCHANGED <<dirs, urls, share, zlive, pub, keep, doomed, bVars, tpc, rVars, sVars>>

Published ==
  /\ \/ pub[Site] = "done" /\ BStep("publish", "save") /\ UNCHANGED row
     \/ /\ pub[Site] = "failed" /\ BStep("publish", "idle")
        /\ row' = IF row = NoRow THEN [st |-> "failed", build |-> 0] ELSE row
  /\ pub' = [pub EXCEPT ![Site] = "idle"]
  /\ UNCHANGED <<dirs, urls, share, zlive, keep, doomed, cur, victim, commit, begun, tpc, rVars, sVars>>

\* SavePreview, and on to the build's own share.
SaveRow ==
  /\ BStep("save", "share")
  /\ row' = [st |-> "ready", build |-> cur]
  /\ pub' = [pub EXCEPT ![cur] = "take"]
  /\ UNCHANGED <<dirs, urls, share, zlive, keep, doomed, cur, victim, commit, begun, tpc, rVars, sVars>>

\* It failed: unpublish withdraws the share and deletes any row.
SaveFails ==
  /\ BStep("save", "idle")
  /\ Withdrawn({Site})
  /\ row' = NoRow
  /\ UNCHANGED <<dirs, urls, pub, keep, doomed, cur, victim, commit, begun, tpc, rStep, sVars>>

\* publishBuildShare answered, or gave up with a warning; saveBuild records the URL.
SaveBuild ==
  /\ Idle(cur) /\ pub[cur] # "idle" /\ BStep("share", "prune")
  /\ urls' \in {urls, IF pub[cur] = "done" THEN urls \cup {cur} ELSE urls}
  /\ pub' = [pub EXCEPT ![cur] = "idle"]
  /\ UNCHANGED <<dirs, row, share, zlive, keep, doomed, cur, victim, commit, begun, tpc, rVars, sVars>>

\* pruneArtifacts: all but the newest directories, and never this build's own.
Prunable == {v \in dirs \ {cur} : Cardinality({d \in dirs \ {cur} : d > v}) >= KeepBuilds - 1}

\* A directory that will not go is left, and the pruning goes on or ends.
PruneDir ==
  /\ \/ \E v \in Prunable : BStep("prune", "retire") /\ dirs' = dirs \ {v} /\ victim' = v
     \/ BStep("prune", "idle") /\ UNCHANGED <<dirs, victim>>
  /\ UNCHANGED <<row, urls, share, zlive, pub, keep, doomed, cur, commit, begun, tpc, rVars, sVars>>

\* Mutant: a pruned build's URL is forgotten and its share left.
RetireForgets ==
  /\ BStep("retire", "clear")
  /\ UNCHANGED <<disk, share, zlive, pub, keep, doomed, cur, victim, commit, begun, tpc, rVars, sVars>>

\* retireBuildShare: the share is withdrawn, then its URL forgotten.
Retire ==
  /\ BStep("retire", "clear")
  /\ Withdrawn({victim})
  /\ UNCHANGED <<disk, pub, keep, doomed, cur, victim, commit, begun, tpc, rStep, sVars>>

ClearShare ==
  /\ BStep("clear", "prune")
  /\ urls' = urls \ {victim}
  /\ victim' = 0
  /\ UNCHANGED <<dirs, row, share, zlive, pub, keep, doomed, cur, commit, begun, tpc, rVars, sVars>>

-----------------------------------------------------------------------------
(* teardown, under the same lock. The rows of the builds stay. *)

TStep(from, to) == up = "running" /\ tpc = from /\ tpc' = to

\* Every publication of the preview is closed.
TearClose ==
  /\ Unlocked
  /\ TStep("idle", "closed")
  /\ Withdrawn(Keys)
  /\ UNCHANGED <<disk, pub, keep, doomed, bVars, rStep, sVars>>

TearDirs ==
  /\ TStep("closed", "emptied")
  /\ dirs' = {}
  /\ UNCHANGED <<row, urls, share, zlive, pub, keep, doomed, bVars, rVars, sVars>>

TearRow ==
  /\ TStep("emptied", "idle")
  /\ row' = NoRow
  /\ UNCHANGED <<dirs, urls, share, zlive, pub, keep, doomed, bVars, rVars, sVars>>

-----------------------------------------------------------------------------
(* The hourly sweep, beside builds and teardowns. *)

RStep(from, to) == up = "running" /\ rpc = from /\ rpc' = to

\* Builds past the retention window lose their rows; what the tables name is kept.
SweepKeep ==
  /\ RStep("idle", "list") /\ sweeps < MaxSweeps
  /\ sweeps' = sweeps + 1
  /\ \E old \in 0..(IF bpc = "idle" THEN begun ELSE cur - 1) : urls' = {b \in urls : b > old}
  /\ keep' = IF row = NoRow THEN {} ELSE {Site} \cup urls'
  /\ settled' = {k \in Keys : zlive[k] # 0}
  /\ UNCHANGED <<dirs, row, share, zlive, pub, doomed, bVars, tpc, sVars>>

\* Mutant: a share this process serves is not excepted.
ListAll ==
  /\ RStep("list", "delete")
  /\ doomed' = {n \in Names : share[n] \in Keys \ keep}
  /\ UNCHANGED <<disk, share, zlive, pub, keep, bVars, tpc, settled, sweeps, sVars>>

\* Reap: the shares that exist, less those served here, less those kept. (z.live is
\* read after the listing; what changes between changes what is listed the same way.)
SweepList ==
  /\ RStep("list", "delete")
  /\ doomed' = {n \in Names : share[n] \in {k \in Keys \ keep : zlive[k] = 0}}
  /\ UNCHANGED <<disk, share, zlive, pub, keep, bVars, tpc, settled, sweeps, sVars>>

SweepDelete ==
  /\ up = "running" /\ rpc = "delete"
  /\ \/ \E n \in doomed : /\ share' = [share EXCEPT ![n] = None]
                          /\ doomed' = doomed \ {n}
                          /\ UNCHANGED <<rpc, keep, settled>>
     \/ doomed' = {} /\ rpc' = "idle" /\ keep' = {} /\ settled' = {} /\ UNCHANGED share
  /\ UNCHANGED <<disk, zlive, pub, bVars, tpc, sweeps, sVars>>

-----------------------------------------------------------------------------
(* A crash or a shutdown, and recover. *)

Crash ==
  /\ up # "down" /\ crashes < MaxCrashes
  /\ crashes' = crashes + 1
  /\ up' = "down" /\ adoptable' = {} /\ keep' = {}
  /\ zlive' = [k \in Keys |-> 0]
  /\ pub' = [k \in Keys |-> "idle"]
  /\ bpc' = "idle" /\ cur' = 0 /\ victim' = 0 /\ tpc' = "idle"
  /\ rpc' = "idle" /\ doomed' = {} /\ settled' = {}
  /\ UNCHANGED <<disk, share, commit, begun, sweeps>>

UStep(from, to) == up = from /\ up' = to
Eligible == row.st = "ready" /\ row.build \in dirs

\* A ready row without artifacts is dropped; the keep-set is what will be restored.
\* (buildSharesToRestore answers nothing when its query fails.)
Load ==
  /\ UStep("down", "listing")
  /\ row' = IF row.st = "ready" /\ ~Eligible THEN NoRow ELSE row
  /\ \E bs \in {urls \cap dirs, {}} : keep' = IF Eligible THEN {Site} \cup bs ELSE {}
  /\ UNCHANGED <<dirs, urls, share, zlive, pub, doomed, bVars, tpc, rVars, adoptable, crashes>>

\* Adoptable: the shares there are, or none if they could not be listed.
List ==
  /\ UStep("listing", "reaping")
  /\ adoptable' \in {{k \in Keys : \E n \in Names : share[n] = k}, {}}
  /\ UNCHANGED <<disk, share, zlive, pub, keep, doomed, bVars, tpc, rVars, crashes>>

AdoptOrPublish(k) == IF k \in adoptable THEN "adopt" ELSE "take"

\* Reap deletes what it can of the rest, and only then is anything republished.
Reap ==
  /\ UStep("reaping", "site")
  /\ \E gone \in SUBSET {n \in Names : share[n] \in Keys \ keep} :
       share' = [n \in Names |-> IF n \in gone THEN None ELSE share[n]]
  /\ pub' = [pub EXCEPT ![Site] = IF Eligible THEN AdoptOrPublish(Site) ELSE "idle"]
  /\ keep' = {}
  /\ UNCHANGED <<disk, zlive, doomed, bVars, tpc, rVars, adoptable, crashes>>

\* Artifacts that do not match their base URL cannot be served: the row is dropped.
Unusable ==
  /\ UStep("site", "builds")
  /\ pub[Site] \in {"adopt", "take"}
  /\ pub' = [pub EXCEPT ![Site] = "idle"]
  /\ row' = NoRow
  /\ UNCHANGED <<dirs, urls, share, zlive, keep, doomed, bVars, tpc, rVars, adoptable, crashes>>

\* Mutant: the row is left alone when the preview could not be published.
FailureKeepsRow ==
  /\ UStep("site", "builds") /\ Idle(Site)
  /\ pub' = [pub EXCEPT ![Site] = "idle"]
  /\ UNCHANGED <<disk, share, zlive, keep, doomed, bVars, tpc, rVars, adoptable, crashes>>

\* Mutant: the URL of a build whose directory is gone is not forgotten.
PrunedKeepsUrl ==
  /\ UStep("site", "builds") /\ Idle(Site)
  /\ row' = IF pub[Site] = "failed" THEN [row EXCEPT !.st = "failed"] ELSE row
  /\ IF pub[Site] = "done"
     THEN pub' = [k \in Keys |-> IF k \in urls \cap dirs THEN AdoptOrPublish(k) ELSE "idle"]
     ELSE pub' = [pub EXCEPT ![Site] = "idle"]
  /\ UNCHANGED <<dirs, urls, share, zlive, keep, doomed, bVars, tpc, rVars, adoptable, crashes>>

\* The preview is back, and its builds' shares follow; or the row says it is not.
Republished ==
  /\ UStep("site", "builds") /\ Idle(Site)
  /\ row' = IF pub[Site] = "failed" THEN [row EXCEPT !.st = "failed"] ELSE row
  /\ IF pub[Site] = "done"
     THEN /\ urls' = urls \cap dirs
          /\ pub' = [k \in Keys |-> IF k \in urls \cap dirs THEN AdoptOrPublish(k) ELSE "idle"]
     ELSE pub' = [pub EXCEPT ![Site] = "idle"] /\ UNCHANGED urls
  /\ UNCHANGED <<dirs, share, zlive, keep, doomed, bVars, tpc, rVars, adoptable, crashes>>

\* Every restore has returned: workers and reaper start.
Recovered ==
  /\ UStep("builds", "running") /\ \A k \in Keys : Idle(k)
  /\ pub' = [k \in Keys |-> "idle"]
  /\ adoptable' = {}
  /\ UNCHANGED <<disk, share, zlive, keep, doomed, bVars, tpc, rVars, crashes>>

-----------------------------------------------------------------------------
PublishStep(k) ==
  AdoptTake(k) \/ AdoptOpen(k) \/ PublishTake(k) \/ PublishCreate(k) \/ PublishListen(k)

Next ==
  \/ \E k \in Keys : PublishStep(k)
  \/ \E c \in Commits : Commit(c)
  \/ BuildFails \/ Published \/ SaveRow \/ SaveFails \/ SaveBuild
  \/ PruneDir \/ Retire \/ ClearShare
  \/ TearClose \/ TearDirs \/ TearRow
  \/ SweepKeep \/ SweepList \/ SweepDelete
  \/ Crash \/ Load \/ List \/ Reap \/ Unusable \/ Republished \/ Recovered

Spec == Init /\ [][Next]_vars

-----------------------------------------------------------------------------
\* Every variable has its type, and builds have ids of their own, in order.
TypeOK ==
  /\ \A b \in Builds : commit[b] = None <=> b > begun
  /\ dirs \subseteq Builds /\ urls \subseteq Builds
  /\ row \in [st : {"none", "ready", "failed"}, build : Keys]
  /\ commit \in [Builds -> Commits \cup {None}] /\ begun \in 0..MaxBuilds
  /\ share \in [Names -> Keys \cup {None}]
  /\ zlive \in [Keys -> Keys]
  /\ pub \in [Keys -> {"idle", "adopt", "open", "take", "create", "listen", "done", "failed"}]
  /\ up \in {"down", "listing", "reaping", "site", "builds", "running"}
  /\ adoptable \subseteq Keys /\ keep \subseteq Keys
  /\ bpc \in {"idle", "publish", "save", "share", "prune", "retire", "clear"}
  /\ cur \in Keys /\ victim \in Keys
  /\ tpc \in {"idle", "closed", "emptied"}
  /\ rpc \in {"idle", "list", "delete"} /\ doomed \subseteq Names /\ settled \subseteq Keys
  /\ crashes \in 0..MaxCrashes /\ sweeps \in 0..MaxSweeps

\* After a crash at any step, a preview whose row says ready once recover has
\* restored it is served at its name, from the artifacts the row names.
RestoredIsServed ==
  up = "builds" /\ row.st = "ready" => Bound(Site) /\ zlive[Site] = row.build

\* When every restore succeeded, every recorded build URL is answered by a build of
\* its commit, also when several builds of one commit were restored side by side.
RestoredUrlsAnswer ==
  up = "builds" /\ (\A k \in Keys : pub[k] \in {"idle", "done"}) /\ row.st = "ready"
    => \A b \in urls : LET j == share[commit[b]] IN j # None /\ zlive[j] = j

\* What is served has its artifacts on disk; only the build being pruned is served
\* a moment longer than its directory.
ServedHasArtifacts == \A k \in Keys : zlive[k] \in dirs \cup {0, victim}

\* A sweep never deletes the share of a publication that was live when it began,
\* recorded or not.
SweepSparesSettled ==
  [][\A n \in Names : rpc = "delete" /\ n \in doomed /\ n \notin doomed'
       => share[n] \notin settled]_vars

-----------------------------------------------------------------------------
(* What the code's comments say, and the code does not do. *)

\* A row that says ready is served, outside a commit phase and a teardown.
ReadyRowIsServed ==
  up = "running" /\ Unlocked /\ row.st = "ready" => Bound(Site) /\ zlive[Site] = row.build
=============================================================================
