------------------------------- MODULE Pipeline -------------------------------
(***************************************************************************)
(* runPipeline for the builds of one preview: clone, plan, the container   *)
(* or the local shell, the checks of the output, and what is moved to the  *)
(* artifacts. Builds overlap: a newer one cancels the older and does not   *)
(* wait for it. What the build prints and runs is a choice of outcomes.    *)
(***************************************************************************)
EXTENDS Naturals, FiniteSets

CONSTANTS
  Runs,    (* builds of the preview                                         *)
  Commits  (* commits they build; two builds may be of one                  *)

VARIABLES
  commitOf,  \* the commit of a build
  step,      \* where a build is in runPipeline
  driver,    \* the project's driver: "docker" or "local"
  current,   \* d.running: the builds registered, one or none
  cut,       \* builds whose context is cancelled
  tree,      \* workspace directory of a commit: the build that made it, or "none"
  output,    \* builds whose output is in their commit's directory, by commit
  box,       \* container: "none", "made", "lost" when its id was never read, "kept", "gone"
  envFile,   \* builds whose environment file is on disk
  logOf,     \* build log: "none", "open", "closed"
  buildRow,  \* row in builds: "none", "building", "failed", "ready"
  fate,      \* how a build ended: "none", "published", "skipped", "failed", "superseded"
  site       \* artifact directory of a build: the commit of what is in it, or "none"

diskVars == <<tree, output, site>>
recordVars == <<logOf, buildRow, fate>>
pipeVars == <<commitOf, step, driver, current, cut, diskVars, box, envFile, recordVars>>

PipelineInit ==
  /\ commitOf \in [Runs -> Commits] /\ driver \in {"docker", "local"}
  /\ step = [b \in Runs |-> "new"] /\ current = {} /\ cut = {}
  /\ tree = [c \in Commits |-> "none"] /\ output = [c \in Commits |-> {}]
  /\ box = [b \in Runs |-> "none"] /\ envFile = {}
  /\ logOf = [b \in Runs |-> "none"] /\ buildRow = [b \in Runs |-> "none"]
  /\ fate = [b \in Runs |-> "none"] /\ site = [b \in Runs |-> "none"]

\* Mutant: one directory for the preview.
OneDir(b) == CHOOSE c \in Commits : TRUE

\* buildDirName: the directory a build works in.
Dir(b) == commitOf[b]

Goes(b, from, to) == step[b] = from /\ step' = [step EXCEPT ![b] = to]

\* Directories go, with what is in them.
Deleted(ds) ==
  /\ tree' = [c \in Commits |-> IF c \in ds THEN "none" ELSE tree[c]]
  /\ output' = [c \in Commits |-> IF c \in ds THEN {} ELSE output[c]]

\* The deferred Remove of the workspace; a directory that will not go is left.
Remove(b) == Deleted({Dir(b)}) \/ UNCHANGED <<tree, output>>

\* build's deferred unregistration.
Returns(b, how) ==
  /\ step' = [step EXCEPT ![b] = "done"] /\ fate' = [fate EXCEPT ![b] = how]
  /\ current' = current \ {b}

Begin(b) ==
  /\ Goes(b, "new", "clone")
  /\ current' = {b}
  /\ UNCHANGED <<commitOf, driver, cut, diskVars, box, envFile, recordVars>>

\* A newer request, a cancellation or a teardown: unregistered and cancelled, not waited for.
Supersede ==
  /\ current # {} /\ current' = {} /\ cut' = cut \cup current
  /\ UNCHANGED <<commitOf, step, driver, diskVars, box, envFile, recordVars>>

-----------------------------------------------------------------------------
(* Clone and plan. *)

\* The directory is cleared and made; the context is not looked at.
Clone(b) ==
  /\ Goes(b, "clone", "prune")
  /\ tree' = [tree EXCEPT ![Dir(b)] = b] /\ output' = [output EXCEPT ![Dir(b)] = {}]
  /\ UNCHANGED <<commitOf, driver, current, cut, site, box, envFile, recordVars>>

\* pruneSiblings: the directories of other commits, as far as they will go.
Prune(b) ==
  /\ Goes(b, "prune", "fetch")
  /\ \E gone \in SUBSET (Commits \ {Dir(b)}) : Deleted(gone)
  /\ UNCHANGED <<commitOf, driver, current, cut, site, box, envFile, recordVars>>

Fetch(b) ==
  /\ Goes(b, "fetch", "plan") /\ b \notin cut /\ tree[Dir(b)] # "none"
  /\ UNCHANGED <<commitOf, driver, current, cut, diskVars, box, envFile, recordVars>>

\* lateFailureLog: a log and a row for a build that failed before it had any, unless the
\* log cannot be opened.
LateLog(b) ==
  \/ logOf' = [logOf EXCEPT ![b] = "closed"] /\ buildRow' = [buildRow EXCEPT ![b] = "failed"]
  \/ logOf' = [logOf EXCEPT ![b] = "unopened"] /\ UNCHANGED buildRow

\* Clone URL, directory, git, .docpreview.yaml, driver, changed files, detection, name: each
\* may fail.
FailEarly(b) ==
  /\ step[b] \in {"clone", "fetch", "plan"} /\ Returns(b, "failed")
  /\ LateLog(b) /\ Remove(b)
  /\ UNCHANGED <<commitOf, driver, cut, site, box, envFile>>

\* Nothing to build.
Skip(b) ==
  /\ step[b] = "plan" /\ tree[Dir(b)] # "none" /\ Returns(b, "skipped")
  /\ Remove(b)
  /\ UNCHANGED <<commitOf, driver, cut, site, box, envFile, logOf, buildRow>>

\* The log is opened, or the build runs without one, and its row saved.
OpenLog(b) ==
  /\ Goes(b, "plan", IF driver = "docker" THEN "env" ELSE "run")
  /\ logOf' = [logOf EXCEPT ![b] = "open"] \/ logOf' = [logOf EXCEPT ![b] = "unopened"]
  /\ buildRow' = [buildRow EXCEPT ![b] = "building"]
  /\ UNCHANGED <<commitOf, driver, current, cut, diskVars, box, envFile, fate>>

-----------------------------------------------------------------------------
(* Build. *)

\* A build that fails closes its log and its row before the report.
Fails(b) ==
  /\ Returns(b, "failed") /\ Remove(b)
  /\ logOf' = [logOf EXCEPT ![b] = IF @ = "open" THEN "closed" ELSE @]
  /\ buildRow' = [buildRow EXCEPT ![b] = "failed"]

WriteEnv(b) ==
  /\ Goes(b, "env", "create") /\ envFile' = envFile \cup {b}
  /\ UNCHANGED <<commitOf, driver, current, cut, diskVars, box, recordVars>>

\* docker create; a client that is killed may leave a container without a name.
Create(b) ==
  /\ \/ b \notin cut /\ Goes(b, "create", "run") /\ box' = [box EXCEPT ![b] = "made"]
        /\ UNCHANGED <<current, tree, output, recordVars, envFile>>
     \/ /\ step[b] = "create" /\ Fails(b) /\ envFile' = envFile \ {b}
        /\ box' \in {box, [box EXCEPT ![b] = "lost"]}
  /\ UNCHANGED <<commitOf, driver, cut, site>>

\* Mutant: the removal runs under the build's own context.
RemoveBoxIfUncut(b) ==
  /\ box' = [box EXCEPT ![b] = IF @ = "made" /\ b \notin cut THEN "gone" ELSE @]
  /\ envFile' = envFile \ {b}

\* The deferred removals, under a context of their own; docker may still refuse.
RemoveBox(b) ==
  /\ \/ box' = [box EXCEPT ![b] = IF @ = "made" THEN "gone" ELSE @]
     \/ box[b] = "made" /\ box' = [box EXCEPT ![b] = "kept"]
  /\ envFile' = envFile \ {b}

\* The commands end by themselves, at the timeout or with the context. They write into the
\* directory of their commit, whoever made it.
Run(b) ==
  /\ step[b] = "run"
  /\ RemoveBox(b)
  /\ \/ /\ b \notin cut /\ tree[Dir(b)] # "none" /\ step' = [step EXCEPT ![b] = "check"]
        /\ output' \in {output, [output EXCEPT ![Dir(b)] = @ \cup {b}]}
        /\ UNCHANGED <<tree, current, recordVars>>
     \/ Fails(b)
  /\ UNCHANGED <<commitOf, driver, cut, site>>

\* There has to be output, without symlinks and for the base URL.
Verify(b) ==
  /\ \/ /\ Goes(b, "check", "commit") /\ output[Dir(b)] # {}
        /\ buildRow' = [buildRow EXCEPT ![b] = "ready"]
        /\ UNCHANGED <<tree, output, current, logOf, fate>>
     \/ step[b] = "check" /\ Fails(b)
  /\ UNCHANGED <<commitOf, driver, cut, site, box, envFile>>

-----------------------------------------------------------------------------
(* The commit phase, under the preview's lock. *)

CloseLogOf(b) == logOf' = [logOf EXCEPT ![b] = IF @ = "open" THEN "closed" ELSE @]

\* A superseded build leaves its log as it is.
Superseded(b) ==
  /\ step[b] = "commit" /\ (b \in cut \/ b \notin current) /\ Returns(b, "superseded")
  /\ Remove(b)
  /\ UNCHANGED <<commitOf, driver, cut, site, box, envFile, logOf, buildRow>>

\* replaceDir, then preview.New, Publish and SavePreview, each of which may fail: the row of
\* the build stays "ready".
Commit(b) ==
  /\ step[b] = "commit" /\ b \notin cut /\ b \in current
  /\ \/ /\ output[Dir(b)] # {}
        /\ \E w \in output[Dir(b)] : site' = [site EXCEPT ![b] = commitOf[w]]
        /\ Returns(b, "published") \/ Returns(b, "failed")
     \/ UNCHANGED site /\ Returns(b, "failed")
  /\ Deleted({Dir(b)}) \/ (UNCHANGED tree /\ output' = [output EXCEPT ![Dir(b)] = {}])
  /\ CloseLogOf(b)
  /\ UNCHANGED <<commitOf, driver, cut, box, envFile, buildRow>>

PipelineStep(b) ==
  \/ Clone(b) \/ Prune(b) \/ Fetch(b) \/ FailEarly(b) \/ Skip(b) \/ OpenLog(b)
  \/ WriteEnv(b) \/ Create(b) \/ Run(b) \/ Verify(b) \/ Superseded(b) \/ Commit(b)

PipelineNext == Supersede \/ \E b \in Runs : Begin(b) \/ PipelineStep(b)

PipelineSpec == PipelineInit /\ [][PipelineNext]_pipeVars

-----------------------------------------------------------------------------
\* Every variable has its type.
PipelineTypeOK ==
  /\ commitOf \in [Runs -> Commits] /\ driver \in {"docker", "local"}
  /\ step \in [Runs -> {"new", "clone", "prune", "fetch", "plan", "env", "create", "run",
                        "check", "commit", "done"}]
  /\ current \subseteq Runs /\ Cardinality(current) <= 1 /\ cut \subseteq Runs
  /\ tree \in [Commits -> Runs \cup {"none"}] /\ output \in [Commits -> SUBSET Runs]
  /\ box \in [Runs -> {"none", "made", "lost", "kept", "gone"}] /\ envFile \subseteq Runs
  /\ logOf \in [Runs -> {"none", "unopened", "open", "closed"}]
  /\ buildRow \in [Runs -> {"none", "building", "failed", "ready"}]
  /\ fate \in [Runs -> {"none", "published", "skipped", "failed", "superseded"}]
  /\ site \in [Runs -> Commits \cup {"none"}]

\* What is published for a commit was built from it, although a build writes into a
\* directory that others clear, prune, share and remove while it runs.
SiteIsOfItsCommit == \A b \in Runs : site[b] \in {"none", commitOf[b]}

\* A build that is over, cancelled or not, leaves no environment file, and no container but
\* one docker would not remove or never named.
NothingLeftRunning ==
  \A b \in Runs : step[b] = "done" => box[b] # "made" /\ b \notin envFile

\* Two builds of one pull request never share a directory (clone.go:135), and nothing takes
\* the one of the build that counts: more than the code does.
OwnWorkspace ==
  \A b \in current : step[b] \in {"fetch", "plan", "env", "create", "run", "check", "commit"} => tree[Dir(b)] = b
=============================================================================
