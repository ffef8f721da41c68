--------------------------- MODULE PublishingProofs ---------------------------
(* How a commit comes to be served under its URL, for any builds, commits,     *)
(* keys, names and quota: the build's steps and directories (Pipeline), the    *)
(* names of its shares on the zrok controller (ZrokNames), the other exposers  *)
(* (Exposers).                                                                 *)
EXTENDS Pipeline, ZrokNames, Exposers, FiniteSetTheorems, TLAPS

-------------------------------------------------------------------------------
(* Pipeline: a site is of its commit, and a build that is over leaves nothing  *)
(* that runs.                                                                  *)

\* At most one build counts.
AtMostOne == current = {} \/ \E b \in Runs : current = {b}

\* A build has no container before it makes one and none, nor an environment file, once its
\* commands have run.
BoxByStep ==
  \A b \in Runs :
    /\ step[b] \in {"new", "clone", "prune", "fetch", "plan", "env"} => box[b] = "none" /\ b \notin envFile
    /\ step[b] = "create" => box[b] = "none"
    /\ step[b] \in {"check", "commit", "done"} => box[b] # "made" /\ b \notin envFile

\* Output lies in the directory of the commit it was built from.
OutputInPlace == \A c \in Commits : \A b \in output[c] : commitOf[b] = c

PipeTyped ==
  /\ commitOf \in [Runs -> Commits] /\ driver \in {"docker", "local"}
  /\ step \in [Runs -> {"new", "clone", "prune", "fetch", "plan", "env", "create", "run",
                        "check", "commit", "done"}]
  /\ AtMostOne /\ cut \subseteq Runs
  /\ tree \in [Commits -> Runs \cup {"none"}] /\ output \in [Commits -> SUBSET Runs]
  /\ box \in [Runs -> {"none", "made", "lost", "kept", "gone"}] /\ envFile \subseteq Runs
  /\ logOf \in [Runs -> {"none", "unopened", "open", "closed"}]
  /\ buildRow \in [Runs -> {"none", "building", "failed", "ready"}]
  /\ fate \in [Runs -> {"none", "published", "skipped", "failed", "superseded"}]
  /\ site \in [Runs -> Commits \cup {"none"}]

PipeInv == PipeTyped /\ BoxByStep /\ OutputInPlace /\ SiteIsOfItsCommit

\* The invariant in terms of Cardinality.
LEMMA PipeTypes == PipeTyped => PipelineTypeOK
<1> SUFFICES ASSUME PipeTyped PROVE PipelineTypeOK
  OBVIOUS
<1>1. current \subseteq Runs /\ Cardinality(current) <= 1
  <2>1. CASE current = {}
    BY <2>1, FS_EmptySet
  <2>2. CASE \E b \in Runs : current = {b}
    BY <2>2, FS_Singleton
  <2>3. QED BY <2>1, <2>2 DEF PipeTyped, AtMostOne
<1>2. QED BY <1>1 DEF PipeTyped, PipelineTypeOK

\* Deleting directories leaves the output of others in its place.
LEMMA DeletedKeeps ==
  ASSUME PipeTyped, OutputInPlace, NEW ds, Deleted(ds), UNCHANGED commitOf
  PROVE  /\ tree' \in [Commits -> Runs \cup {"none"}] /\ output' \in [Commits -> SUBSET Runs]
         /\ OutputInPlace'
BY DEF Deleted, PipeTyped, OutputInPlace

\* Removing a build's directory leaves every other one what was built there.
LEMMA RemoveKeeps ==
  ASSUME PipeTyped, OutputInPlace, NEW b \in Runs, Remove(b), UNCHANGED commitOf
  PROVE  /\ tree' \in [Commits -> Runs \cup {"none"}] /\ output' \in [Commits -> SUBSET Runs]
         /\ OutputInPlace'
<1>1. CASE Deleted({Dir(b)})
  BY <1>1, DeletedKeeps
<1>2. CASE UNCHANGED <<tree, output>>
  BY <1>2 DEF PipeTyped, OutputInPlace
<1>3. QED BY <1>1, <1>2 DEF Remove

\* A build that returns does not count any more.
LEMMA ReturnsTyped ==
  ASSUME PipeTyped, NEW b \in Runs,
         NEW how \in {"published", "skipped", "failed", "superseded"}, Returns(b, how)
  PROVE  /\ step' \in [Runs -> {"new", "clone", "prune", "fetch", "plan", "env", "create", "run",
                                "check", "commit", "done"}]
         /\ fate' \in [Runs -> {"none", "published", "skipped", "failed", "superseded"}]
         /\ AtMostOne' /\ step'[b] = "done" /\ \A c \in Runs \ {b} : step'[c] = step[c]
<1>1. AtMostOne'
  <2>1. current \ {b} = current \/ current \ {b} = {}
    BY DEF PipeTyped, AtMostOne
  <2>2. QED BY <2>1 DEF Returns, PipeTyped, AtMostOne
<1>2. QED BY <1>1 DEF Returns, PipeTyped

\* What a failing build does to its directory, log and row.
LEMMA FailsTyped ==
  ASSUME PipeTyped, OutputInPlace, NEW b \in Runs, Fails(b), UNCHANGED commitOf
  PROVE  /\ step' \in [Runs -> {"new", "clone", "prune", "fetch", "plan", "env", "create", "run",
                                "check", "commit", "done"}]
         /\ fate' \in [Runs -> {"none", "published", "skipped", "failed", "superseded"}]
         /\ AtMostOne' /\ step'[b] = "done" /\ \A c \in Runs \ {b} : step'[c] = step[c]
         /\ tree' \in [Commits -> Runs \cup {"none"}] /\ output' \in [Commits -> SUBSET Runs]
         /\ OutputInPlace'
         /\ logOf' \in [Runs -> {"none", "unopened", "open", "closed"}]
         /\ buildRow' \in [Runs -> {"none", "building", "failed", "ready"}]
<1>1. Returns(b, "failed") /\ Remove(b)
  BY DEF Fails
<1>2. /\ logOf' \in [Runs -> {"none", "unopened", "open", "closed"}]
      /\ buildRow' \in [Runs -> {"none", "building", "failed", "ready"}]
  BY DEF Fails, PipeTyped
<1>3. QED BY <1>1, <1>2, ReturnsTyped, RemoveKeeps

\* The invariant holds at the start.
LEMMA PipeBeginning == PipelineInit => PipeInv
BY DEF PipelineInit, PipeInv, PipeTyped, AtMostOne, BoxByStep, OutputInPlace, SiteIsOfItsCommit

\* A step in which a build only goes on, counts or is registered.
LEMMA PipeGoesOn ==
  ASSUME PipeInv, NEW b \in Runs,
         Begin(b) \/ Clone(b) \/ Prune(b) \/ Fetch(b) \/ WriteEnv(b) \/ OpenLog(b)
  PROVE  PipeInv'
<1> USE DEF PipeInv
<1>1. PICK to \in {"clone", "prune", "fetch", "plan", "create", "env", "run"} : step' = [step EXCEPT ![b] = to]
  BY DEF Begin, Clone, Prune, Fetch, WriteEnv, OpenLog, Goes
<1>2. /\ step' \in [Runs -> {"new", "clone", "prune", "fetch", "plan", "env", "create", "run",
                             "check", "commit", "done"}]
      /\ step'[b] = to /\ \A c \in Runs \ {b} : step'[c] = step[c]
  BY <1>1 DEF PipeTyped
<1>3. UNCHANGED <<commitOf, driver, cut, site, box, fate>>
  BY DEF Begin, Clone, Prune, Fetch, WriteEnv, OpenLog, recordVars, diskVars
<1>4. AtMostOne'
  BY DEF Begin, Clone, Prune, Fetch, WriteEnv, OpenLog, PipeTyped, AtMostOne
<1>5. /\ tree' \in [Commits -> Runs \cup {"none"}] /\ output' \in [Commits -> SUBSET Runs]
      /\ OutputInPlace'
  <2>1. CASE Prune(b)
    BY <1>3, <2>1, DeletedKeeps DEF Prune
  <2>2. CASE Clone(b)
    BY <2>2 DEF Clone, PipeTyped, OutputInPlace, Dir
  <2>3. CASE Begin(b) \/ Fetch(b) \/ WriteEnv(b) \/ OpenLog(b)
    BY <2>3 DEF Begin, Fetch, WriteEnv, OpenLog, diskVars, PipeTyped, OutputInPlace
  <2>4. QED BY <2>1, <2>2, <2>3
<1>6. /\ logOf' \in [Runs -> {"none", "unopened", "open", "closed"}]
      /\ buildRow' \in [Runs -> {"none", "building", "failed", "ready"}]
  BY DEF Begin, Clone, Prune, Fetch, WriteEnv, OpenLog, recordVars, PipeTyped
<1>7. envFile' \subseteq Runs /\ BoxByStep'
  <2>1. envFile' \in {envFile, envFile \cup {b}} /\ (b \in envFile' => to = "create" \/ b \in envFile)
    BY <1>1, <1>2 DEF Begin, Clone, Prune, Fetch, WriteEnv, OpenLog, Goes
  <2>2. step[b] \in {"new", "clone", "prune", "fetch", "plan", "env"}
    BY DEF Begin, Clone, Prune, Fetch, WriteEnv, OpenLog, Goes
  <2>3. box[b] = "none" /\ b \notin envFile
    BY <2>2 DEF BoxByStep
  <2>4. QED BY <1>2, <1>3, <2>1, <2>3 DEF BoxByStep, PipeTyped
<1>8. PipeTyped'
  BY <1>2, <1>3, <1>4, <1>5, <1>6, <1>7 DEF PipeTyped
<1>9. SiteIsOfItsCommit'
  BY <1>3 DEF SiteIsOfItsCommit
<1>10. QED BY <1>5, <1>7, <1>8, <1>9

\* A build that ends has been through the removal of its container, or never had one.
LEMMA PipeEnds ==
  ASSUME PipeInv, NEW b \in Runs, FailEarly(b) \/ Skip(b) \/ Superseded(b)
  PROVE  PipeInv'
<1> USE DEF PipeInv
<1>1. /\ \E how \in {"skipped", "failed", "superseded"} : Returns(b, how)
      /\ Remove(b) /\ UNCHANGED <<commitOf, driver, cut, site, box, envFile>>
      /\ step[b] \in {"clone", "fetch", "plan", "commit"}
  BY DEF FailEarly, Skip, Superseded
<1>2. /\ step' \in [Runs -> {"new", "clone", "prune", "fetch", "plan", "env", "create", "run",
                             "check", "commit", "done"}]
      /\ fate' \in [Runs -> {"none", "published", "skipped", "failed", "superseded"}]
      /\ AtMostOne' /\ step'[b] = "done" /\ \A c \in Runs \ {b} : step'[c] = step[c]
  BY <1>1, ReturnsTyped
<1>3. /\ tree' \in [Commits -> Runs \cup {"none"}] /\ output' \in [Commits -> SUBSET Runs]
      /\ OutputInPlace'
  BY <1>1, RemoveKeeps
<1>4. /\ logOf' \in [Runs -> {"none", "unopened", "open", "closed"}]
      /\ buildRow' \in [Runs -> {"none", "building", "failed", "ready"}]
  BY DEF FailEarly, Skip, Superseded, LateLog, PipeTyped
<1>5. BoxByStep'
  BY <1>1, <1>2 DEF BoxByStep
<1>6. PipeTyped'
  BY <1>1, <1>2, <1>3, <1>4 DEF PipeTyped
<1>7. SiteIsOfItsCommit'
  BY <1>1 DEF SiteIsOfItsCommit
<1>8. QED BY <1>3, <1>5, <1>6, <1>7

\* The container: made, removed when the commands have ended, and nothing left of it then
\* but what docker would not remove or never named.
LEMMA PipeBuilds ==
  ASSUME PipeInv, NEW b \in Runs, Create(b) \/ Run(b) \/ Verify(b)
  PROVE  PipeInv'
<1> USE DEF PipeInv
<1>1. UNCHANGED <<commitOf, driver, cut, site>>
  BY DEF Create, Run, Verify
<1>2. /\ step' \in [Runs -> {"new", "clone", "prune", "fetch", "plan", "env", "create", "run",
                             "check", "commit", "done"}]
      /\ fate' \in [Runs -> {"none", "published", "skipped", "failed", "superseded"}]
      /\ AtMostOne' /\ \A c \in Runs \ {b} : step'[c] = step[c]
      /\ tree' \in [Commits -> Runs \cup {"none"}] /\ output' \in [Commits -> SUBSET Runs]
      /\ OutputInPlace'
      /\ logOf' \in [Runs -> {"none", "unopened", "open", "closed"}]
      /\ buildRow' \in [Runs -> {"none", "building", "failed", "ready"}]
  <2>1. CASE Fails(b)
    BY <1>1, <2>1, FailsTyped
  <2>2. CASE ~Fails(b)
    <3>1. \E to \in {"run", "check", "commit"} : step' = [step EXCEPT ![b] = to]
      BY <2>2 DEF Create, Run, Verify, Goes
    <3>2. UNCHANGED <<current, tree, logOf, fate>>
      BY <2>2 DEF Create, Run, Verify, recordVars
    <3>3. buildRow' \in {buildRow, [buildRow EXCEPT ![b] = "ready"]}
      BY <2>2 DEF Create, Run, Verify, recordVars
    <3>4. output' \in {output, [output EXCEPT ![Dir(b)] = @ \cup {b}]}
      BY <2>2 DEF Create, Run, Verify
    <3>5. output' \in [Commits -> SUBSET Runs] /\ OutputInPlace'
      BY <1>1, <3>4 DEF PipeTyped, OutputInPlace, Dir
    <3>6. AtMostOne'
      BY <3>2 DEF PipeTyped, AtMostOne
    <3>7. /\ step' \in [Runs -> {"new", "clone", "prune", "fetch", "plan", "env", "create", "run",
                                 "check", "commit", "done"}]
          /\ \A c \in Runs \ {b} : step'[c] = step[c]
      BY <3>1 DEF PipeTyped
    <3>8. QED BY <3>2, <3>3, <3>5, <3>6, <3>7 DEF PipeTyped
  <2>3. QED BY <2>1, <2>2
<1>3. /\ box' \in [Runs -> {"none", "made", "lost", "kept", "gone"}] /\ envFile' \subseteq Runs
      /\ \A c \in Runs \ {b} : box'[c] = box[c] /\ (c \in envFile' <=> c \in envFile)
  BY DEF Create, Run, Verify, RemoveBox, PipeTyped
<1>4. \/ step'[b] = "run"
      \/ step'[b] \in {"check", "commit", "done"} /\ box'[b] # "made" /\ b \notin envFile'
  <2>1. CASE Create(b)
    <3>1. step[b] = "create" /\ box[b] = "none"
      BY <2>1 DEF Create, Goes, BoxByStep
    <3>2. CASE Goes(b, "create", "run")
      BY <3>2 DEF Goes, PipeTyped
    <3>3. CASE ~Goes(b, "create", "run")
      <4>1. Fails(b) /\ envFile' = envFile \ {b} /\ box' \in {box, [box EXCEPT ![b] = "lost"]}
        BY <2>1, <3>3 DEF Create
      <4>2. step'[b] = "done"
        BY <1>1, <4>1, FailsTyped
      <4>3. QED BY <3>1, <4>1, <4>2 DEF PipeTyped
    <3>4. QED BY <3>2, <3>3
  <2>2. CASE Run(b)
    <3>1. RemoveBox(b)
      BY <2>2 DEF Run
    <3>2. box'[b] # "made" /\ b \notin envFile'
      BY <3>1 DEF RemoveBox, PipeTyped
    <3>3. step'[b] \in {"check", "done"}
      BY <2>2 DEF Run, Fails, Returns, PipeTyped
    <3>4. QED BY <3>2, <3>3
  <2>3. CASE Verify(b)
    <3>1. step[b] = "check" /\ UNCHANGED <<box, envFile>> /\ step'[b] \in {"commit", "done"}
      BY <2>3 DEF Verify, Goes, Fails, Returns, PipeTyped
    <3>2. QED BY <3>1 DEF BoxByStep
  <2>4. QED BY <2>1, <2>2, <2>3
<1>5. BoxByStep'
  BY <1>2, <1>3, <1>4 DEF BoxByStep
<1>6. PipeTyped'
  BY <1>1, <1>2, <1>3 DEF PipeTyped
<1>7. SiteIsOfItsCommit'
  BY <1>1 DEF SiteIsOfItsCommit
<1>8. QED BY <1>2, <1>5, <1>6, <1>7

\* What is published lay in the directory of the commit.
LEMMA PipeCommits ==
  ASSUME PipeInv, NEW b \in Runs, Commit(b)
  PROVE  PipeInv'
<1> USE DEF PipeInv
<1>1. /\ step[b] = "commit" /\ UNCHANGED <<commitOf, driver, cut, box, envFile, buildRow>>
      /\ \E how \in {"published", "failed"} : Returns(b, how)
  BY DEF Commit
<1>2. /\ step' \in [Runs -> {"new", "clone", "prune", "fetch", "plan", "env", "create", "run",
                             "check", "commit", "done"}]
      /\ fate' \in [Runs -> {"none", "published", "skipped", "failed", "superseded"}]
      /\ AtMostOne' /\ step'[b] = "done" /\ \A c \in Runs \ {b} : step'[c] = step[c]
  BY <1>1, ReturnsTyped
<1>3. /\ tree' \in [Commits -> Runs \cup {"none"}] /\ output' \in [Commits -> SUBSET Runs]
      /\ OutputInPlace'
  <2>1. CASE Deleted({Dir(b)})
    BY <1>1, <2>1, DeletedKeeps
  <2>2. CASE UNCHANGED tree /\ output' = [output EXCEPT ![Dir(b)] = {}]
    BY <1>1, <2>2 DEF PipeTyped, OutputInPlace
  <2>3. QED BY <2>1, <2>2 DEF Commit
<1>4. logOf' \in [Runs -> {"none", "unopened", "open", "closed"}]
  BY DEF Commit, CloseLogOf, PipeTyped
<1>5. site' \in [Runs -> Commits \cup {"none"}] /\ SiteIsOfItsCommit'
  <2>1. CASE UNCHANGED site
    BY <1>1, <2>1 DEF PipeTyped, SiteIsOfItsCommit
  <2>2. CASE \E w \in output[Dir(b)] : site' = [site EXCEPT ![b] = commitOf[w]]
    <3>1. PICK w \in output[Dir(b)] : site' = [site EXCEPT ![b] = commitOf[w]]
      BY <2>2
    <3>2. Dir(b) \in Commits /\ commitOf[w] = commitOf[b] /\ commitOf[b] \in Commits
      BY DEF PipeTyped, OutputInPlace, Dir
    <3>3. site' = [site EXCEPT ![b] = commitOf[b]]
      BY <3>1, <3>2
    <3>4. QED BY <1>1, <3>2, <3>3 DEF PipeTyped, SiteIsOfItsCommit
  <2>3. QED BY <2>1, <2>2 DEF Commit
<1>6. BoxByStep'
  BY <1>1, <1>2 DEF BoxByStep
<1>7. PipeTyped'
  BY <1>1, <1>2, <1>3, <1>4, <1>5 DEF PipeTyped
<1>8. QED BY <1>3, <1>5, <1>6, <1>7

LEMMA PipelineGoesOn == PipeInv /\ [PipelineNext]_pipeVars => PipeInv'
<1> SUFFICES ASSUME PipeInv, [PipelineNext]_pipeVars PROVE PipeInv'
  OBVIOUS
<1>1. CASE Supersede
  BY <1>1 DEF Supersede, diskVars, recordVars, PipeInv, PipeTyped, AtMostOne, BoxByStep, OutputInPlace,
     SiteIsOfItsCommit
<1>2. CASE UNCHANGED pipeVars
  BY <1>2 DEF pipeVars, diskVars, recordVars, PipeInv, PipeTyped, AtMostOne, BoxByStep, OutputInPlace,
     SiteIsOfItsCommit
<1>3. QED BY <1>1, <1>2, PipeGoesOn, PipeEnds, PipeBuilds, PipeCommits DEF PipelineNext, PipelineStep

\* What is published for a commit was built from it (SiteIsOfItsCommit), however builds of
\* the preview overlap.
THEOREM SiteOfCommit == PipelineSpec => []SiteIsOfItsCommit
<1>1. QED BY PipeBeginning, PipelineGoesOn, PTL DEF PipelineSpec, PipeInv

\* A build that is over leaves neither environment file nor container
\* (NothingLeftRunning), but one docker would not remove or never named.
THEOREM NothingLeft == PipelineSpec => []NothingLeftRunning
<1>1. PipeInv => NothingLeftRunning
  BY DEF PipeInv, BoxByStep, NothingLeftRunning
<1>2. QED BY <1>1, PipeBeginning, PipelineGoesOn, PTL DEF PipelineSpec

\* Every variable of the pipeline has its type, and one build at most counts.
THEOREM PipelineTyped == PipelineSpec => []PipelineTypeOK
<1>1. PipeInv => PipelineTypeOK
  BY PipeTypes DEF PipeInv
<1>2. QED BY <1>1, PipeBeginning, PipelineGoesOn, PTL DEF PipelineSpec
-------------------------------------------------------------------------------
(* ZrokNames: a served share holds its name, the branch keeps its own, and     *)
(* a preview that is gone keeps none.                                          *)

\* A publication between its register call and its listener.
PublishSteps == {"register", "create", "reclaim", "again", "listen"}

\* A share is bound to one name, a name is served by one key, and none of the name that is
\* being published.
OneServer ==
  /\ \A m, n \in Names : bound[m] = bound[n] /\ bound[m] # 0 => m = n
  /\ \A j, k \in Keys : held[j] # 0 /\ held[k] # 0 /\ NameOf[j] = NameOf[k] => j = k
  /\ at.step \in PublishSteps => \A k \in Keys : NameOf[k] = Name => held[k] = 0

\* A name that needs no release: off the controller or going with its share, refused or
\* never recorded.
GivenBack(n) == reg[n] = "no" \/ (reg[n] = "spare" /\ bound[n] # 0)
Settled(n) == GivenBack(n) \/ n \in refused \cup unnamed

\* Every name is settled or a row names it, and what a retirement or a teardown is done
\* with is settled before its rows go.
Accounted ==
  /\ \A n \in Names : Settled(n) \/ \E k \in rows : NameOf[k] = n
  /\ at.step = "retire" => Name \in releasing \/ Settled(Name)
  /\ at.step = "clear" => Settled(Name)
  /\ at.step = "teardown" => \A n \in Names : n \in releasing \/ Settled(n)
  /\ at.step = "clear all" => \A n \in Names : Settled(n)

\* A retirement releases the name of its build and no other.
Releases ==
  /\ releasing # {} => at.step \in {"retire", "teardown"}
  /\ at.step = "retire" => at.key # Site /\ releasing \subseteq {Name}

NamesInv == NamesTypeOK /\ ServedHoldsName /\ OneServer /\ Accounted /\ Releases

\* Tokens are numbers.
LEMMA MadeIsNumber ==
  ASSUME NamesTypeOK
  PROVE  made \in Nat /\ MaxShares \in Nat /\ \A n \in Names : bound[n] \in Nat /\ bound[n] <= made
<1>1. MaxShares \in Nat
  BY NamesAssumption
<1>2. made \in 0..MaxShares /\ bound \in [Names -> 0..made]
  BY DEF NamesTypeOK
<1>3. QED BY <1>1, <1>2

\* What deleting shares does to the names.
LEMMA UnsharedEffect ==
  ASSUME NamesTypeOK, NEW gone, Unshared(gone)
  PROVE  /\ reg' \in [Names -> {"no", "reserved", "spare"}] /\ bound' \in [Names -> 0..made]
         /\ \A n \in Names : bound'[n] = IF bound[n] \in gone THEN 0 ELSE bound[n]
         /\ \A n \in Names : (reg[n] = "reserved") = (reg'[n] = "reserved")
         /\ \A n \in Names : GivenBack(n) => reg'[n] = "no" \/ (reg'[n] = "spare" /\ bound'[n] # 0)
<1>1. made \in Nat /\ bound \in [Names -> 0..made] /\ reg \in [Names -> {"no", "reserved", "spare"}]
  BY MadeIsNumber DEF NamesTypeOK
<1>2. /\ bound' = [n \in Names |-> IF bound[n] \in gone THEN 0 ELSE bound[n]]
      /\ reg' = [n \in Names |-> IF bound[n] \in gone /\ reg[n] = "spare" THEN "no" ELSE reg[n]]
  BY DEF Unshared
<1>3. /\ reg' \in [Names -> {"no", "reserved", "spare"}] /\ bound' \in [Names -> 0..made]
      /\ \A n \in Names : bound'[n] = IF bound[n] \in gone THEN 0 ELSE bound[n]
  BY <1>1, <1>2
<1>4. \A n \in Names : (reg[n] = "reserved") = (reg'[n] = "reserved")
  BY <1>1, <1>2
<1>5. \A n \in Names : GivenBack(n) => reg'[n] = "no" \/ (reg'[n] = "spare" /\ bound'[n] # 0)
  BY <1>1, <1>2 DEF GivenBack
<1>6. QED BY <1>3, <1>4, <1>5

\* The names that are served keep their shares when others' are deleted.
LEMMA UnsharedSpares ==
  ASSUME NamesTypeOK, ServedHoldsName, OneServer, NEW ks \in SUBSET Keys, SomeUnshared({held[k] : k \in ks}),
         \A k \in Keys : held'[k] = IF k \in ks THEN 0 ELSE held[k]
  PROVE  /\ ServedHoldsName'
         /\ \A m, n \in Names : bound'[m] = bound'[n] /\ bound'[m] # 0 => m = n
         /\ \A j, k \in Keys : held'[j] # 0 /\ held'[k] # 0 /\ NameOf[j] = NameOf[k] => j = k
         /\ \A k \in Keys : held'[k] \in {0, held[k]}
<1>1. PICK gone \in SUBSET ({held[k] : k \in ks} \ {0}) : Unshared(gone)
  BY DEF SomeUnshared
<1>2. \A n \in Names : bound'[n] = IF bound[n] \in gone THEN 0 ELSE bound[n]
  BY <1>1, UnsharedEffect
<1>3. \A k \in Keys : NameOf[k] \in Names
  BY DEF Names
<1>4. ASSUME NEW j \in Keys, held'[j] # 0 PROVE bound'[NameOf[j]] = held'[j]
  <2>1. j \notin ks /\ held'[j] = held[j] /\ bound[NameOf[j]] = held[j]
    BY <1>4 DEF ServedHoldsName
  <2>2. ASSUME NEW k \in ks, held[k] = held[j] PROVE FALSE
    <3>1. bound[NameOf[k]] = held[k]
      BY <1>4, <2>1, <2>2 DEF ServedHoldsName
    <3>2. NameOf[k] = NameOf[j]
      BY <1>3, <1>4, <2>1, <2>2, <3>1 DEF OneServer
    <3>3. QED BY <1>4, <2>1, <2>2, <3>2 DEF OneServer
  <2>3. held[j] \notin gone
    BY <1>1, <2>2
  <2>4. QED BY <1>2, <1>3, <2>1, <2>3
<1>5. ServedHoldsName'
  BY <1>4 DEF ServedHoldsName
<1>6. QED BY <1>2, <1>5 DEF OneServer

\* One share is deleted that no key serves.
LEMMA UnservedGoes ==
  ASSUME NamesTypeOK, ServedHoldsName, OneServer, at.step \in PublishSteps, NEW gone \in SUBSET {bound[Name]},
         0 \notin gone, Unshared(gone), UNCHANGED held
  PROVE  /\ ServedHoldsName'
         /\ \A m, n \in Names : bound'[m] = bound'[n] /\ bound'[m] # 0 => m = n
<1>1. \A n \in Names : bound'[n] = IF bound[n] \in gone THEN 0 ELSE bound[n]
  BY UnsharedEffect
<1>2. Name \in Names /\ \A k \in Keys : NameOf[k] \in Names
  BY DEF Names, Name, NamesTypeOK
<1>3. ASSUME NEW k \in Keys, held[k] # 0 PROVE bound'[NameOf[k]] = held[k]
  <2>1. bound[NameOf[k]] = held[k] /\ NameOf[k] # Name
    BY <1>3 DEF ServedHoldsName, OneServer
  <2>2. bound[NameOf[k]] # bound[Name]
    BY <1>2, <1>3, <2>1 DEF OneServer
  <2>3. QED BY <1>1, <1>2, <2>1, <2>2
<1>4. QED BY <1>1, <1>3 DEF ServedHoldsName, OneServer

\* A share is made for a name that holds none.
LEMMA CreatedServes ==
  ASSUME NamesTypeOK, ServedHoldsName, OneServer, NEW t \in Tokens, Created(t), UNCHANGED held
  PROVE  /\ ServedHoldsName'
         /\ \A m, n \in Names : bound'[m] = bound'[n] /\ bound'[m] # 0 => m = n
         /\ bound' \in [Names -> 0..made'] /\ made' \in 0..MaxShares /\ keyOf' \in [Tokens -> Keys]
         /\ made' \in Nat /\ made' >= made
<1>1. /\ made' = made + 1 /\ t = made + 1 /\ made < MaxShares /\ bound[Name] = 0
      /\ bound' = [bound EXCEPT ![Name] = t] /\ keyOf' = [keyOf EXCEPT ![t] = at.key]
  BY DEF Created
<1>2. Name \in Names /\ (\A k \in Keys : NameOf[k] \in Names) /\ at.key \in Keys
  BY DEF Names, Name, NamesTypeOK
<1>3. /\ made \in Nat /\ MaxShares \in Nat /\ \A n \in Names : bound[n] \in Nat /\ bound[n] <= made
  BY MadeIsNumber
<1>4. bound' \in [Names -> 0..made'] /\ made' \in 0..MaxShares
  <2>1. bound \in [Names -> 0..made]
    BY DEF NamesTypeOK
  <2>2. t \in 0..made' /\ \A n \in 0..made : n \in 0..made'
    BY <1>1, <1>3
  <2>3. QED BY <1>1, <1>2, <1>3, <2>1, <2>2
<1>5. keyOf' \in [Tokens -> Keys]
  BY <1>1, <1>2 DEF NamesTypeOK
<1>6. ServedHoldsName'
  <2> SUFFICES ASSUME NEW k \in Keys, held[k] # 0 PROVE bound'[NameOf[k]] = held[k]
    BY DEF ServedHoldsName
  <2>1. NameOf[k] # Name
    BY <1>1 DEF ServedHoldsName
  <2>2. QED BY <1>1, <1>2, <2>1 DEF ServedHoldsName, NamesTypeOK
<1>7. \A m, n \in Names : bound'[m] = bound'[n] /\ bound'[m] # 0 => m = n
  <2>1. \A n \in Names : bound'[n] = IF n = Name THEN t ELSE bound[n]
    BY <1>1 DEF NamesTypeOK
  <2>2. QED BY <1>1, <1>3, <2>1 DEF OneServer
<1>8. QED BY <1>1, <1>3, <1>4, <1>5, <1>6, <1>7

NameSteps == {"rest", "register", "create", "reclaim", "again", "listen", "record", "retire", "teardown", "clear",
          "clear all"}

\* The step under way moves on, its call is made again, or it rests.
LEMMA AtTyped ==
  ASSUME NamesTypeOK,
         \/ \E s \in NameSteps, k \in Keys, n \in 0..1 : at' = [step |-> s, key |-> k, try |-> n]
         \/ \E s \in NameSteps : ShareGoes(s) \/ at' = [at EXCEPT !.step = s]
         \/ Retried \/ at' = Rest \/ at' = at
  PROVE  at' \in [step : NameSteps, key : Keys, try : 0..4]
<1>1. at \in [step : NameSteps, key : Keys, try : 0..4]
  BY DEF NamesTypeOK, NameSteps
<1>2. CASE Retried
  <2>1. PICK e \in DOMAIN Waits : at.try <= Waits[e] /\ at' = [at EXCEPT !.try = @ + 1]
    BY <1>2 DEF Retried
  <2>2. Waits[e] \in {2, 3}
    BY DEF Waits
  <2>3. at.try + 1 \in 0..4
    BY <1>1, <2>1, <2>2
  <2>4. QED BY <1>1, <2>1, <2>3
<1>3. CASE at' = Rest
  BY <1>3, NamesAssumption DEF Rest, NameSteps
<1>4. CASE \E s \in NameSteps : ShareGoes(s) \/ at' = [at EXCEPT !.step = s]
  <2>1. \A s \in NameSteps, n \in 0..4 : [at EXCEPT !.step = s, !.try = n] \in [step : NameSteps, key : Keys, try : 0..4]
    BY <1>1
  <2>2. 1 \in 0..4
    OBVIOUS
  <2>3. QED BY <1>1, <1>4, <2>1, <2>2 DEF ShareGoes
<1>5. CASE \E s \in NameSteps, k \in Keys, n \in 0..1 : at' = [step |-> s, key |-> k, try |-> n]
  BY <1>5
<1>6. QED BY <1>1, <1>2, <1>3, <1>4, <1>5

\* Every step keeps the types.
LEMMA NamesTyped ==
  ASSUME NamesTypeOK, NamesNext
  PROVE  NamesTypeOK'
<1>7. /\ made \in Nat /\ MaxShares \in Nat /\ made \in 0..MaxShares /\ bound \in [Names -> 0..made]
      /\ reg \in [Names -> {"no", "reserved", "spare"}] /\ keyOf \in [Tokens -> Keys]
      /\ held \in [Keys -> 0..made] /\ 0 \in 0..made /\ made <= made
  <2>1. made \in Nat /\ MaxShares \in Nat
    BY MadeIsNumber
  <2>2. made \in 0..MaxShares /\ 0 \in 0..made /\ made <= made
    <3>1. made \in 0..MaxShares
      BY DEF NamesTypeOK
    <3>2. QED BY <2>1, <3>1
  <2>3. QED BY <2>1, <2>2 DEF NamesTypeOK
<1>1. /\ reg' \in [Names -> {"no", "reserved", "spare"}] /\ made' \in 0..MaxShares
      /\ keyOf' \in [Tokens -> Keys] /\ made \in Nat /\ made' \in Nat /\ made' >= made
      /\ bound' \in [Names -> 0..made']
  <2>1. CASE UNCHANGED <<bound, keyOf, made>> /\ \/ UNCHANGED reg
                                                 \/ \E n \in Names, s \in {"no", "reserved", "spare"} : reg' = [reg EXCEPT ![n] = s]
    BY <1>7, <2>1
  <2>2. CASE UNCHANGED <<keyOf, made>> /\ \E gone : Unshared(gone)
    <3>1. PICK gone : Unshared(gone)
      BY <2>2
    <3>2. reg' \in [Names -> {"no", "reserved", "spare"}] /\ bound' \in [Names -> 0..made]
      BY <3>1, UnsharedEffect
    <3>3. QED BY <1>7, <2>2, <3>2
  <2>3. CASE UNCHANGED reg /\ \E t \in Tokens : Created(t)
    <3>1. PICK t \in Tokens : Created(t)
      BY <2>3
    <3>2. /\ made' = made + 1 /\ t = made + 1 /\ made < MaxShares
          /\ bound' = [bound EXCEPT ![Name] = t] /\ keyOf' = [keyOf EXCEPT ![t] = at.key]
      BY <3>1 DEF Created
    <3>3. t \in 0..made' /\ (\A n \in 0..made : n \in 0..made') /\ made' \in 0..MaxShares
          /\ made' \in Nat /\ made' >= made
      BY <1>7, <3>2
    <3>4. bound' \in [Names -> 0..made']
      BY <1>7, <3>2, <3>3
    <3>5. keyOf' \in [Tokens -> Keys] /\ reg' = reg
      BY <1>7, <2>3, <3>2 DEF NamesTypeOK
    <3>6. QED BY <1>7, <3>3, <3>4, <3>5
  <2>4. Name \in Names
    BY DEF Name, Names, NamesTypeOK
  <2>5. CASE Register \/ Teardown \/ ClearRows \/ \E k \in Keys : Retire(k)
    BY <2>1, <2>4, <2>5 DEF Register, Teardown, ClearRows, Retire
  <2>6. CASE \E n \in Names : Dereserve(n) \/ DeleteName(n)
    BY <2>1, <2>6 DEF Dereserve, DeleteName
  <2>7. CASE \E k \in Keys : PublishStart(k)
    BY <2>2, <2>7 DEF PublishStart, SomeUnshared
  <2>8. CASE Withdraw \/ RestartZrok
    BY <2>2, <2>8 DEF Withdraw, RestartZrok, SomeUnshared
  <2>9. CASE CreateShare \/ CreateAgain
    BY <2>1, <2>3, <2>9 DEF CreateShare, CreateAgain
  <2>10. CASE Listen \/ RecordRow \/ Reclaim
    BY <2>1, <2>2, <2>10 DEF Listen, RecordRow, Reclaim, SomeUnshared
  <2>11. QED BY <2>5, <2>6, <2>7, <2>8, <2>9, <2>10 DEF NamesNext
<1>2. held' \in [Keys -> 0..made']
  <2>1. \A n \in 0..made : n \in 0..made'
    BY <1>1
  <2>2. bound \in [Names -> 0..made] /\ held \in [Keys -> 0..made] /\ 0 \in 0..made
    BY <1>7
  <2>3. CASE \E k \in Keys, n \in 0..made : held' = [held EXCEPT ![k] = n]
    BY <2>1, <2>2, <2>3
  <2>4. CASE \E ks : held' = [k \in Keys |-> IF k \in ks THEN 0 ELSE held[k]]
    BY <2>1, <2>2, <2>4
  <2>5. CASE UNCHANGED held
    BY <2>1, <2>2, <2>5
  <2>6. Name \in Names /\ at.key \in Keys
    BY DEF Name, Names, NamesTypeOK
  <2>7. CASE Register \/ Teardown \/ ClearRows \/ \E k \in Keys : Retire(k)
    BY <2>5, <2>7 DEF Register, Teardown, ClearRows, Retire
  <2>8. CASE \E n \in Names : Dereserve(n) \/ DeleteName(n)
    BY <2>5, <2>8 DEF Dereserve, DeleteName
  <2>9. CASE (\E k \in Keys : PublishStart(k)) \/ Withdraw
    <3>1. CASE \E k \in Keys : PublishStart(k)
      <4>1. PICK k \in Keys : PublishStart(k)
        BY <3>1
      <4>2. held' = [j \in Keys |-> IF j \in {i \in Keys : NameOf[i] = NameOf[k] /\ held[i] # 0} THEN 0 ELSE held[j]]
        BY <4>1 DEF PublishStart
      <4>3. QED BY <2>4, <4>2
    <3>2. CASE Withdraw
      <4>1. held' = [k \in Keys |-> IF k \in (IF at.step = "retire" THEN {at.key} ELSE Keys) THEN 0 ELSE held[k]]
        BY <3>2 DEF Withdraw
      <4>2. QED BY <2>4, <4>1
    <3>3. QED BY <2>9, <3>1, <3>2
  <2>10. CASE CreateShare \/ CreateAgain \/ Reclaim
    BY <2>5, <2>10 DEF CreateShare, CreateAgain, Reclaim
  <2>11. CASE Listen
    BY <2>2, <2>3, <2>5, <2>6, <2>11 DEF Listen
  <2>12. CASE RecordRow
    BY <2>2, <2>3, <2>5, <2>12 DEF RecordRow
  <2>13. CASE RestartZrok
    <3>1. \A k \in Keys : NameOf[k] \in Names
      BY DEF Names
    <3>2. bound' \in [Names -> 0..made'] /\ 0 \in 0..made'
      BY <1>1
    <3>3. QED BY <2>13, <3>1, <3>2 DEF RestartZrok
  <2>14. QED BY <2>7, <2>8, <2>9, <2>10, <2>11, <2>12, <2>13 DEF NamesNext
<1>3. at' \in [step : NameSteps, key : Keys, try : 0..4]
  <2>1. CASE (\E k \in Keys : PublishStart(k) \/ Retire(k)) \/ Teardown
    <3>1. \E s \in NameSteps, k \in Keys, n \in 0..1 : at' = [step |-> s, key |-> k, try |-> n]
      <4>1. CASE \E k \in Keys : PublishStart(k)
        BY <4>1, 1 \in 0..1 DEF PublishStart, NameSteps
      <4>2. CASE \E k \in Keys : Retire(k)
        BY <4>2, 0 \in 0..1 DEF Retire, NameSteps
      <4>3. CASE Teardown
        BY <4>3, NamesAssumption, 0 \in 0..1 DEF Teardown, NameSteps
      <4>4. QED BY <2>1, <4>1, <4>2, <4>3
    <3>2. QED BY <3>1, AtTyped
  <2>2. CASE Register \/ CreateShare \/ Reclaim \/ CreateAgain \/ Listen
    <3>1. (\E s \in NameSteps : ShareGoes(s)) \/ Retried \/ at' = Rest
      BY <2>2 DEF Register, CreateShare, Reclaim, CreateAgain, Listen, GivesUp, ShareGoes, NameSteps
    <3>2. QED BY <3>1, AtTyped
  <2>3. CASE RecordRow \/ ClearRows \/ RestartZrok \/ \E n \in Names : Dereserve(n) \/ DeleteName(n)
    BY <2>3, AtTyped DEF RecordRow, ClearRows, RestartZrok, Dereserve, DeleteName
  <2>4. CASE Withdraw
    <3>1. \E s \in NameSteps : at' = [at EXCEPT !.step = s]
      BY <2>4 DEF Withdraw, NameSteps
    <3>2. QED BY <3>1, AtTyped
  <2>5. QED BY <2>1, <2>2, <2>3, <2>4 DEF NamesNext
<1>4. rows' \subseteq Keys /\ unnamed' \subseteq Names
  <2>1. rows \subseteq Keys /\ unnamed \subseteq Names /\ at.key \in Keys /\ Name \in Names
    BY DEF NamesTypeOK, Name, Names
  <2>2. CASE UNCHANGED <<rows, unnamed>>
    BY <2>1, <2>2
  <2>3. CASE Register
    BY <2>1, <2>3 DEF Register
  <2>4. CASE RecordRow
    BY <2>1, <2>4 DEF RecordRow
  <2>5. CASE ClearRows
    BY <2>1, <2>5 DEF ClearRows
  <2>6. Register \/ RecordRow \/ ClearRows \/ UNCHANGED <<rows, unnamed>>
    <3>1. (\E k \in Keys : PublishStart(k) \/ Retire(k)) \/ CreateShare \/ Reclaim \/ CreateAgain \/ Listen
            => UNCHANGED <<rows, unnamed>>
      BY DEF PublishStart, Retire, CreateShare, Reclaim, CreateAgain, Listen
    <3>2. Teardown \/ (\E n \in Names : Dereserve(n) \/ DeleteName(n)) \/ Withdraw \/ RestartZrok
            => UNCHANGED <<rows, unnamed>>
      BY DEF Teardown, Dereserve, DeleteName, Withdraw, RestartZrok
    <3>3. QED BY <3>1, <3>2 DEF NamesNext
  <2>7. QED BY <2>2, <2>3, <2>4, <2>5, <2>6
<1>5. releasing' \subseteq Names /\ refused' \subseteq Names
  BY DEF NamesNext, PublishStart, Retire, Register, CreateShare, Reclaim, CreateAgain, Listen, RecordRow, Teardown,
     Dereserve, DeleteName, Withdraw, ClearRows, RestartZrok, Name, Names, NamesTypeOK
<1>8. restarts' \in 0..MaxRestarts
  <2>1. restarts' = restarts \/ (restarts < MaxRestarts /\ restarts' = restarts + 1)
    BY DEF NamesNext, PublishStart, Retire, Register, CreateShare, Reclaim, CreateAgain, Listen, RecordRow, Teardown,
       Dereserve, DeleteName, Withdraw, ClearRows, RestartZrok
  <2>2. restarts \in 0..MaxRestarts /\ MaxRestarts \in Nat
    BY NamesAssumption DEF NamesTypeOK
  <2>3. QED BY <2>1, <2>2
<1>6. QED BY <1>1, <1>2, <1>3, <1>4, <1>5, <1>8 DEF NamesTypeOK, NameSteps

\* What becomes of the step under way.
LEMMA AtMoves ==
  ASSUME NamesTypeOK
  PROVE  /\ \A s : ShareGoes(s) \/ GivesUp(s) => at'.step = s /\ at'.key = at.key
         /\ Retried => at'.step = at.step /\ at'.key = at.key
         /\ at' = Rest => at'.step = "rest"
<1>1. at \in [step : NameSteps, key : Keys, try : 0..4]
  BY DEF NamesTypeOK, NameSteps
<1>2. ASSUME NEW s, ShareGoes(s) \/ GivesUp(s) PROVE at'.step = s /\ at'.key = at.key
  BY <1>1, <1>2 DEF ShareGoes, GivesUp
<1>3. Retried => at'.step = at.step /\ at'.key = at.key
  BY <1>1 DEF Retried
<1>4. at' = Rest => at'.step = "rest"
  BY DEF Rest
<1>5. QED BY <1>2, <1>3, <1>4

\* The served shares stay bound, and each name is served by one key.
LEMMA ServedKept ==
  ASSUME NamesTypeOK, ServedHoldsName, OneServer, NamesNext
  PROVE  ServedHoldsName' /\ OneServer'
<1>1. NamesTypeOK'
  BY NamesTyped
<1>2. at.key \in Keys /\ \A k \in Keys : held[k] \in Nat
  <2>1. made \in Nat /\ held \in [Keys -> 0..made] /\ at.key \in Keys
    BY MadeIsNumber DEF NamesTypeOK
  <2>2. QED BY <2>1
<1>3. ASSUME UNCHANGED <<bound, held>>,
             at'.step \in PublishSteps => at.step \in PublishSteps /\ at'.key = at.key
      PROVE  ServedHoldsName' /\ OneServer'
  BY <1>3 DEF ServedHoldsName, OneServer, Name
<1>4. CASE \E k \in Keys : PublishStart(k)
  <2>1. PICK k \in Keys : PublishStart(k)
    BY <1>4
  <2> DEFINE old == {j \in Keys : NameOf[j] = NameOf[k] /\ held[j] # 0}
  <2>2. SomeUnshared({held[j] : j \in old}) /\ held' = [j \in Keys |-> IF j \in old THEN 0 ELSE held[j]] /\ at'.key = k
    BY <2>1 DEF PublishStart
  <2>3. old \in SUBSET Keys /\ \A j \in Keys : held'[j] = IF j \in old THEN 0 ELSE held[j]
    BY <2>2
  <2>4. /\ ServedHoldsName'
        /\ \A m, n \in Names : bound'[m] = bound'[n] /\ bound'[m] # 0 => m = n
        /\ \A j, i \in Keys : held'[j] # 0 /\ held'[i] # 0 /\ NameOf[j] = NameOf[i] => j = i
    <3> HIDE DEF old
    <3>1. QED BY <2>2, <2>3, UnsharedSpares
  <2>5. \A j \in Keys : NameOf[j] = NameOf[k] => held'[j] = 0
    BY <2>3
  <2>6. QED BY <2>2, <2>4, <2>5 DEF OneServer, Name
<1>5. CASE Register \/ Teardown \/ ClearRows \/ \E k \in Keys : Retire(k)
  <2>1. UNCHANGED <<bound, held>>
    BY <1>5 DEF Register, Teardown, ClearRows, Retire
  <2>2. at'.step \in PublishSteps => at.step \in PublishSteps /\ at'.key = at.key
    <3>1. CASE Register
      BY <3>1, AtMoves DEF Register, PublishSteps
    <3>2. CASE Teardown \/ ClearRows \/ \E k \in Keys : Retire(k)
      <4>1. at'.step \in {"teardown", "rest", "retire"}
        <5>1. Teardown => at'.step = "teardown"
          BY DEF Teardown
        <5>2. ClearRows => at'.step = "rest"
          BY AtMoves DEF ClearRows
        <5>3. (\E k \in Keys : Retire(k)) => at'.step = "retire"
          BY DEF Retire
        <5>4. QED BY <3>2, <5>1, <5>2, <5>3
      <4>2. QED BY <4>1 DEF PublishSteps
    <3>3. QED BY <1>5, <3>1, <3>2
  <2>3. QED BY <1>3, <2>1, <2>2
<1>6. CASE \E n \in Names : Dereserve(n) \/ DeleteName(n)
  BY <1>3, <1>6 DEF Dereserve, DeleteName
<1>7. CASE CreateShare \/ CreateAgain
  <2>1. UNCHANGED held /\ at.step \in PublishSteps /\ (at'.step \in PublishSteps => at'.key = at.key)
    BY <1>7, AtMoves DEF CreateShare, CreateAgain, PublishSteps
  <2>2. CASE UNCHANGED bound
    BY <1>3, <2>1, <2>2
  <2>3. CASE \E t \in Tokens : Created(t)
    <3>1. ServedHoldsName' /\ \A m, n \in Names : bound'[m] = bound'[n] /\ bound'[m] # 0 => m = n
      BY <2>1, <2>3, CreatedServes
    <3>2. QED BY <2>1, <3>1 DEF OneServer, Name
  <2>4. QED BY <1>7, <2>2, <2>3 DEF CreateShare, CreateAgain
<1>8. CASE Reclaim
  <2>1. UNCHANGED held /\ at.step \in PublishSteps /\ (at'.step \in PublishSteps => at'.key = at.key)
    BY <1>8, AtMoves DEF Reclaim, PublishSteps
  <2>2. CASE UNCHANGED bound
    BY <1>3, <2>1, <2>2
  <2>3. CASE bound[Name] # 0 /\ Unshared({bound[Name]})
    <3>1. ServedHoldsName' /\ \A m, n \in Names : bound'[m] = bound'[n] /\ bound'[m] # 0 => m = n
      BY <2>1, <2>3, UnservedGoes
    <3>2. QED BY <2>1, <3>1 DEF OneServer, Name
  <2>4. QED BY <1>8, <2>2, <2>3 DEF Reclaim
<1>9. CASE Listen
  <2>1. at.step \in PublishSteps
    BY <1>9 DEF Listen, PublishSteps
  <2>2. CASE held' = [held EXCEPT ![at.key] = bound[Name]] /\ ShareGoes("record") /\ UNCHANGED bound
    <3>1. at'.step \notin PublishSteps
      BY <2>2 DEF ShareGoes, PublishSteps, NamesTypeOK
    <3>2. \A k \in Keys : held'[k] = IF k = at.key THEN bound[Name] ELSE held[k]
      BY <1>2, <2>2 DEF NamesTypeOK
    <3>3. \A k \in Keys : k # at.key /\ NameOf[k] = Name => held'[k] = 0
      BY <2>1, <3>2 DEF OneServer
    <3>4. Name = NameOf[at.key]
      BY DEF Name
    <3>5. ServedHoldsName'
      BY <2>2, <3>2, <3>4 DEF ServedHoldsName
    <3>6. \A j, k \in Keys : held'[j] # 0 /\ held'[k] # 0 /\ NameOf[j] = NameOf[k] => j = k
      BY <3>2, <3>3, <3>4 DEF OneServer
    <3>7. QED BY <2>2, <3>1, <3>5, <3>6 DEF OneServer
  <2>3. CASE Retried /\ UNCHANGED <<bound, held>>
    BY <1>3, <2>1, <2>3 DEF Retried, NamesTypeOK
  <2>4. CASE SomeUnshared({bound[Name]}) /\ at' = Rest /\ UNCHANGED held
    <3>1. PICK gone \in SUBSET ({bound[Name]} \ {0}) : Unshared(gone)
      BY <2>4 DEF SomeUnshared
    <3>2. gone \in SUBSET {bound[Name]} /\ 0 \notin gone
      BY <3>1
    <3>3. ServedHoldsName' /\ \A m, n \in Names : bound'[m] = bound'[n] /\ bound'[m] # 0 => m = n
      BY <2>1, <2>4, <3>1, <3>2, UnservedGoes
    <3>4. QED BY <2>4, <3>3 DEF OneServer, Rest, PublishSteps
  <2>5. QED BY <1>9, <2>2, <2>3, <2>4 DEF Listen
<1>10. CASE RecordRow
  <2>1. at' = Rest
    BY <1>10 DEF RecordRow
  <2>2. CASE UNCHANGED <<bound, held>>
    BY <1>3, <2>1, <2>2 DEF Rest, PublishSteps
  <2>3. CASE SomeUnshared({held[Site]}) /\ held' = [held EXCEPT ![Site] = 0]
    <3> DEFINE ks == {Site}
    <3>1. ks \in SUBSET Keys /\ {held[k] : k \in ks} = {held[Site]}
      BY NamesAssumption
    <3>2. \A k \in Keys : held'[k] = IF k \in ks THEN 0 ELSE held[k]
      BY <2>3 DEF NamesTypeOK
    <3>3. SomeUnshared({held[k] : k \in ks})
      BY <2>3, <3>1
    <3>4. /\ ServedHoldsName'
          /\ \A m, n \in Names : bound'[m] = bound'[n] /\ bound'[m] # 0 => m = n
          /\ \A j, k \in Keys : held'[j] # 0 /\ held'[k] # 0 /\ NameOf[j] = NameOf[k] => j = k
      <4> HIDE DEF ks
      <4>1. QED BY <3>1, <3>2, <3>3, UnsharedSpares
    <3>5. QED BY <2>1, <3>4 DEF OneServer, Rest, PublishSteps
  <2>4. QED BY <1>10, <2>2, <2>3 DEF RecordRow
<1>11. CASE Withdraw
  <2> DEFINE ks == IF at.step = "retire" THEN {at.key} ELSE Keys
  <2>1. /\ SomeUnshared({held[k] : k \in ks}) /\ held' = [k \in Keys |-> IF k \in ks THEN 0 ELSE held[k]]
        /\ at'.step \notin PublishSteps
    BY <1>11 DEF Withdraw, PublishSteps, NamesTypeOK
  <2>2. ks \in SUBSET Keys /\ \A k \in Keys : held'[k] = IF k \in ks THEN 0 ELSE held[k]
    BY <1>2, <2>1
  <2>3. /\ ServedHoldsName'
        /\ \A m, n \in Names : bound'[m] = bound'[n] /\ bound'[m] # 0 => m = n
        /\ \A j, k \in Keys : held'[j] # 0 /\ held'[k] # 0 /\ NameOf[j] = NameOf[k] => j = k
    <3> HIDE DEF ks
    <3>1. QED BY <2>1, <2>2, UnsharedSpares
  <2>4. QED BY <2>1, <2>3 DEF OneServer
<1>12. CASE RestartZrok
  <2>1. PICK gone : Unshared(gone)
    BY <1>12 DEF RestartZrok, SomeUnshared
  <2>2. \A n \in Names : bound'[n] = IF bound[n] \in gone THEN 0 ELSE bound[n]
    BY <2>1, UnsharedEffect
  <2>3. /\ at' = Rest
        /\ \A k \in Keys : held'[k] = IF k \in rows /\ bound'[NameOf[k]] # 0 /\ keyOf[bound'[NameOf[k]]] = k
                                      THEN bound'[NameOf[k]] ELSE 0
    BY <1>12 DEF RestartZrok
  <2>4. ServedHoldsName'
    BY <2>3 DEF ServedHoldsName
  <2>5. \A m, n \in Names : bound'[m] = bound'[n] /\ bound'[m] # 0 => m = n
    BY <2>2 DEF OneServer
  <2>6. \A j, k \in Keys : held'[j] # 0 /\ held'[k] # 0 /\ NameOf[j] = NameOf[k] => j = k
    BY <2>3
  <2>7. QED BY <2>3, <2>4, <2>5, <2>6 DEF OneServer, Rest, PublishSteps
<1>13. QED BY <1>4, <1>5, <1>6, <1>7, <1>8, <1>9, <1>10, <1>11, <1>12 DEF NamesNext

\* Nothing that is settled is unsettled by a deletion of shares, ...
LEMMA SettledUnshared ==
  ASSUME NamesTypeOK, NEW gone, Unshared(gone), UNCHANGED <<refused, unnamed>>, NEW n \in Names, Settled(n)
  PROVE  Settled(n)'
<1>1. GivenBack(n) => reg'[n] = "no" \/ (reg'[n] = "spare" /\ bound'[n] # 0)
  BY UnsharedEffect
<1>2. QED BY <1>1 DEF Settled, GivenBack

\* ... nor by a publication, up to its row.
LEMMA SettledPublishing ==
  ASSUME NamesTypeOK, NEW n \in Names, Settled(n),
         (\E k \in Keys : PublishStart(k)) \/ Register \/ CreateShare \/ Reclaim \/ CreateAgain \/ Listen
  PROVE  Settled(n)'
<1>1. ASSUME NEW gone, Unshared(gone), UNCHANGED <<refused, unnamed>> PROVE Settled(n)'
  BY <1>1, SettledUnshared
<1>2. ASSUME UNCHANGED <<reg, bound, refused, unnamed>> PROVE Settled(n)'
  BY <1>2 DEF Settled, GivenBack
<1>3. CASE Register
  <2>1. CASE UNCHANGED <<reg, unnamed>>
    BY <1>2, <1>3, <2>1 DEF Register
  <2>2. CASE reg' = [reg EXCEPT ![Name] = "reserved"] /\ unnamed' = unnamed \cup {Name}
    BY <1>3, <2>2 DEF Register, Settled, GivenBack, NamesTypeOK
  <2>3. QED BY <1>3, <2>1, <2>2 DEF Register
<1>4. CASE CreateShare \/ CreateAgain
  <2>1. UNCHANGED <<reg, refused, unnamed>>
    BY <1>4 DEF CreateShare, CreateAgain
  <2>2. CASE UNCHANGED bound
    BY <1>2, <2>1, <2>2
  <2>3. CASE \E t \in Tokens : Created(t)
    <3>1. PICK t \in Tokens : Created(t)
      BY <2>3
    <3>2. bound[Name] = 0 /\ bound' = [bound EXCEPT ![Name] = t]
      BY <3>1 DEF Created
    <3>3. bound[n] # 0 => bound'[n] = bound[n]
      BY <3>2
    <3>4. QED BY <2>1, <3>3 DEF Settled, GivenBack
  <2>4. QED BY <1>4, <2>2, <2>3 DEF CreateShare, CreateAgain
<1>5. CASE (\E k \in Keys : PublishStart(k)) \/ Reclaim \/ Listen
  <2>1. UNCHANGED <<refused, unnamed>> /\ (UNCHANGED <<reg, bound>> \/ \E gone : Unshared(gone))
    BY <1>5 DEF PublishStart, Reclaim, Listen, SomeUnshared
  <2>2. QED BY <1>1, <1>2, <2>1
<1>6. QED BY <1>3, <1>4, <1>5

\* Every name is settled or has a row, after every step.
LEMMA AccountedKept ==
  ASSUME NamesTypeOK, Accounted, NamesNext
  PROVE  Accounted'
<1>1. at.key \in Keys /\ Name \in Names
  BY DEF NamesTypeOK, Name, Names
<1>2. CASE (\E k \in Keys : PublishStart(k)) \/ Register \/ CreateShare \/ Reclaim \/ CreateAgain \/ Listen
  <2>1. UNCHANGED rows
    BY <1>2 DEF PublishStart, Register, CreateShare, Reclaim, CreateAgain, Listen
  <2>2. at'.step \in {"rest", "register", "create", "reclaim", "again", "listen", "record"}
    <3>1. CASE \E k \in Keys : PublishStart(k)
      BY <3>1 DEF PublishStart
    <3>2. CASE Register \/ CreateShare \/ Reclaim \/ CreateAgain \/ Listen
      BY <3>2, AtMoves DEF Register, CreateShare, Reclaim, CreateAgain, Listen
    <3>3. QED BY <1>2, <3>1, <3>2
  <2>3. \A n \in Names : Settled(n) => Settled(n)'
    BY <1>2, SettledPublishing
  <2>4. QED BY <2>1, <2>2, <2>3 DEF Accounted
<1>3. CASE RecordRow
  <2>1. at'.step = "rest" /\ UNCHANGED refused
    BY <1>3, AtMoves DEF RecordRow
  <2>2. CASE rows' = rows \cup {at.key} /\ unnamed' = unnamed \ {Name} /\ UNCHANGED <<reg, bound>>
    <3>1. \A n \in Names \ {Name} : Settled(n) => Settled(n)'
      BY <2>1, <2>2 DEF Settled, GivenBack
    <3>2. NameOf[at.key] = Name
      BY DEF Name
    <3>3. QED BY <2>1, <2>2, <3>1, <3>2 DEF Accounted
  <2>3. CASE /\ at.key = Site /\ rows' = rows \ {Site} /\ unnamed' = unnamed \cup {Name}
             /\ \E gone : Unshared(gone)
    <3>1. PICK gone : Unshared(gone)
      BY <2>3
    <3>2. \A n \in Names : GivenBack(n) => GivenBack(n)'
      BY <3>1, UnsharedEffect DEF GivenBack
    <3>3. \A n \in Names : Settled(n) => Settled(n)'
      BY <2>1, <2>3, <3>2 DEF Settled
    <3>4. Settled(NameOf[Site])'
      BY <2>3 DEF Settled, Name
    <3>5. QED BY <2>1, <2>3, <3>3, <3>4 DEF Accounted
  <2>4. QED BY <1>3, <2>2, <2>3 DEF RecordRow, SomeUnshared
<1>4. CASE Teardown \/ \E k \in Keys : Retire(k)
  <2>1. UNCHANGED <<reg, bound, refused, unnamed, rows>>
    BY <1>4 DEF Teardown, Retire
  <2>2. \A n \in Names : Settled(n) => Settled(n)'
    BY <2>1 DEF Settled, GivenBack
  <2>3. CASE Teardown
    <3>1. at'.step = "teardown" /\ \A k \in rows : NameOf[k] \in releasing'
      BY <2>3 DEF Teardown, NamesTypeOK
    <3>2. QED BY <2>1, <2>2, <3>1 DEF Accounted
  <2>4. CASE \E k \in Keys : Retire(k)
    <3>1. at'.step = "retire" /\ NameOf[at'.key] \in releasing'
      BY <2>4 DEF Retire
    <3>2. QED BY <2>1, <2>2, <3>1 DEF Accounted, Name
  <2>5. QED BY <1>4, <2>3, <2>4
<1>5. CASE \E n \in Names : Dereserve(n) \/ DeleteName(n)
  <2>1. PICK m \in Names : Dereserve(m) \/ DeleteName(m)
    BY <1>5
  <2>2. UNCHANGED <<bound, at, rows, unnamed>>
    BY <2>1 DEF Dereserve, DeleteName
  <2>3. ASSUME NEW n \in Names, Settled(n) \/ n \in releasing PROVE Settled(n)' \/ n \in releasing'
    BY <2>1, <2>2, <2>3 DEF Dereserve, DeleteName, Settled, GivenBack, NamesTypeOK
  <2>4. ASSUME NEW n \in Names, Settled(n) PROVE Settled(n)'
    BY <2>1, <2>2, <2>4 DEF Dereserve, DeleteName, Settled, GivenBack, NamesTypeOK
  <2>5. QED BY <1>1, <2>2, <2>3, <2>4 DEF Accounted, Name
<1>6. CASE Withdraw
  <2>1. /\ at.step \in {"retire", "teardown"} /\ releasing = {} /\ UNCHANGED <<rows, refused, unnamed>>
        /\ at'.step = (IF at.step = "retire" THEN "clear" ELSE "clear all") /\ at'.key = at.key
    BY <1>6 DEF Withdraw, NamesTypeOK
  <2>2. PICK gone : Unshared(gone)
    BY <1>6 DEF Withdraw, SomeUnshared
  <2>3. \A n \in Names : Settled(n) => Settled(n)'
    BY <2>1, <2>2, SettledUnshared
  <2>4. QED BY <1>1, <2>1, <2>3 DEF Accounted, Name
<1>7. CASE ClearRows
  <2>1. at'.step = "rest" /\ UNCHANGED <<reg, bound, refused, unnamed>>
    BY <1>7, AtMoves DEF ClearRows
  <2>2. \A n \in Names : Settled(n) => Settled(n)'
    BY <2>1 DEF Settled, GivenBack
  <2>3. CASE at.step = "clear" /\ rows' = rows \ {at.key}
    BY <2>1, <2>2, <2>3 DEF Accounted, Name
  <2>4. CASE at.step = "clear all" /\ rows' = {}
    BY <2>1, <2>2, <2>4 DEF Accounted
  <2>5. QED BY <1>7, <2>3, <2>4 DEF ClearRows
<1>8. CASE RestartZrok
  <2>1. at'.step = "rest" /\ UNCHANGED <<rows, refused, unnamed>> /\ \E gone : Unshared(gone)
    BY <1>8, AtMoves DEF RestartZrok, SomeUnshared
  <2>2. \A n \in Names : Settled(n) => Settled(n)'
    BY <2>1, SettledUnshared
  <2>3. QED BY <2>1, <2>2 DEF Accounted
<1>9. QED BY <1>2, <1>3, <1>4, <1>5, <1>6, <1>7, <1>8 DEF NamesNext

\* What is being released belongs to the teardown or the retirement under way.
LEMMA ReleasesKept ==
  ASSUME NamesTypeOK, Releases, NamesNext
  PROVE  Releases'
<1>1. CASE (\E k \in Keys : PublishStart(k)) \/ RecordRow \/ ClearRows
  <2>1. releasing = {} /\ UNCHANGED releasing
    <3>1. Rest.step = "rest"
      BY DEF Rest
    <3>2. at.step \notin {"retire", "teardown"} /\ UNCHANGED releasing
      BY <1>1, <3>1 DEF PublishStart, RecordRow, ClearRows
    <3>3. QED BY <3>2 DEF Releases
  <2>2. at'.step # "retire"
    <3>1. (\E k \in Keys : PublishStart(k)) => at'.step = "register"
      BY DEF PublishStart
    <3>2. RecordRow \/ ClearRows => at'.step = "rest"
      BY AtMoves DEF RecordRow, ClearRows
    <3>3. QED BY <1>1, <3>1, <3>2
  <2>3. QED BY <2>1, <2>2 DEF Releases
<1>2. CASE Register \/ CreateShare \/ Reclaim \/ CreateAgain \/ Listen
  <2>1. releasing = {} /\ UNCHANGED releasing
    BY <1>2 DEF Register, CreateShare, Reclaim, CreateAgain, Listen, Releases
  <2>2. at'.step # "retire"
    BY <1>2, AtMoves DEF Register, CreateShare, Reclaim, CreateAgain, Listen
  <2>3. QED BY <2>1, <2>2 DEF Releases
<1>3. CASE Teardown
  BY <1>3 DEF Teardown, Releases
<1>4. CASE \E k \in Keys : Retire(k)
  BY <1>4 DEF Retire, Releases, Name
<1>5. CASE \E n \in Names : Dereserve(n) \/ DeleteName(n)
  <2>1. releasing' \subseteq releasing /\ UNCHANGED at
    BY <1>5 DEF Dereserve, DeleteName
  <2>2. QED BY <2>1 DEF Releases, Name
<1>6. CASE Withdraw
  BY <1>6 DEF Withdraw, Releases, NamesTypeOK
<1>7. CASE RestartZrok
  BY <1>7, AtMoves DEF RestartZrok, Releases
<1>8. QED BY <1>1, <1>2, <1>3, <1>4, <1>5, <1>6, <1>7 DEF NamesNext

LEMMA NamesBegin == NamesInit => NamesInv
<1> SUFFICES ASSUME NamesInit PROVE NamesInv
  OBVIOUS
<1>1. at = Rest /\ at.step = "rest" /\ Site \in Keys /\ MaxShares \in Nat /\ MaxRestarts \in Nat
  BY NamesAssumption DEF NamesInit, Rest
<1>2. at \in [step : NameSteps, key : Keys, try : 0..4]
  BY <1>1 DEF Rest, NameSteps
<1>3. NamesTypeOK
  <2>1. made = 0 /\ 0 \in 0..0 /\ made \in 0..MaxShares /\ restarts \in 0..MaxRestarts
    BY <1>1 DEF NamesInit
  <2>2. /\ reg \in [Names -> {"no", "reserved", "spare"}] /\ bound \in [Names -> 0..0]
        /\ keyOf \in [Tokens -> Keys] /\ held \in [Keys -> 0..0]
    BY <1>1, <2>1 DEF NamesInit
  <2>3. rows = {} /\ releasing = {} /\ refused = {} /\ unnamed = {}
    BY DEF NamesInit
  <2>4. QED BY <1>2, <2>1, <2>2, <2>3 DEF NamesTypeOK, NameSteps
<1>4. ServedHoldsName /\ OneServer /\ Accounted /\ Releases
  BY <1>1 DEF NamesInit, ServedHoldsName, OneServer, PublishSteps, Accounted, Settled, GivenBack, Releases
<1>5. QED BY <1>3, <1>4 DEF NamesInv

LEMMA NamesGoOn == NamesInv /\ [NamesNext]_nameVars => NamesInv'
<1> SUFFICES ASSUME NamesInv, [NamesNext]_nameVars PROVE NamesInv'
  OBVIOUS
<1>1. CASE NamesNext
  BY <1>1, NamesTyped, ServedKept, AccountedKept, ReleasesKept DEF NamesInv
<1>2. CASE UNCHANGED nameVars
  BY <1>2 DEF nameVars, NamesInv, NamesTypeOK, ServedHoldsName, OneServer, Name, Accounted, Settled, GivenBack,
     Releases
<1>3. QED BY <1>1, <1>2

LEMMA NamesInvariant == NamesSpec => []NamesInv
BY NamesBegin, NamesGoOn, PTL DEF NamesSpec

\* Every variable of the controller and the exposer has its type (NamesTypeOK).
THEOREM NamesTypeCorrect == NamesSpec => []NamesTypeOK
<1>1. NamesInv => NamesTypeOK
  BY DEF NamesInv
<1>2. QED BY <1>1, NamesInvariant, PTL

\* A share that is served holds its name on the controller (ServedHoldsName).
THEOREM ServedStaysBound == NamesSpec => []ServedHoldsName
<1>1. NamesInv => ServedHoldsName
  BY DEF NamesInv
<1>2. QED BY <1>1, NamesInvariant, PTL

\* A preview that is gone keeps no name (NamesGivenBack), but one never recorded, refused
\* or bound to a share the next reap deletes.
THEOREM NamesReturned == NamesSpec => []NamesGivenBack
<1>1. NamesInv => NamesGivenBack
  BY DEF NamesInv, Accounted, Settled, GivenBack, NamesGivenBack
<1>2. QED BY <1>1, NamesInvariant, PTL

\* Only a teardown gives up the branch's name (BranchNameStays).
THEOREM BranchUrlStable == NamesSpec => BranchNameStays
<1>1. NamesInv /\ [NamesNext]_nameVars
        => [reg[NameOf[Site]] = "reserved" /\ reg'[NameOf[Site]] # "reserved" => at.step = "teardown"]_nameVars
  <2> SUFFICES ASSUME NamesInv, NamesNext, reg[NameOf[Site]] = "reserved", reg'[NameOf[Site]] # "reserved"
               PROVE  at.step = "teardown"
    OBVIOUS
  <2>1. NameOf[Site] \in Names
    BY NamesAssumption DEF Names
  <2>2. NamesTypeOK /\ Releases
    BY DEF NamesInv
  <2>3. ~ \E gone : Unshared(gone)
    BY <2>1, <2>2, UnsharedEffect
  <2>4. \E n \in Names : Dereserve(n) \/ DeleteName(n)
    <3>1. ~UNCHANGED reg /\ ~Register
      BY <2>1, <2>2 DEF Register, NamesTypeOK
    <3>2. ~ ((\E k \in Keys : PublishStart(k)) \/ Reclaim \/ Listen \/ RecordRow \/ Withdraw \/ RestartZrok)
      BY <2>3, <3>1 DEF PublishStart, Reclaim, Listen, RecordRow, Withdraw, RestartZrok, SomeUnshared
    <3>3. ~ ((\E k \in Keys : Retire(k)) \/ CreateShare \/ CreateAgain \/ Teardown \/ ClearRows)
      BY <3>1 DEF Retire, CreateShare, CreateAgain, Teardown, ClearRows
    <3>4. QED BY <3>1, <3>2, <3>3 DEF NamesNext
  <2>5. NameOf[Site] \in releasing
    BY <2>1, <2>2, <2>4 DEF Dereserve, DeleteName, NamesTypeOK
  <2>6. at.step = "retire" => NameOf[at.key] # NameOf[Site]
    BY <2>2, NamesAssumption DEF Releases, NamesTypeOK
  <2>7. QED BY <2>2, <2>5, <2>6 DEF Releases, Name
<1>2. QED BY <1>1, NamesInvariant, PTL DEF NamesSpec, BranchNameStays
-------------------------------------------------------------------------------
(* Exposers: what the daemon holds is what a request reaches, for frontdoor,   *)
(* local and ziti.                                                             *)

OpSteps == {"idle", "withdraw", "post", "insert", "hold"}
MadeSteps == {"post", "insert", "hold"}
\* Two keys that render to one name.
SameName(j, k) == j # k /\ PubName[j] = PubName[k]
\* Every variable has its type.
ExpoTyped ==
  /\ kind \in {"frontdoor", "local", "ziti"}
  /\ live \in [PubKeys -> 0..entered] /\ holds \in [PubKeys -> 0..entered] /\ recorded \subseteq PubKeys
  /\ entered \in 0..MaxEntries /\ entryKey \in [Entries -> PubKeys] /\ ports \subseteq 1..entered
  /\ shares \subseteq (1..entered) \X {"own", "lost"} /\ found \subseteq (1..entered) \X {"own", "lost"}
  /\ op \in [Previews -> [step : OpSteps, key : PubKeys, entry : 0..entered]]
  /\ sweep \in {"idle", "list", "judge", "delete"} /\ keep \subseteq PubKeys
  /\ excused \subseteq 0..entered

\* What a publication under way is at: its entry is its key's and nobody holds it yet.
OpHolds(p, o) ==
  /\ o.step # "idle" => PreviewOf[o.key] = p
  /\ o.step \in {"withdraw", "post", "insert"} => kind = "frontdoor"
  /\ o.step \in {"idle", "withdraw"} => o.entry = 0
  /\ o.step \in MadeSteps => o.entry # 0 /\ entryKey[o.entry] = o.key /\ holds[o.key] # o.entry
  /\ o.step \in {"post", "insert"} => o.entry \in ports /\ live[o.key] = 0
        /\ \A j \in PubKeys : SameName(j, o.key) /\ PreviewOf[j] = p => live[j] = 0
  /\ o.step = "insert" => <<o.entry, "own">> \in shares \/ o.entry \in excused
  /\ o.step = "hold" => live[o.key] = o.entry \/ (live[o.key] = 0 /\ o.entry \in excused)
  /\ sweep # "idle" => o.entry \in excused \cup {0}
\* Every publication under way is in order.
OpsHold == \A p \in Previews : OpHolds(p, op[p])

\* The key whose new publication is made but not held yet.
Replacing(k) == op[PreviewOf[k]].step = "hold" /\ op[PreviewOf[k]].key = k
\* An entry is live and held under its own key only.
KeyedByEntry ==
  /\ \A k \in PubKeys : live[k] # 0 => entryKey[live[k]] = k
  /\ \A k \in PubKeys : holds[k] # 0 => entryKey[holds[k]] = k
\* What is live is held, unless it has just been made; and what is held is live, unless excused.
LiveHeld == \A k \in PubKeys : ~Replacing(k) => live[k] \in {0, holds[k]}
HeldLive == \A k \in PubKeys : ~Replacing(k) /\ holds[k] # 0 /\ holds[k] \notin excused => live[k] = holds[k]
\* A live entry of frontdoor has its port and its share, and a name has one live entry.
LiveReachable == \A k \in PubKeys : kind = "frontdoor" /\ live[k] # 0 /\ live[k] \notin excused
               => live[k] \in ports /\ <<live[k], "own">> \in shares
AloneInName == \A j, k \in PubKeys : SameName(j, k) /\ live[j] # 0 /\ live[k] # 0 => live[k] \in excused
\* A sweep spares what is held, from reading its keep-set to its last deletion.
HeldKept == sweep = "list" => \A k \in PubKeys \ keep : holds[k] \in excused \cup {0}
LiveSpared == sweep = "delete" => \A k \in PubKeys : live[k] # 0 /\ <<live[k], "own">> \in found => live[k] \in excused
ExpoInv == ExpoTyped /\ OpsHold /\ KeyedByEntry /\ LiveHeld /\ HeldLive /\ LiveReachable /\ AloneInName /\ HeldKept /\ LiveSpared

\* Entries are numbers up to the last one made.
LEMMA EntryNumbers ==
  ASSUME ExpoTyped
  PROVE  /\ entered \in Nat /\ MaxEntries \in Nat /\ entered <= MaxEntries
         /\ \A k \in PubKeys : live[k] \in Nat /\ live[k] <= entered /\ holds[k] \in Nat /\ holds[k] <= entered
                               /\ PreviewOf[k] \in Previews
         /\ \A p \in Previews : op[p].entry \in Nat /\ op[p].entry <= entered /\ op[p].key \in PubKeys
                                /\ op[p].step \in OpSteps
<1>1. entered \in Nat /\ MaxEntries \in Nat /\ entered <= MaxEntries
  BY ExposersAssumption DEF ExpoTyped
<1>2. \A k \in PubKeys : live[k] \in 0..entered /\ holds[k] \in 0..entered /\ PreviewOf[k] \in Previews
  BY DEF ExpoTyped, Previews
<1>3. \A p \in Previews : op[p].entry \in 0..entered /\ op[p].key \in PubKeys /\ op[p].step \in OpSteps
  BY DEF ExpoTyped
<1>4. QED BY <1>1, <1>2, <1>3

\* No two publications, live or under way, are of one entry.
LEMMA EntriesDiffer ==
  ASSUME ExpoTyped, OpsHold, KeyedByEntry
  PROVE  /\ \A j, k \in PubKeys : live[j] # 0 /\ live[j] = live[k] => j = k
         /\ \A p \in Previews, k \in PubKeys :
              op[p].step \in {"post", "insert"} => live[k] # op[p].entry
         /\ \A p, q \in Previews : op[p].step \in MadeSteps /\ op[q].step \in MadeSteps /\ op[p].entry = op[q].entry => p = q
<1>1. \A j, k \in PubKeys : live[j] # 0 /\ live[j] = live[k] => j = k
  BY DEF KeyedByEntry
<1>2. ASSUME NEW p \in Previews, NEW k \in PubKeys, op[p].step \in {"post", "insert"}, live[k] = op[p].entry
      PROVE  FALSE
  <2>1. OpHolds(p, op[p])
    BY DEF OpsHold
  <2>2. op[p].entry # 0 /\ entryKey[op[p].entry] = op[p].key /\ live[op[p].key] = 0
    BY <1>2, <2>1 DEF OpHolds, MadeSteps
  <2>3. QED BY <1>2, <2>2 DEF KeyedByEntry
<1>3. ASSUME NEW p \in Previews, NEW q \in Previews, op[p].step \in MadeSteps, op[q].step \in MadeSteps,
             op[p].entry = op[q].entry
      PROVE  p = q
  <2>1. OpHolds(p, op[p]) /\ OpHolds(q, op[q])
    BY DEF OpsHold
  <2>2. /\ entryKey[op[p].entry] = op[p].key /\ PreviewOf[op[p].key] = p
        /\ entryKey[op[q].entry] = op[q].key /\ PreviewOf[op[q].key] = q
    BY <1>3, <2>1 DEF OpHolds, MadeSteps
  <2>3. QED BY <1>3, <2>2
<1>4. QED BY <1>1, <1>2, <1>3

\* One preview's publication moves: it suffices to look at it and at the others.
LEMMA OneOp ==
  ASSUME ExpoTyped, NEW p \in Previews, NEW o, op' = [op EXCEPT ![p] = o], OpHolds(p, o)',
         \A q \in Previews \ {p} : OpHolds(q, op[q])'
  PROVE  OpsHold'
<1>1. op'[p] = o /\ \A q \in Previews \ {p} : op'[q] = op[q]
  BY DEF ExpoTyped
<1>2. ASSUME NEW q \in Previews PROVE OpHolds(q, op[q])'
  <2>1. CASE q = p
    BY <1>1, <2>1 DEF OpHolds
  <2>2. CASE q # p
    BY <1>1, <2>2 DEF OpHolds
  <2>3. QED BY <2>1, <2>2
<1>3. QED BY <1>2 DEF OpsHold

\* The check of a name leaves what is published alone.
LEMMA CheckKeeps ==
  ASSUME ExpoInv, NEW k \in PubKeys, FdCheck(k)
  PROVE  ExpoInv'
<1> DEFINE p == PreviewOf[k]
           o == [step |-> "withdraw", key |-> k, entry |-> 0]
<1>1. /\ kind = "frontdoor" /\ op[p].step = "idle" /\ op' = [op EXCEPT ![p] = o] /\ p \in Previews
      /\ UNCHANGED <<kind, regVars, entryKey, entered, fdVars, sweepVars, stops, excused>>
  BY DEF FdCheck, Free, Quiet, Previews
<1>2. ExpoTyped /\ OpsHold /\ KeyedByEntry /\ LiveHeld /\ HeldLive /\ LiveReachable /\ AloneInName /\ HeldKept /\ LiveSpared
  BY DEF ExpoInv
<1>3. o \in [step : OpSteps, key : PubKeys, entry : 0..entered] /\ o.step = "withdraw" /\ o.entry = 0 /\ o.key = k
  BY <1>2, EntryNumbers DEF OpSteps
<1> HIDE DEF o
<1>4. ExpoTyped'
  BY <1>1, <1>2, <1>3 DEF ExpoTyped, regVars, fdVars, sweepVars
<1>5. OpsHold'
  <2>1. OpHolds(p, o)'
    BY <1>1, <1>3 DEF OpHolds, MadeSteps
  <2>2. \A q \in Previews \ {p} : OpHolds(q, op[q])'
    BY <1>1, <1>2 DEF OpsHold, OpHolds, regVars, fdVars, sweepVars
  <2>3. QED BY <1>1, <1>2, <2>1, <2>2, OneOp
<1>6. \A j \in PubKeys : Replacing(j)' <=> Replacing(j)
  <2>1. \A q \in Previews : op'[q] = (IF q = p THEN o ELSE op[q])
    BY <1>1, <1>2 DEF ExpoTyped
  <2>2. QED BY <1>1, <1>2, <1>3, <2>1, EntryNumbers DEF Replacing
<1>7. LiveHeld' /\ HeldLive'
  BY <1>1, <1>2, <1>6 DEF LiveHeld, HeldLive, regVars
<1>8. KeyedByEntry' /\ LiveReachable' /\ AloneInName' /\ HeldKept' /\ LiveSpared'
  BY <1>1, <1>2 DEF KeyedByEntry, LiveReachable, AloneInName, HeldKept, LiveSpared, regVars, fdVars, sweepVars
<1>9. QED BY <1>4, <1>5, <1>7, <1>8 DEF ExpoInv

\* What a new entry is: numbered after all others, and of its key.
LEMMA NewEntryMade ==
  ASSUME ExpoTyped, NEW k \in PubKeys, NEW s \in OpSteps, NewEntry(k, s)
  PROVE  /\ entered' = entered + 1 /\ entered' \in 0..MaxEntries /\ entryKey' \in [Entries -> PubKeys]
         /\ entryKey'[entered'] = k /\ \A e \in 1..entered : entryKey'[e] = entryKey[e]
         /\ 0..entered \subseteq 0..entered' /\ 1..entered \subseteq 1..entered' /\ entered' \in 1..entered'
         /\ entered' \notin 0..entered
<1>1. entered \in Nat /\ MaxEntries \in Nat /\ entered < MaxEntries /\ entered' = entered + 1
  BY EntryNumbers DEF NewEntry
<1>2. entered + 1 \in Entries /\ \A e \in 1..entered : e \in Entries /\ e # entered + 1
  BY <1>1 DEF Entries
<1>3. entryKey' = [entryKey EXCEPT ![entered + 1] = k] /\ entryKey \in [Entries -> PubKeys]
  BY DEF NewEntry, ExpoTyped
<1>4. entryKey' \in [Entries -> PubKeys] /\ entryKey'[entered + 1] = k /\ \A e \in 1..entered : entryKey'[e] = entryKey[e]
  BY <1>2, <1>3
<1>5. QED BY <1>1, <1>4

\* The types of a publication under way, in a larger or an equal number of entries.
LEMMA OpTyped ==
  ASSUME ExpoTyped, NEW p \in Previews, NEW o, op' = [op EXCEPT ![p] = o],
         0..entered \subseteq 0..entered', o \in [step : OpSteps, key : PubKeys, entry : 0..entered']
  PROVE  op' \in [Previews -> [step : OpSteps, key : PubKeys, entry : 0..entered']]
<1>1. op \in [Previews -> [step : OpSteps, key : PubKeys, entry : 0..entered]]
  BY DEF ExpoTyped
<1>2. [step : OpSteps, key : PubKeys, entry : 0..entered] \subseteq [step : OpSteps, key : PubKeys, entry : 0..entered']
  OBVIOUS
<1>3. QED BY <1>1, <1>2

\* A mount takes its name from the earlier builds of the preview and from nobody else.
LEMMA MountKeeps ==
  ASSUME ExpoInv, NEW k \in PubKeys, Mount(k)
  PROVE  ExpoInv'
<1>0. PICK n : n = entered + 1
  OBVIOUS
<1> DEFINE p == PreviewOf[k]
           o == [step |-> "hold", key |-> k, entry |-> n]
<1>1. /\ kind \in {"local", "ziti"} /\ Free(k) /\ op[p].step = "idle" /\ p \in Previews /\ NewEntry(k, "hold")
      /\ op' = [op EXCEPT ![p] = o]
      /\ live' = [j \in PubKeys |-> IF j = k THEN n ELSE IF j \in Rivals(k) THEN 0 ELSE live[j]]
      /\ excused' = excused \cup {live[j] : j \in Rivals(k)} \cup Exposes({n})
      /\ UNCHANGED <<kind, holds, recorded, fdVars, sweepVars, stops>>
  BY <1>0 DEF Mount, NewEntry, Free, Quiet, Previews
<1>2. ExpoTyped /\ OpsHold /\ KeyedByEntry /\ LiveHeld /\ HeldLive /\ LiveReachable /\ AloneInName /\ HeldKept /\ LiveSpared
  BY DEF ExpoInv
<1>3. /\ entered' = n /\ n \in 0..MaxEntries /\ entryKey' \in [Entries -> PubKeys]
      /\ entryKey'[n] = k /\ \A e \in 1..entered : entryKey'[e] = entryKey[e]
      /\ 0..entered \subseteq 0..n /\ 1..entered \subseteq 1..n /\ n \in 0..n /\ n \notin 0..entered /\ n # 0
  BY <1>0, <1>1, <1>2, NewEntryMade, EntryNumbers DEF OpSteps
<1>4. o.step = "hold" /\ o.key = k /\ o.entry = n /\ o \in [step : OpSteps, key : PubKeys, entry : 0..entered']
  BY <1>3 DEF OpSteps
<1> HIDE DEF o
<1>5. op' \in [Previews -> [step : OpSteps, key : PubKeys, entry : 0..entered']]
  BY <1>1, <1>2, <1>3, <1>4, OpTyped
<1>6. /\ live' \in [PubKeys -> 0..n] /\ excused \subseteq excused' /\ excused' \subseteq 0..n
      /\ sweep # "idle" => n \in excused'
      /\ live'[k] = n /\ \A j \in PubKeys : live'[j] \in {0, n, live[j]}
      /\ \A j \in PubKeys \ {k} : live'[j] # 0 => live'[j] = live[j] /\ PubName[j] # PubName[k]
      /\ \A j \in PubKeys \ {k} : live'[j] = live[j] \/ (live'[j] = 0 /\ live[j] \in excused')
  <2>1. live \in [PubKeys -> 0..entered] /\ excused \subseteq 0..entered /\ 0 \in 0..n /\ Rivals(k) \subseteq PubKeys \ {k}
    BY <1>2, EntryNumbers, <1>3 DEF ExpoTyped, Rivals
  <2>2. \A j \in PubKeys : live'[j] = (IF j = k THEN n ELSE IF j \in Rivals(k) THEN 0 ELSE live[j])
    BY <1>1
  <2>3. live' \in [PubKeys -> 0..n]
    BY <1>1, <1>3, <2>1
  <2>4. excused \subseteq excused' /\ \A j \in Rivals(k) : live[j] \in excused'
    BY <1>1
  <2>5. excused' \subseteq 0..n /\ (sweep # "idle" => n \in excused')
    <3>1. {live[j] : j \in Rivals(k)} \subseteq 0..n
      BY <1>3, <2>1
    <3>2. Exposes({n}) \subseteq 0..n /\ (sweep # "idle" => n \in Exposes({n}))
      BY <1>3 DEF Exposes
    <3>3. QED BY <1>1, <1>3, <2>1, <3>1, <3>2
  <2>6. \A j \in PubKeys \ {k} : j \notin Rivals(k) /\ live[j] # 0 => PubName[j] # PubName[k]
    BY DEF Rivals
  <2>7. QED BY <2>1, <2>2, <2>3, <2>4, <2>5, <2>6
<1>7. ExpoTyped'
  BY <1>1, <1>2, <1>3, <1>5, <1>6 DEF ExpoTyped, fdVars, sweepVars
<1>8. \A j \in PubKeys : holds[j] \in 0..entered /\ live[j] \in 0..entered
  BY <1>2 DEF ExpoTyped
<1>9. OpsHold'
  <2>1. OpHolds(p, o)'
    <3>1. holds'[k] # n /\ entryKey'[n] = k /\ live'[k] = n /\ (sweep' # "idle" => n \in excused') /\ n # 0
      <4>1. holds'[k] # n
        BY <1>1, <1>3, <1>8
      <4>2. sweep' = sweep
        BY <1>1 DEF sweepVars
      <4>3. QED BY <1>3, <1>6, <4>1, <4>2
    <3>2. o.step # "withdraw" /\ o.step # "post" /\ o.step # "insert" /\ o.step # "idle"
      BY <1>4
    <3>3. QED BY <1>4, <3>1, <3>2 DEF OpHolds, MadeSteps
  <2>2. ASSUME NEW q \in Previews \ {p} PROVE OpHolds(q, op[q])'
    <3>1. OpHolds(q, op[q]) /\ op[q].key \in PubKeys /\ op[q].entry \in 0..entered
      BY <1>2, EntryNumbers DEF OpsHold
    <3>2. op'[q] = op[q]
      BY <1>1, <1>2 DEF ExpoTyped
    <3>3. op[q].step \in {"idle", "hold"}
      BY <1>1, <1>2, <3>1, EntryNumbers DEF OpHolds, OpSteps
    <3>4. op[q].step = "hold" => op[q].key # k /\ entryKey'[op[q].entry] = entryKey[op[q].entry]
      BY <1>3, <3>1 DEF OpHolds, MadeSteps
    <3>5. CASE op[q].step = "idle"
      BY <1>1, <1>6, <3>1, <3>2, <3>5 DEF OpHolds, MadeSteps, sweepVars
    <3>6. CASE op[q].step = "hold"
      <4>1. /\ PreviewOf[op[q].key] = q /\ op[q].entry # 0 /\ entryKey[op[q].entry] = op[q].key
            /\ holds[op[q].key] # op[q].entry /\ (sweep # "idle" => op[q].entry \in excused \cup {0})
            /\ live[op[q].key] = op[q].entry \/ (live[op[q].key] = 0 /\ op[q].entry \in excused)
        BY <3>1, <3>6 DEF OpHolds, MadeSteps
      <4>2. live'[op[q].key] = op[q].entry \/ (live'[op[q].key] = 0 /\ op[q].entry \in excused')
        BY <1>6, <3>1, <3>4, <3>6, <4>1
      <4>3. QED BY <1>1, <1>6, <3>2, <3>4, <3>6, <4>1, <4>2 DEF OpHolds, MadeSteps, sweepVars
    <3>7. QED BY <3>3, <3>5, <3>6
  <2>3. QED
    <3> HIDE DEF p
    <3>1. QED BY ONLY <1>1, <1>2, <2>1, <2>2, OneOp
<1>10. Replacing(k)' /\ \A j \in PubKeys \ {k} : Replacing(j)' <=> Replacing(j)
  <2>1. \A q \in Previews : op'[q] = (IF q = p THEN o ELSE op[q])
    BY <1>1, <1>2 DEF ExpoTyped
  <2>2. QED BY <1>1, <1>2, <1>4, <2>1, EntryNumbers DEF Replacing
<1>11. KeyedByEntry'
  BY <1>1, <1>2, <1>3, <1>6, <1>8 DEF KeyedByEntry
<1>12. LiveHeld' /\ HeldLive'
  BY <1>1, <1>2, <1>6, <1>10 DEF LiveHeld, HeldLive
<1>13. LiveReachable' /\ AloneInName' /\ HeldKept' /\ LiveSpared'
  <2>1. LiveReachable'
    BY <1>1 DEF LiveReachable
  <2>2. AloneInName'
    BY <1>2, <1>6 DEF AloneInName, SameName
  <2>3. HeldKept'
    BY <1>1, <1>2, <1>6 DEF HeldKept, sweepVars
  <2>4. LiveSpared'
    BY <1>1, <1>2, <1>6 DEF LiveSpared, sweepVars
  <2>5. QED BY <2>1, <2>2, <2>3, <2>4
<1>14. QED BY <1>7, <1>9, <1>11, <1>12, <1>13 DEF ExpoInv

\* What another preview's publication needs, to be in order after a step it has no part in.
LEMMA OtherOp ==
  ASSUME OpsHold, NEW q \in Previews, op'[q] = op[q], UNCHANGED kind, excused \subseteq excused',
         sweep' # "idle" => sweep # "idle" \/ op[q].entry \in excused' \cup {0},
         op[q].step \in MadeSteps => /\ entryKey'[op[q].entry] = entryKey[op[q].entry]
                                  /\ holds'[op[q].key] \in {0, holds[op[q].key]},
         op[q].step \in {"post", "insert"} =>
           /\ op[q].entry \in ports' /\ op[q].key \in PubKeys
           /\ \A j \in PubKeys : PreviewOf[j] = q => live'[j] \in {0, live[j]},
         op[q].step = "insert" => <<op[q].entry, "own">> \in shares' \/ <<op[q].entry, "own">> \notin shares
                                    \/ op[q].entry \in excused',
         op[q].step = "hold" => \/ live'[op[q].key] = live[op[q].key]
                                \/ live'[op[q].key] = 0 /\ op[q].entry \in excused'
  PROVE  OpHolds(q, op[q])'
<1>1. OpHolds(q, op[q])
  BY DEF OpsHold
<1>2. op[q].step \in {"post", "insert"} =>
        live'[op[q].key] = 0 /\ \A j \in PubKeys : SameName(j, op[q].key) /\ PreviewOf[j] = q => live'[j] = 0
  <2>1. SUFFICES ASSUME op[q].step \in {"post", "insert"}
                 PROVE  live'[op[q].key] = 0
                        /\ \A j \in PubKeys : SameName(j, op[q].key) /\ PreviewOf[j] = q => live'[j] = 0
    OBVIOUS
  <2>2. live[op[q].key] = 0 /\ PreviewOf[op[q].key] = q
        /\ \A j \in PubKeys : SameName(j, op[q].key) /\ PreviewOf[j] = q => live[j] = 0
    BY <1>1, <2>1 DEF OpHolds
  <2>3. QED BY <2>1, <2>2
<1>3. op[q].step \in MadeSteps => op[q].entry # 0 /\ entryKey'[op[q].entry] = op[q].key /\ holds'[op[q].key] # op[q].entry
  BY <1>1 DEF OpHolds
<1>4. op[q].step = "hold" => live'[op[q].key] = op[q].entry \/ (live'[op[q].key] = 0 /\ op[q].entry \in excused')
  BY <1>1 DEF OpHolds
<1>5. /\ op[q].step # "idle" => PreviewOf[op[q].key] = q
      /\ op[q].step \in {"withdraw", "post", "insert"} => kind' = "frontdoor"
      /\ op[q].step \in {"idle", "withdraw"} => op[q].entry = 0
      /\ op[q].step = "insert" => <<op[q].entry, "own">> \in shares' \/ op[q].entry \in excused'
      /\ sweep' # "idle" => op[q].entry \in excused' \cup {0}
  BY <1>1 DEF OpHolds
<1>6. op'[q] = op[q]
  OBVIOUS
<1>7. QED BY <1>2, <1>3, <1>4, <1>5, <1>6 DEF OpHolds

\* Which publications are being replaced depends on that preview's step only.
LEMMA ReplacingStays ==
  ASSUME ExpoTyped, NEW p \in Previews, NEW o, op' = [op EXCEPT ![p] = o], NEW j \in PubKeys,
         PreviewOf[j] = p => ((o.step = "hold" /\ o.key = j) <=> (op[p].step = "hold" /\ op[p].key = j))
  PROVE  Replacing(j)' <=> Replacing(j)
<1>1. PreviewOf[j] \in Previews /\ op'[PreviewOf[j]] = (IF PreviewOf[j] = p THEN o ELSE op[PreviewOf[j]])
  BY DEF ExpoTyped, Previews
<1>2. QED BY <1>1 DEF Replacing

\* A publication is closed: its key has neither an entry nor a holder any more.
LEMMA ClosesKeep ==
  ASSUME ExpoInv, NEW k \in PubKeys, NEW p \in Previews, p = PreviewOf[k],
         op[p].step = "idle" \/ (op[p].step = "hold" /\ op[p].key = k),
         live' = [live EXCEPT ![k] = 0], holds' = [holds EXCEPT ![k] = 0], recorded' \subseteq PubKeys,
         ports' \subseteq ports, ports \ {live[k]} \subseteq ports',
         shares' \subseteq shares, shares \ {<<live[k], "own">>} \subseteq shares',
         NEW o \in [step : OpSteps, key : PubKeys, entry : 0..entered], o.step = "idle", o.entry = 0,
         op' = [op EXCEPT ![p] = o],
         UNCHANGED <<kind, entryKey, entered, sweepVars, excused>>
  PROVE  ExpoInv'
<1>1. ExpoTyped /\ OpsHold /\ KeyedByEntry /\ LiveHeld /\ HeldLive /\ LiveReachable /\ AloneInName /\ HeldKept /\ LiveSpared
  BY DEF ExpoInv
<1>2. UNCHANGED <<starting, sweep, keep, found>>
  BY DEF sweepVars
<1>3. live \in [PubKeys -> 0..entered] /\ holds \in [PubKeys -> 0..entered] /\ 0 \in 0..entered
  BY <1>1, EntryNumbers DEF ExpoTyped
<1>4. /\ live' \in [PubKeys -> 0..entered] /\ holds' \in [PubKeys -> 0..entered] /\ live'[k] = 0 /\ holds'[k] = 0
      /\ \A j \in PubKeys \ {k} : live'[j] = live[j] /\ holds'[j] = holds[j]
  BY <1>3
<1>5. ExpoTyped'
  <2>1. op' \in [Previews -> [step : OpSteps, key : PubKeys, entry : 0..entered]]
    BY <1>1 DEF ExpoTyped
  <2>2. QED BY <1>1, <1>2, <1>4, <2>1 DEF ExpoTyped
<1>6. OpsHold'
  <2>1. OpHolds(p, o)'
    BY <1>2 DEF OpHolds, MadeSteps
  <2>2. ASSUME NEW q \in Previews \ {p} PROVE OpHolds(q, op[q])'
    <3>1. op'[q] = op[q] /\ OpHolds(q, op[q]) /\ op[q].key \in PubKeys
      BY <1>1, EntryNumbers DEF ExpoTyped, OpsHold
    <3>2. op[q].step \in MadeSteps => op[q].key # k
      BY <3>1 DEF OpHolds, MadeSteps
    <3>3. op[q].step \in {"post", "insert"} => op[q].entry \in ports /\ live[k] # op[q].entry
      BY <1>1, <3>1, EntriesDiffer DEF OpHolds
    <3>4. op[q].step = "insert" => <<op[q].entry, "own">> \in shares' \/ <<op[q].entry, "own">> \notin shares
      BY <3>3
    <3>5. op[q].step \in MadeSteps => /\ entryKey'[op[q].entry] = entryKey[op[q].entry]
                                   /\ holds'[op[q].key] \in {0, holds[op[q].key]}
      BY <1>4, <3>1, <3>2
    <3>6. op[q].step = "hold" => live'[op[q].key] = live[op[q].key]
      BY <1>4, <3>1, <3>2 DEF MadeSteps
    <3>7. \A j \in PubKeys : live'[j] \in {0, live[j]}
      BY <1>4
    <3>8. op[q].step \in {"post", "insert"} => op[q].entry \in ports'
      BY <3>3
    <3>9. QED BY ONLY <1>1, <1>2, <3>1, <3>4, <3>5, <3>6, <3>7, <3>8, OtherOp, UNCHANGED <<kind, excused>>,
                 q \in Previews
  <2>3. QED BY <1>1, <2>1, <2>2, OneOp
<1>7. \A j \in PubKeys \ {k} : Replacing(j)' <=> Replacing(j)
  BY <1>1, ReplacingStays
<1>8. LiveHeld' /\ HeldLive'
  BY <1>1, <1>4, <1>7 DEF LiveHeld, HeldLive
<1>9. KeyedByEntry' /\ AloneInName' /\ HeldKept' /\ LiveSpared'
  <2>1. KeyedByEntry'
    BY <1>1, <1>4 DEF KeyedByEntry
  <2>2. AloneInName'
    BY <1>1, <1>4 DEF AloneInName
  <2>3. HeldKept'
    BY <1>1, <1>2, <1>4 DEF HeldKept
  <2>4. LiveSpared'
    BY <1>1, <1>2, <1>4 DEF LiveSpared
  <2>5. QED BY <2>1, <2>2, <2>3, <2>4
<1>10. LiveReachable'
  <2>1. \A j \in PubKeys : live'[j] # 0 => j # k /\ live'[j] = live[j] /\ live[j] # live[k]
    BY <1>1, <1>4, EntriesDiffer
  <2>2. QED BY <1>1, <2>1 DEF LiveReachable
<1>11. QED BY <1>5, <1>6, <1>8, <1>9, <1>10 DEF ExpoInv

\* The record of a preview at rest.
LEMMA AtRest == ExpoTyped => NoOp \in [step : OpSteps, key : PubKeys, entry : 0..entered]
                             /\ NoOp.step = "idle" /\ NoOp.entry = 0
<1>1. (CHOOSE k \in PubKeys : TRUE) \in PubKeys
  BY ExposersAssumption
<1>2. QED BY <1>1, EntryNumbers DEF NoOp, OpSteps

\* A teardown or a retirement closes what the key holds.
LEMMA CloseHeldKeeps ==
  ASSUME ExpoInv, NEW k \in PubKeys, CloseHeld(k)
  PROVE  ExpoInv'
<1>1. ExpoTyped /\ LiveHeld /\ PreviewOf[k] \in Previews
  BY EntryNumbers DEF ExpoInv
<1>2. /\ op[PreviewOf[k]].step = "idle" /\ WithdrawEntry(k, holds[k]) /\ holds' = [holds EXCEPT ![k] = 0]
      /\ recorded' = recorded \ {k} /\ UNCHANGED <<kind, entryKey, entered, op, sweepVars, excused>>
  BY DEF CloseHeld, Free, Quiet
<1>3. live[k] \in {0, holds[k]}
  BY <1>1, <1>2 DEF LiveHeld, Replacing
<1>4. PICK o : o = op[PreviewOf[k]]
  OBVIOUS
<1>5. /\ o \in [step : OpSteps, key : PubKeys, entry : 0..entered] /\ o.step = "idle" /\ o.entry = 0
      /\ op' = [op EXCEPT ![PreviewOf[k]] = o]
  BY <1>1, <1>2, <1>4 DEF ExpoTyped, ExpoInv, OpsHold, OpHolds
<1>6. /\ live' = [live EXCEPT ![k] = 0] /\ ports' \subseteq ports /\ ports \ {live[k]} \subseteq ports'
      /\ shares' \subseteq shares /\ shares \ {<<live[k], "own">>} \subseteq shares'
  <2>1. live \in [PubKeys -> 0..entered]
    BY <1>1 DEF ExpoTyped
  <2>2. CASE live[k] = 0
    BY <1>2, <2>1, <2>2 DEF WithdrawEntry, fdVars
  <2>3. CASE live[k] = holds[k] /\ live[k] # 0
    BY <1>2, <2>1, <2>3 DEF WithdrawEntry, DeleteShare
  <2>4. QED BY <1>3, <2>2, <2>3
<1>7. recorded' \subseteq PubKeys
  BY <1>1, <1>2 DEF ExpoTyped
<1>8. QED
  <2> HIDE DEF NoOp
  <2>1. QED BY <1>1, <1>2, <1>5, <1>6, <1>7, ClosesKeep

\* What a publication that is made says of its key.
LEMMA ReadyToHold ==
  ASSUME ExpoInv, NEW p \in Previews, op[p].step = "hold"
  PROVE  /\ op[p].key \in PubKeys /\ PreviewOf[op[p].key] = p /\ op[p].entry # 0 /\ op[p].entry \in 0..entered
         /\ entryKey[op[p].entry] = op[p].key /\ holds[op[p].key] # op[p].entry
         /\ live[op[p].key] = op[p].entry \/ (live[op[p].key] = 0 /\ op[p].entry \in excused)
         /\ sweep # "idle" => op[p].entry \in excused
<1>1. OpHolds(p, op[p]) /\ op[p].key \in PubKeys /\ op[p].entry \in 0..entered
  BY EntryNumbers DEF ExpoInv, OpsHold
<1>2. QED BY <1>1 DEF OpHolds, MadeSteps

\* The new publication is held; the one it replaces is not the live one any more.
LEMMA ReplacesKeep ==
  ASSUME ExpoInv, NEW p \in Previews, op[p].step = "hold", NEW k \in PubKeys, k = op[p].key,
         WithdrawEntry(k, holds[k]), holds' = [holds EXCEPT ![k] = op[p].entry], recorded' \subseteq PubKeys,
         NEW o \in [step : OpSteps, key : PubKeys, entry : 0..entered], o.step = "idle", o.entry = 0,
         op' = [op EXCEPT ![p] = o],
         UNCHANGED <<kind, entryKey, entered, sweepVars, excused>>
  PROVE  ExpoInv'
<1>1. ExpoTyped /\ OpsHold /\ KeyedByEntry /\ LiveHeld /\ HeldLive /\ LiveReachable /\ AloneInName /\ HeldKept /\ LiveSpared
  BY DEF ExpoInv
<1>2. PICK e : e = op[p].entry
  OBVIOUS
<1>3. /\ PreviewOf[k] = p /\ e # 0 /\ e \in 0..entered /\ entryKey[e] = k /\ holds[k] # e
      /\ live[k] = e \/ (live[k] = 0 /\ e \in excused)
      /\ sweep # "idle" => e \in excused
  BY <1>2, ReadyToHold
<1>4. UNCHANGED <<live, ports, shares, kind, entryKey, entered, excused, starting, sweep, keep, found>>
  BY <1>3 DEF WithdrawEntry, fdVars, sweepVars
<1>5. holds' \in [PubKeys -> 0..entered] /\ holds'[k] = e /\ \A j \in PubKeys \ {k} : holds'[j] = holds[j]
  BY <1>1, <1>2, <1>3 DEF ExpoTyped
<1>6. ExpoTyped'
  <2>1. op' \in [Previews -> [step : OpSteps, key : PubKeys, entry : 0..entered]]
    BY <1>1 DEF ExpoTyped
  <2>2. QED BY <1>1, <1>4, <1>5, <2>1 DEF ExpoTyped
<1>7. OpsHold'
  <2>1. OpHolds(p, o)'
    BY DEF OpHolds, MadeSteps
  <2>2. ASSUME NEW q \in Previews \ {p} PROVE OpHolds(q, op[q])'
    <3>1. op'[q] = op[q] /\ OpHolds(q, op[q]) /\ op[q].key \in PubKeys
      BY <1>1, EntryNumbers DEF ExpoTyped, OpsHold
    <3>2. op[q].step \in MadeSteps => op[q].key # k
      BY <1>3, <3>1 DEF OpHolds, MadeSteps
    <3>3. op[q].step \in {"post", "insert"} => op[q].entry \in ports
      BY <3>1 DEF OpHolds
    <3>4. op[q].step \in MadeSteps => holds'[op[q].key] = holds[op[q].key]
      BY <1>5, <3>1, <3>2
    <3>5. QED BY ONLY <1>1, <1>4, <3>1, <3>3, <3>4, OtherOp, q \in Previews
  <2>3. QED BY <1>1, <2>1, <2>2, OneOp
<1>8. ~Replacing(k)' /\ \A j \in PubKeys \ {k} : Replacing(j)' <=> Replacing(j)
  <2>1. op'[p] = o
    BY <1>1 DEF ExpoTyped
  <2>2. ~Replacing(k)'
    BY <1>3, <2>1 DEF Replacing
  <2>3. QED BY <1>1, <2>2, ReplacingStays
<1>9. LiveHeld' /\ HeldLive'
  BY <1>1, <1>3, <1>4, <1>5, <1>8 DEF LiveHeld, HeldLive
<1>10. KeyedByEntry' /\ LiveReachable' /\ AloneInName' /\ LiveSpared'
  BY <1>1, <1>3, <1>4, <1>5 DEF KeyedByEntry, LiveReachable, AloneInName, LiveSpared
<1>11. HeldKept'
  BY <1>1, <1>3, <1>4, <1>5 DEF HeldKept
<1>12. QED BY <1>6, <1>7, <1>9, <1>10, <1>11 DEF ExpoInv

\* The daemon holds what was published, or closes it because it cannot be saved.
LEMMA HoldKeeps ==
  ASSUME ExpoInv, NEW p \in Previews, Hold(p)
  PROVE  ExpoInv'
<1>1. PICK k \in PubKeys : k = op[p].key
  BY EntryNumbers DEF ExpoInv
<1>2. op[p].step = "hold" /\ op' = [op EXCEPT ![p] = NoOp] /\ UNCHANGED <<kind, entryKey, entered, sweepVars, excused>>
  BY DEF Hold, OpAt
<1>3. recorded \subseteq PubKeys /\ recorded \cup {k} \subseteq PubKeys /\ recorded \ {k} \subseteq PubKeys
  BY DEF ExpoInv, ExpoTyped
<1>4. /\ PreviewOf[k] = p /\ op[p].entry # 0
      /\ live[k] = op[p].entry \/ live[k] = 0
  BY <1>1, <1>2, ReadyToHold
<1>5. NoOp \in [step : OpSteps, key : PubKeys, entry : 0..entered] /\ NoOp.step = "idle" /\ NoOp.entry = 0
  BY AtRest DEF ExpoInv
<1>6. CASE WithdrawEntry(k, holds[k]) /\ holds' = [holds EXCEPT ![k] = op[p].entry] /\ recorded' \in {recorded, recorded \cup {k}}
  <2> HIDE DEF NoOp
  <2>1. recorded' \subseteq PubKeys
    BY <1>3, <1>6
  <2>2. QED BY ONLY ExpoInv, p \in Previews, <1>1, <1>2, <1>5, <1>6, <2>1, ReplacesKeep
<1>7. CASE WithdrawEntry(k, op[p].entry) /\ holds' = [holds EXCEPT ![k] = 0] /\ recorded' = recorded \ {k}
  <2> HIDE DEF NoOp
  <2>1. recorded' \subseteq PubKeys
    BY <1>3, <1>7
  <2>2. /\ live' = [live EXCEPT ![k] = 0] /\ ports' \subseteq ports /\ ports \ {live[k]} \subseteq ports'
        /\ shares' \subseteq shares /\ shares \ {<<live[k], "own">>} \subseteq shares'
    <3>1. live \in [PubKeys -> 0..entered]
      BY DEF ExpoInv, ExpoTyped
    <3>2. CASE live[k] = 0
      BY <1>4, <1>7, <3>1, <3>2 DEF WithdrawEntry, fdVars
    <3>3. CASE live[k] = op[p].entry
      BY <1>4, <1>7, <3>1, <3>3 DEF WithdrawEntry, DeleteShare
    <3>4. QED BY <1>4, <3>2, <3>3
  <2>3. QED BY ONLY ExpoInv, p \in Previews, <1>1, <1>2, <1>4, <1>5, <1>7, <2>1, <2>2, ClosesKeep
<1>8. QED BY <1>1, <1>6, <1>7 DEF Hold

\* The withdrawal before a share is made: of the live entries of the key and of the earlier
\* builds of its name, with what the publication is then at.
Withdraws(p, k, own, gone, o) ==
  /\ op[p].step = "withdraw" /\ op[p].key = k
  /\ own = {j \in Rivals(k) : PreviewOf[j] = p} \cup {k} /\ gone = {live[j] : j \in own} \ {0}
  /\ live' = [j \in PubKeys |-> IF j \in own THEN 0 ELSE live[j]]
  /\ DeleteShare({<<e, "own">> : e \in gone})
  /\ ports \ gone \subseteq ports' /\ ports' \subseteq 1..entered'
  /\ excused \cup gone \subseteq excused' /\ excused' \subseteq 0..entered'
  /\ entered' \in 0..MaxEntries /\ entryKey' \in [Entries -> PubKeys]
  /\ \A e \in 1..entered : entryKey'[e] = entryKey[e]
  /\ 0..entered \subseteq 0..entered' /\ 1..entered \subseteq 1..entered'
  /\ o \in [step : OpSteps, key : PubKeys, entry : 0..entered'] /\ o.step # "hold"
  /\ live'[k] = 0 /\ (\A j \in PubKeys : SameName(j, k) /\ PreviewOf[j] = p => live'[j] = 0) => OpHolds(p, o)'
  /\ op' = [op EXCEPT ![p] = o]
  /\ UNCHANGED <<kind, holds, recorded, starting, sweep, keep, found>>

\* It takes away nothing that another publication needs.
LEMMA WithdrawsKeep ==
  ASSUME ExpoInv, NEW p \in Previews, NEW k \in PubKeys, NEW own, NEW gone, NEW o, Withdraws(p, k, own, gone, o)
  PROVE  ExpoInv'
<1> USE DEF Withdraws
<1>1. ExpoTyped /\ OpsHold /\ KeyedByEntry /\ LiveHeld /\ HeldLive /\ LiveReachable /\ AloneInName /\ HeldKept /\ LiveSpared
  BY DEF ExpoInv
<1>2. OpHolds(p, op[p]) /\ PreviewOf[k] = p /\ kind = "frontdoor"
  BY <1>1 DEF OpsHold, OpHolds
<1>3. UNCHANGED <<starting, sweep, keep, found>>
  OBVIOUS
<1>4. live \in [PubKeys -> 0..entered] /\ holds \in [PubKeys -> 0..entered] /\ own \subseteq PubKeys /\ 0 \in 0..entered
  BY <1>1, EntryNumbers DEF ExpoTyped, Rivals
<1>5. /\ live' \in [PubKeys -> 0..entered'] /\ \A j \in own : live'[j] = 0 /\ live[j] \in gone \cup {0}
      /\ \A j \in PubKeys \ own : live'[j] = live[j] /\ (live[j] # 0 => live[j] \notin gone)
  <2>1. \A j \in PubKeys : live'[j] = IF j \in own THEN 0 ELSE live[j]
    OBVIOUS
  <2>2. live' \in [PubKeys -> 0..entered']
    BY <1>4
  <2>3. \A j \in own : live[j] \in gone \cup {0}
    OBVIOUS
  <2>4. \A j \in PubKeys \ own : live[j] # 0 => live[j] \notin gone
    BY <1>1, <1>4, EntriesDiffer
  <2>5. QED BY <1>4, <2>1, <2>2, <2>3, <2>4
<1>6. shares' \subseteq shares /\ \A e : <<e, "own">> \in shares /\ e \notin gone => <<e, "own">> \in shares'
  BY DEF DeleteShare
<1>7. ExpoTyped'
  <2>1. op' \in [Previews -> [step : OpSteps, key : PubKeys, entry : 0..entered']]
    BY <1>1, OpTyped
  <2>2. holds \in [PubKeys -> 0..entered']
    BY <1>4
  <2>3. shares' \subseteq (1..entered') \X {"own", "lost"} /\ found \subseteq (1..entered') \X {"own", "lost"}
    <3>1. shares \subseteq (1..entered) \X {"own", "lost"} /\ found \subseteq (1..entered) \X {"own", "lost"}
      BY <1>1 DEF ExpoTyped
    <3>2. (1..entered) \X {"own", "lost"} \subseteq (1..entered') \X {"own", "lost"}
      OBVIOUS
    <3>3. QED BY <1>6, <3>1, <3>2
  <2>4. QED BY <1>1, <1>3, <1>5, <2>1, <2>2, <2>3 DEF ExpoTyped
<1>8. OpsHold'
  <2>1. OpHolds(p, o)'
    <3>1. live'[k] = 0
      BY <1>5
    <3>2. \A j \in PubKeys : SameName(j, k) /\ PreviewOf[j] = p => live'[j] = 0
      BY <1>5 DEF SameName, Rivals
    <3>3. QED BY <3>1, <3>2
  <2>2. ASSUME NEW q \in Previews \ {p} PROVE OpHolds(q, op[q])'
    <3>1. op'[q] = op[q] /\ OpHolds(q, op[q]) /\ op[q].key \in PubKeys /\ op[q].entry \in 0..entered
      BY <1>1, EntryNumbers DEF ExpoTyped, OpsHold
    <3>2. op[q].step \in {"post", "insert"} => op[q].entry \in ports /\ op[q].entry \notin gone
      BY <1>1, <1>4, <3>1, EntriesDiffer DEF OpHolds
    <3>3. op[q].step \in MadeSteps => entryKey'[op[q].entry] = entryKey[op[q].entry]
      <4>1. op[q].step \in MadeSteps => op[q].entry \in 1..entered
        BY <1>1, <3>1, EntryNumbers DEF OpHolds
      <4>2. QED BY <4>1
    <3>4. op[q].step = "insert" => <<op[q].entry, "own">> \in shares' \/ <<op[q].entry, "own">> \notin shares
      BY <1>6, <3>2
    <3>5. op[q].step = "hold" => live'[op[q].key] = live[op[q].key]
      <4>1. op[q].step = "hold" => PreviewOf[op[q].key] = q
        BY <3>1 DEF OpHolds
      <4>2. \A j \in own : PreviewOf[j] = p
        BY <1>2
      <4>3. QED BY <1>5, <3>1, <4>1, <4>2
    <3>6. \A j \in PubKeys : live'[j] \in {0, live[j]}
      BY <1>5
    <3>7. op[q].step \in {"post", "insert"} => op[q].entry \in ports'
      BY <3>2
    <3>8. excused \subseteq excused'
      OBVIOUS
    <3>9. QED BY ONLY <1>1, <1>3, <3>1, <3>3, <3>4, <3>5, <3>6, <3>7, <3>8, OtherOp, q \in Previews,
                 Withdraws(p, k, own, gone, o)
  <2>3. QED BY <1>1, <2>1, <2>2, OneOp
<1>9. \A j \in PubKeys : Replacing(j)' <=> Replacing(j)
  BY <1>1, ReplacingStays
<1>10. KeyedByEntry'
  <2>1. \A j \in PubKeys : live[j] # 0 => live[j] \in 1..entered
    BY <1>1, EntryNumbers
  <2>2. \A j \in PubKeys : holds[j] # 0 => holds[j] \in 1..entered
    BY <1>1, EntryNumbers
  <2>3. QED BY <1>1, <1>5, <2>1, <2>2 DEF KeyedByEntry
<1>11. LiveHeld'
  BY <1>1, <1>5, <1>9 DEF LiveHeld
<1>12. HeldLive'
  BY <1>1, <1>5, <1>9 DEF HeldLive
<1>13. LiveReachable'
  BY <1>1, <1>5, <1>6 DEF LiveReachable
<1>14. AloneInName' /\ HeldKept'
  BY <1>1, <1>3, <1>5 DEF AloneInName, HeldKept
<1>15. LiveSpared'
  BY <1>1, <1>3, <1>5 DEF LiveSpared
<1>16. QED BY <1>7, <1>8, <1>10, <1>11, <1>12, <1>13, <1>14, <1>15 DEF ExpoInv

\* Frontdoor withdraws, and goes on with a new entry or gives up.
LEMMA WithdrawKeeps ==
  ASSUME ExpoInv, NEW p \in Previews, FdWithdraw(p)
  PROVE  ExpoInv'
<1>1. PICK k \in PubKeys : k = op[p].key
  BY EntryNumbers DEF ExpoInv
<1>2. PICK own : own = {j \in Rivals(k) : PreviewOf[j] = p} \cup {k}
  OBVIOUS
<1>3. PICK gone : gone = {live[j] : j \in own} \ {0}
  OBVIOUS
<1>4. /\ op[p].step = "withdraw" /\ live' = [j \in PubKeys |-> IF j \in own THEN 0 ELSE live[j]]
      /\ DeleteShare({<<e, "own">> : e \in gone})
      /\ \/ NewEntry(k, "post") /\ ports' = (ports \ gone) \cup {entered + 1}
            /\ excused' = excused \cup gone \cup Exposes({entered + 1})
         \/ /\ op' = [op EXCEPT ![p] = NoOp] /\ ports' = ports \ gone
            /\ excused' = excused \cup gone /\ UNCHANGED <<entryKey, entered>>
      /\ UNCHANGED <<kind, holds, recorded, sweepVars, stops>>
  BY <1>1, <1>2, <1>3 DEF FdWithdraw, OpAt
<1>5. ExpoTyped /\ PreviewOf[k] = p /\ kind = "frontdoor"
  BY <1>1, <1>4 DEF ExpoInv, OpsHold, OpHolds
<1>6. /\ live \in [PubKeys -> 0..entered] /\ holds \in [PubKeys -> 0..entered] /\ gone \subseteq 0..entered
      /\ ports \subseteq 1..entered /\ excused \subseteq 0..entered /\ entryKey \in [Entries -> PubKeys]
      /\ entered \in 0..MaxEntries
  <2>1. own \subseteq PubKeys
    BY <1>2 DEF Rivals
  <2>2. QED BY <1>3, <1>5, <2>1 DEF ExpoTyped
<1>7. CASE NewEntry(k, "post") /\ ports' = (ports \ gone) \cup {entered + 1}
           /\ excused' = excused \cup gone \cup Exposes({entered + 1})
  <2>1. PICK n : n = entered + 1
    OBVIOUS
  <2>2. /\ entered' = n /\ n \in 0..MaxEntries /\ entryKey' \in [Entries -> PubKeys] /\ entryKey'[n] = k
        /\ \A e \in 1..entered : entryKey'[e] = entryKey[e]
        /\ 0..entered \subseteq 0..n /\ 1..entered \subseteq 1..n /\ n \in 1..n /\ n \in 0..n /\ n # 0
        /\ n \notin 0..entered
    BY <1>5, <1>7, <2>1, NewEntryMade, EntryNumbers DEF OpSteps
  <2>3. /\ ports \ gone \subseteq ports' /\ ports' \subseteq 1..n /\ n \in ports'
        /\ excused \cup gone \subseteq excused' /\ excused' \subseteq 0..n /\ (sweep # "idle" => n \in excused')
    BY <1>6, <1>7, <2>1, <2>2 DEF Exposes
  <2>4. PICK o : o = [step |-> "post", key |-> k, entry |-> n]
    OBVIOUS
  <2>5. /\ o \in [step : OpSteps, key : PubKeys, entry : 0..n] /\ o.step = "post" /\ o.key = k /\ o.entry = n
        /\ op' = [op EXCEPT ![p] = o]
    BY <1>5, <1>7, <2>1, <2>2, <2>4 DEF OpSteps, NewEntry
  <2>6. holds'[k] # n
    BY <1>4, <1>6, <2>2
  <2>7. live'[k] = 0 /\ (\A j \in PubKeys : SameName(j, k) /\ PreviewOf[j] = p => live'[j] = 0) => OpHolds(p, o)'
    BY <1>4, <1>5, <2>2, <2>3, <2>5, <2>6 DEF OpHolds, MadeSteps, SameName, sweepVars
  <2>8. o.step # "hold"
    BY <2>5
  <2>9. Withdraws(p, k, own, gone, o)
    BY <1>1, <1>2, <1>3, <1>4, <2>2, <2>3, <2>5, <2>7, <2>8 DEF Withdraws, sweepVars
  <2>10. QED BY <2>9, WithdrawsKeep
<1>8. CASE /\ op' = [op EXCEPT ![p] = NoOp] /\ ports' = ports \ gone
           /\ excused' = excused \cup gone /\ UNCHANGED <<entryKey, entered>>
  <2>1. PICK o : o = NoOp
    OBVIOUS
  <2>2. /\ o \in [step : OpSteps, key : PubKeys, entry : 0..entered] /\ o.step = "idle" /\ o.entry = 0
        /\ op' = [op EXCEPT ![p] = o]
    BY <1>5, <1>8, <2>1, AtRest
  <2>3. OpHolds(p, o)'
    BY <2>2 DEF OpHolds, MadeSteps
  <2>4. /\ ports \ gone \subseteq ports' /\ ports' \subseteq 1..entered /\ excused \cup gone \subseteq excused'
        /\ excused' \subseteq 0..entered /\ entered' = entered /\ entryKey' = entryKey
    BY <1>6, <1>8
  <2>5. o.step # "hold"
    BY <2>2
  <2>6. Withdraws(p, k, own, gone, o)
    BY <1>1, <1>2, <1>3, <1>4, <1>6, <2>2, <2>3, <2>4, <2>5 DEF Withdraws, sweepVars
  <2>7. QED BY <2>6, WithdrawsKeep
<1>9. QED BY <1>4, <1>7, <1>8

\* What a publication says while its share is being made.
LEMMA ReadyToInsert ==
  ASSUME ExpoInv, NEW p \in Previews, op[p].step \in {"post", "insert"}
  PROVE  /\ op[p].key \in PubKeys /\ PreviewOf[op[p].key] = p /\ kind = "frontdoor"
         /\ op[p].entry \in 1..entered /\ op[p].entry # 0 /\ entryKey[op[p].entry] = op[p].key
         /\ holds[op[p].key] # op[p].entry
         /\ op[p].entry \in ports /\ live[op[p].key] = 0
         /\ \A j \in PubKeys : SameName(j, op[p].key) /\ PreviewOf[j] = p => live[j] = 0
         /\ op[p].step = "insert" => <<op[p].entry, "own">> \in shares \/ op[p].entry \in excused
         /\ sweep # "idle" => op[p].entry \in excused
<1>1. OpHolds(p, op[p]) /\ op[p].key \in PubKeys /\ op[p].entry \in 0..entered /\ entered \in Nat
  BY EntryNumbers DEF ExpoInv, OpsHold
<1>2. op[p].entry # 0
  BY <1>1 DEF OpHolds, MadeSteps
<1>3. QED BY <1>1, <1>2 DEF OpHolds, MadeSteps

\* The answer of a create: nothing is live yet, and only this entry's port may go.
LEMMA CreateAnswerKeeps ==
  ASSUME ExpoInv, NEW p \in Previews, op[p].step = "post", NEW e, e = op[p].entry,
         shares \subseteq shares', shares' \subseteq shares \cup {<<e, "own">>, <<e, "lost">>},
         ports' \subseteq ports, ports \ {e} \subseteq ports',
         NEW o \in [step : OpSteps, key : PubKeys, entry : 0..entered], o.step # "hold", OpHolds(p, o)',
         op' = [op EXCEPT ![p] = o],
         UNCHANGED <<kind, regVars, entryKey, entered, sweepVars, stops, excused>>
  PROVE  ExpoInv'
<1>1. ExpoTyped /\ OpsHold /\ KeyedByEntry /\ LiveHeld /\ HeldLive /\ LiveReachable /\ AloneInName /\ HeldKept /\ LiveSpared
  BY DEF ExpoInv
<1>2. UNCHANGED <<kind, live, holds, recorded, entryKey, entered, starting, sweep, keep, found, excused>>
  BY DEF regVars, sweepVars
<1>3. e \in 1..entered
  BY ReadyToInsert
<1>4. ExpoTyped'
  <2>1. op' \in [Previews -> [step : OpSteps, key : PubKeys, entry : 0..entered]]
    BY <1>1 DEF ExpoTyped
  <2>2. <<e, "own">> \in (1..entered) \X {"own", "lost"} /\ <<e, "lost">> \in (1..entered) \X {"own", "lost"}
    BY <1>3
  <2>3. shares' \subseteq (1..entered) \X {"own", "lost"} /\ ports' \subseteq 1..entered
    BY <1>1, <2>2 DEF ExpoTyped
  <2>4. QED BY <1>1, <1>2, <2>1, <2>3 DEF ExpoTyped
<1>5. OpsHold'
  <2>1. ASSUME NEW q \in Previews \ {p} PROVE OpHolds(q, op[q])'
    <3>1. op'[q] = op[q] /\ OpHolds(q, op[q]) /\ op[q].key \in PubKeys
      BY <1>1, EntryNumbers DEF ExpoTyped, OpsHold
    <3>2. op[q].step \in {"post", "insert"} => op[q].entry \in ports'
      <4>1. op[q].step \in MadeSteps => op[q].entry # e
        BY <1>1, EntriesDiffer DEF MadeSteps
      <4>2. QED BY <3>1, <4>1 DEF OpHolds, MadeSteps
    <3>3. op[q].step = "insert" => <<op[q].entry, "own">> \in shares' \/ <<op[q].entry, "own">> \notin shares
      OBVIOUS
    <3>4. QED BY ONLY <1>1, <1>2, <3>1, <3>2, <3>3, OtherOp, q \in Previews
  <2>2. QED BY <1>1, <2>1, OneOp
<1>6. \A j \in PubKeys : Replacing(j)' <=> Replacing(j)
  BY <1>1, ReplacingStays
<1>7. LiveHeld' /\ HeldLive'
  BY <1>1, <1>2, <1>6 DEF LiveHeld, HeldLive
<1>8. LiveReachable'
  BY <1>1, <1>2, EntriesDiffer DEF LiveReachable
<1>9. KeyedByEntry' /\ AloneInName' /\ HeldKept' /\ LiveSpared'
  BY <1>1, <1>2 DEF KeyedByEntry, AloneInName, HeldKept, LiveSpared
<1>10. QED BY <1>4, <1>5, <1>7, <1>8, <1>9 DEF ExpoInv

\* A create is answered, times out and is repeated, or fails.
LEMMA PostKeeps ==
  ASSUME ExpoInv, NEW p \in Previews, FdPost(p)
  PROVE  ExpoInv'
<1>1. PICK e : e = op[p].entry
  OBVIOUS
<1>2. /\ op[p].step = "post" /\ op[p].key \in PubKeys
      /\ UNCHANGED <<kind, regVars, entryKey, entered, sweepVars, stops, excused>>
  BY EntryNumbers DEF FdPost, OpAt, ExpoInv
<1>3. /\ op[p] \in [step : OpSteps, key : PubKeys, entry : 0..entered] /\ ExpoTyped
      /\ op \in [Previews -> [step : OpSteps, key : PubKeys, entry : 0..entered]]
  BY DEF ExpoInv, ExpoTyped
<1>4. /\ PreviewOf[op[p].key] = p /\ kind = "frontdoor" /\ e \in 1..entered /\ e # 0 /\ entryKey[e] = op[p].key
      /\ holds[op[p].key] # e /\ e \in ports /\ live[op[p].key] = 0
      /\ \A j \in PubKeys : SameName(j, op[p].key) /\ PreviewOf[j] = p => live[j] = 0
      /\ sweep # "idle" => e \in excused
  BY <1>1, <1>2, ReadyToInsert
<1>5. CASE /\ op' = [op EXCEPT ![p].step = "insert"] /\ shares' = shares \cup {<<e, "own">>}
           /\ UNCHANGED ports
  <2>1. PICK o : o = [op[p] EXCEPT !.step = "insert"]
    OBVIOUS
  <2>2. /\ o \in [step : OpSteps, key : PubKeys, entry : 0..entered] /\ o.step = "insert" /\ o.key = op[p].key
        /\ o.entry = e /\ op' = [op EXCEPT ![p] = o]
    BY <1>1, <1>3, <1>5, <2>1 DEF OpSteps
  <2>3. OpHolds(p, o)'
    BY <1>2, <1>4, <1>5, <2>2 DEF OpHolds, MadeSteps, SameName, regVars, sweepVars
  <2>4. ports' \subseteq ports /\ ports \ {e} \subseteq ports' /\ shares \subseteq shares'
        /\ shares' \subseteq shares \cup {<<e, "own">>, <<e, "lost">>} /\ o.step # "hold"
    BY <1>5, <2>2
  <2>5. QED BY ONLY ExpoInv, p \in Previews, <1>1, <1>2, <2>2, <2>3, <2>4, CreateAnswerKeeps
<1>6. CASE shares' = shares \cup {<<e, "lost">>} /\ UNCHANGED <<ports, op>>
  <2>1. PICK o : o = op[p]
    OBVIOUS
  <2>2. o \in [step : OpSteps, key : PubKeys, entry : 0..entered] /\ o.step = "post" /\ op' = [op EXCEPT ![p] = o]
    BY <1>2, <1>3, <1>6, <2>1
  <2>3. OpHolds(p, o)'
    BY <1>1, <1>2, <1>4, <1>6, <2>1, <2>2 DEF OpHolds, MadeSteps, SameName, regVars, sweepVars
  <2>4. ports' \subseteq ports /\ ports \ {e} \subseteq ports' /\ shares \subseteq shares'
        /\ shares' \subseteq shares \cup {<<e, "own">>, <<e, "lost">>} /\ o.step # "hold"
    BY <1>6, <2>2
  <2>5. QED BY ONLY ExpoInv, p \in Previews, <1>1, <1>2, <2>2, <2>3, <2>4, CreateAnswerKeeps
<1>7. CASE /\ shares' \in {shares, shares \cup {<<e, "lost">>}, shares \cup {<<e, "own">>}}
           /\ FdFail(p) /\ op' = [op EXCEPT ![p] = NoOp]
  <2>1. PICK o : o = NoOp
    OBVIOUS
  <2>2. /\ o \in [step : OpSteps, key : PubKeys, entry : 0..entered] /\ o.step = "idle" /\ o.entry = 0
        /\ op' = [op EXCEPT ![p] = o]
    BY <1>3, <1>7, <2>1, AtRest
  <2>3. OpHolds(p, o)'
    BY <2>2 DEF OpHolds, MadeSteps
  <2>4. ports' \subseteq ports /\ ports \ {e} \subseteq ports' /\ shares \subseteq shares'
        /\ shares' \subseteq shares \cup {<<e, "own">>, <<e, "lost">>} /\ o.step # "hold"
    BY <1>1, <1>7, <2>2 DEF FdFail
  <2>5. QED BY ONLY ExpoInv, p \in Previews, <1>1, <1>2, <2>2, <2>3, <2>4, CreateAnswerKeeps
<1>8. QED BY <1>1, <1>5, <1>6, <1>7 DEF FdPost

\* The entry becomes live without another look at its name: a rival is excused with it.
LEMMA InsertKeeps ==
  ASSUME ExpoInv, NEW p \in Previews, FdInsert(p)
  PROVE  ExpoInv'
<1>1. PICK e : e = op[p].entry
  OBVIOUS
<1>2. PICK k \in PubKeys : k = op[p].key
  BY EntryNumbers DEF ExpoInv
<1>3. /\ op[p].step = "insert" /\ op' = [op EXCEPT ![p].step = "hold"] /\ live' = [live EXCEPT ![k] = e]
      /\ excused' = IF Collides(k) THEN excused \cup {e} \cup {live[j] : j \in Rivals(k)} ELSE excused
      /\ UNCHANGED <<kind, holds, recorded, entryKey, entered, ports, shares, starting, sweep, keep, found>>
  BY <1>1, <1>2 DEF FdInsert, OpAt, fdVars, sweepVars
<1>4. ExpoTyped /\ OpsHold /\ KeyedByEntry /\ LiveHeld /\ HeldLive /\ LiveReachable /\ AloneInName /\ HeldKept /\ LiveSpared
  BY DEF ExpoInv
<1>5. /\ PreviewOf[k] = p /\ e \in 1..entered /\ e # 0 /\ entryKey[e] = k
      /\ holds[k] # e /\ e \in ports /\ live[k] = 0
      /\ \A j \in PubKeys : SameName(j, k) /\ PreviewOf[j] = p => live[j] = 0
      /\ <<e, "own">> \in shares \/ e \in excused
      /\ sweep # "idle" => e \in excused
  BY <1>1, <1>2, <1>3, ReadyToInsert
<1>6. e \in 0..entered /\ live \in [PubKeys -> 0..entered] /\ excused \subseteq 0..entered
  BY <1>4, <1>5, EntryNumbers DEF ExpoTyped
<1>7. /\ live' \in [PubKeys -> 0..entered] /\ live'[k] = e /\ \A j \in PubKeys \ {k} : live'[j] = live[j]
      /\ excused \subseteq excused' /\ excused' \subseteq 0..entered
  <2>1. {live[j] : j \in Rivals(k)} \subseteq 0..entered
    BY <1>6 DEF Rivals
  <2>2. QED BY <1>3, <1>6, <2>1
<1>8. PICK o : o = [op[p] EXCEPT !.step = "hold"]
  OBVIOUS
<1>9. /\ o \in [step : OpSteps, key : PubKeys, entry : 0..entered] /\ o.step = "hold" /\ o.key = k
      /\ o.entry = e /\ op' = [op EXCEPT ![p] = o]
  <2>1. /\ op[p] \in [step : OpSteps, key : PubKeys, entry : 0..entered]
        /\ op \in [Previews -> [step : OpSteps, key : PubKeys, entry : 0..entered]]
    BY <1>4 DEF ExpoTyped
  <2>2. QED BY <1>1, <1>2, <1>3, <1>8, <2>1 DEF OpSteps
<1>10. ExpoTyped'
  <2>1. op' \in [Previews -> [step : OpSteps, key : PubKeys, entry : 0..entered]]
    BY <1>4, <1>9 DEF ExpoTyped
  <2>2. QED BY <1>3, <1>4, <1>7, <2>1 DEF ExpoTyped
<1>11. OpsHold'
  <2>1. OpHolds(p, o)'
    BY <1>3, <1>5, <1>7, <1>9 DEF OpHolds, MadeSteps
  <2>2. ASSUME NEW q \in Previews \ {p} PROVE OpHolds(q, op[q])'
    <3>1. op'[q] = op[q] /\ OpHolds(q, op[q]) /\ op[q].key \in PubKeys
      BY <1>4, <1>9, EntryNumbers DEF ExpoTyped, OpsHold
    <3>2. op[q].step \in MadeSteps => op[q].key # k
      BY <1>5, <3>1 DEF OpHolds, MadeSteps
    <3>3. op[q].step \in {"post", "insert"} => op[q].entry \in ports'
      BY <1>3, <3>1 DEF OpHolds
    <3>4. \A j \in PubKeys : PreviewOf[j] = q => live'[j] \in {0, live[j]}
      BY <1>5, <1>7
    <3>5. op[q].step = "hold" => live'[op[q].key] = live[op[q].key]
      BY <1>7, <3>1, <3>2 DEF MadeSteps
    <3>6. UNCHANGED <<kind, holds, entryKey, sweep, shares>> /\ excused \subseteq excused'
      BY <1>3, <1>7
    <3>7. QED BY ONLY <1>4, <3>1, <3>3, <3>4, <3>5, <3>6, OtherOp, q \in Previews
  <2>3. QED BY ONLY p \in Previews, <1>4, <1>9, <2>1, <2>2, OneOp
<1>12. Replacing(k)' /\ \A j \in PubKeys \ {k} : Replacing(j)' <=> Replacing(j)
  <2>1. op'[p] = o
    BY <1>4, <1>9 DEF ExpoTyped
  <2>2. Replacing(k)'
    BY <1>5, <1>9, <2>1 DEF Replacing
  <2>3. \A j \in PubKeys \ {k} : Replacing(j)' <=> Replacing(j)
    BY <1>2, <1>4, <1>9, ReplacingStays
  <2>4. QED BY <2>2, <2>3
<1>13. LiveHeld' /\ HeldLive'
  BY <1>3, <1>4, <1>7, <1>12 DEF LiveHeld, HeldLive
<1>14. KeyedByEntry' /\ HeldKept' /\ LiveSpared'
  BY <1>3, <1>4, <1>5, <1>7 DEF KeyedByEntry, HeldKept, LiveSpared
<1>15. LiveReachable'
  BY <1>3, <1>4, <1>5, <1>7 DEF LiveReachable
<1>16. AloneInName'
  <2>1. ASSUME NEW j \in PubKeys, SameName(j, k), live'[j] # 0 PROVE e \in excused' /\ live'[j] \in excused'
    <3>1. j # k /\ live'[j] = live[j] /\ PreviewOf[j] # p
      BY <1>5, <1>7, <2>1 DEF SameName
    <3>2. j \in Rivals(k) /\ Collides(k)
      BY <1>5, <2>1, <3>1 DEF Rivals, Collides, SameName
    <3>3. QED BY <1>3, <3>1, <3>2
  <2>2. SUFFICES ASSUME NEW i \in PubKeys, NEW j \in PubKeys, SameName(i, j), live'[i] # 0, live'[j] # 0
                 PROVE  live'[j] \in excused'
    BY DEF AloneInName, SameName
  <2>3. SameName(j, i)
    BY <2>2 DEF SameName
  <2>4. CASE j = k
    BY <1>7, <2>1, <2>2, <2>4
  <2>5. CASE i = k
    BY <2>1, <2>2, <2>3, <2>5
  <2>6. CASE i # k /\ j # k
    BY <1>4, <1>7, <2>2, <2>6 DEF AloneInName
  <2>7. QED BY <2>4, <2>5, <2>6
<1>17. QED BY <1>10, <1>11, <1>13, <1>14, <1>15, <1>16 DEF ExpoInv

\* A step of the sweep, or the end of the process, leaves every publication under way alone.
LEMMA SameOps ==
  ASSUME ExpoTyped, op' = op, UNCHANGED entered
  PROVE  /\ op' \in [Previews -> [step : OpSteps, key : PubKeys, entry : 0..entered']]
         /\ \A j \in PubKeys : Replacing(j)' <=> Replacing(j)
         /\ \A q \in Previews : op'[q] = op[q]
BY DEF ExpoTyped, Replacing

\* A sweep begins: what no row names is at its mercy from here on.
LEMMA SweepKeepKeeps == ExpoInv /\ SweepKeep => ExpoInv'
<1> SUFFICES ASSUME ExpoInv, SweepKeep PROVE ExpoInv'
  OBVIOUS
<1>1. ExpoTyped /\ OpsHold /\ KeyedByEntry /\ LiveHeld /\ HeldLive /\ LiveReachable /\ AloneInName /\ HeldKept /\ LiveSpared
  BY DEF ExpoInv
<1>2. /\ UNCHANGED <<kind, live, holds, recorded, entryKey, entered, ports, shares, op, found>>
      /\ sweep' = "list" /\ keep' = recorded
      /\ excused' = excused \cup {op[p].entry : p \in Previews} \cup {holds[k] : k \in PubKeys \ recorded}
  BY DEF SweepKeep, regVars, fdVars
<1>3. /\ excused \subseteq excused' /\ excused' \subseteq 0..entered /\ \A p \in Previews : op[p].entry \in excused'
      /\ \A k \in PubKeys \ recorded : holds[k] \in excused'
  BY <1>1, <1>2 DEF ExpoTyped
<1>4. ExpoTyped'
  BY <1>1, <1>2, <1>3 DEF ExpoTyped
<1>5. OpsHold'
  <2>1. ASSUME NEW q \in Previews PROVE OpHolds(q, op[q])'
    <3>1. op'[q] = op[q] /\ OpHolds(q, op[q]) /\ op[q].key \in PubKeys
      BY <1>1, <1>2, EntryNumbers DEF ExpoTyped, OpsHold
    <3>2. op[q].step \in {"post", "insert"} => op[q].entry \in ports'
      BY <1>2, <3>1 DEF OpHolds
    <3>3. op[q].entry \in excused'
      BY <1>3
    <3>4. QED BY ONLY <1>1, <1>2, <1>3, <3>1, <3>2, <3>3, OtherOp, q \in Previews
  <2>2. QED BY <2>1 DEF OpsHold
<1>6. LiveHeld' /\ HeldLive'
  BY <1>1, <1>2, <1>3, SameOps DEF LiveHeld, HeldLive
<1>7. KeyedByEntry' /\ LiveReachable' /\ AloneInName' /\ HeldKept' /\ LiveSpared'
  BY <1>1, <1>2, <1>3 DEF KeyedByEntry, LiveReachable, AloneInName, HeldKept, LiveSpared
<1>8. QED BY <1>4, <1>5, <1>6, <1>7 DEF ExpoInv

\* A listing, a judgement or a deletion: of the shares, at most those go that are not live or
\* are excused.
LEMMA SweepingKeeps ==
  ASSUME ExpoInv,
         UNCHANGED <<kind, live, holds, recorded, entryKey, entered, ports, op, excused>>,
         sweep # "idle", sweep' \in {"idle", "judge", "delete"}, keep' \in {keep, {}},
         found' \subseteq shares \cup found, shares' \subseteq shares,
         \A e \in 1..entered : <<e, "own">> \in shares \ shares' => <<e, "own">> \in found /\ sweep = "delete",
         LiveSpared'
  PROVE  ExpoInv'
<1>1. ExpoTyped /\ OpsHold /\ KeyedByEntry /\ LiveHeld /\ HeldLive /\ LiveReachable /\ AloneInName /\ HeldKept /\ LiveSpared
  BY DEF ExpoInv
<1>2. ExpoTyped'
  BY <1>1 DEF ExpoTyped
<1>3. OpsHold'
  <2>1. ASSUME NEW q \in Previews PROVE OpHolds(q, op[q])'
    <3>1. op'[q] = op[q] /\ OpHolds(q, op[q]) /\ op[q].key \in PubKeys
      BY <1>1, EntryNumbers DEF ExpoTyped, OpsHold
    <3>2. op[q].step \in {"post", "insert"} => op[q].entry \in ports'
      BY <3>1 DEF OpHolds
    <3>3. op[q].step = "insert" => op[q].entry \in excused'
      BY ReadyToInsert
    <3>4. QED BY ONLY <1>1, <3>1, <3>2, <3>3, OtherOp, q \in Previews, UNCHANGED <<kind, live, holds, entryKey, excused>>,
                 sweep # "idle"
  <2>2. QED BY <2>1 DEF OpsHold
<1>4. LiveHeld' /\ HeldLive'
  BY <1>1, SameOps DEF LiveHeld, HeldLive
<1>5. KeyedByEntry' /\ AloneInName' /\ HeldKept'
  BY <1>1 DEF KeyedByEntry, AloneInName, HeldKept
<1>6. LiveReachable'
  <2>1. \A k \in PubKeys : live[k] # 0 => live[k] \in 1..entered
    BY <1>1, EntryNumbers
  <2>2. QED BY <1>1, <2>1 DEF LiveReachable, LiveSpared
<1>7. QED BY <1>2, <1>3, <1>4, <1>5, <1>6 DEF ExpoInv

\* The listing: nothing is decided yet.
LEMMA SweepListKeeps == ExpoInv /\ SweepList => ExpoInv'
<1> SUFFICES ASSUME ExpoInv, SweepList PROVE ExpoInv'
  OBVIOUS
<1>1. /\ UNCHANGED <<kind, live, holds, recorded, entryKey, entered, ports, shares, op, excused>>
      /\ sweep = "list" /\ sweep' \in {"idle", "judge"} /\ keep' \in {keep, {}} /\ found' \in {found, shares}
  BY DEF SweepList, regVars, fdVars
<1>2. sweep # "idle" /\ sweep' \in {"idle", "judge", "delete"} /\ found' \subseteq shares \cup found /\ LiveSpared'
  BY <1>1 DEF LiveSpared
<1>3. QED BY <1>1, <1>2, SweepingKeeps

\* The judgement: a live entry's share is spared.
LEMMA SweepJudgeKeeps == ExpoInv /\ SweepJudge => ExpoInv'
<1> SUFFICES ASSUME ExpoInv, SweepJudge PROVE ExpoInv'
  OBVIOUS
<1>1. /\ UNCHANGED <<kind, live, holds, recorded, entryKey, entered, ports, shares, op, excused>>
      /\ sweep = "judge" /\ sweep' = "delete" /\ keep' = {} /\ found' = Doomed
  BY DEF SweepJudge, regVars, fdVars
<1>2. found' \subseteq shares \cup found /\ LiveSpared'
  BY <1>1 DEF Doomed, LiveSpared
<1>3. sweep # "idle" /\ sweep' \in {"idle", "judge", "delete"} /\ keep' \in {keep, {}}
  BY <1>1
<1>4. QED BY <1>1, <1>2, <1>3, SweepingKeeps

\* A deletion: of a share that was judged.
LEMMA SweepDeleteKeeps == ExpoInv /\ SweepDelete => ExpoInv'
<1> SUFFICES ASSUME ExpoInv, SweepDelete PROVE ExpoInv'
  OBVIOUS
<1>1. /\ UNCHANGED <<kind, live, holds, recorded, entryKey, entered, ports, op, keep, excused>>
      /\ sweep = "delete" /\ sweep' \in {"idle", "delete"} /\ found' \subseteq found /\ shares' \subseteq shares
      /\ shares \ shares' \subseteq found
  <2>1. CASE found = {}
    BY <2>1 DEF SweepDelete, regVars
  <2>2. CASE found # {}
    <3>1. PICK s \in found : DeleteShare({s}) /\ found' = found \ {s} /\ UNCHANGED <<sweep, starting>>
      BY <2>2 DEF SweepDelete
    <3>2. shares' \subseteq shares /\ shares \ shares' \subseteq found
      BY <3>1 DEF DeleteShare
    <3>3. QED BY <3>1, <3>2 DEF SweepDelete, regVars
  <2>3. QED BY <2>1, <2>2
<1>2. LiveSpared'
  BY <1>1 DEF ExpoInv, LiveSpared
<1>3. /\ sweep # "idle" /\ sweep' \in {"idle", "judge", "delete"} /\ keep' \in {keep, {}}
      /\ found' \subseteq shares \cup found
      /\ \A e \in 1..entered : <<e, "own">> \in shares \ shares' => <<e, "own">> \in found /\ sweep = "delete"
  BY <1>1
<1>4. QED BY <1>1, <1>2, <1>3, SweepingKeeps

\* Local drops the mounts nothing kept names: what the daemon holds is among them only when it
\* was at the sweep's mercy.
LEMMA SweepMountsKeeps == ExpoInv /\ SweepMounts => ExpoInv'
<1> SUFFICES ASSUME ExpoInv, SweepMounts PROVE ExpoInv'
  OBVIOUS
<1>1. ExpoTyped /\ OpsHold /\ KeyedByEntry /\ LiveHeld /\ HeldLive /\ LiveReachable /\ AloneInName /\ HeldKept /\ LiveSpared
  BY DEF ExpoInv
<1>2. /\ UNCHANGED <<kind, holds, recorded, entryKey, entered, ports, shares, op, found, excused>>
      /\ sweep = "list" /\ kind # "frontdoor" /\ sweep' = "idle" /\ keep' = {}
      /\ live' = IF kind = "local" THEN [k \in PubKeys |-> IF k \in keep THEN live[k] ELSE 0] ELSE live
  BY DEF SweepMounts, fdVars
<1>3. live' \in [PubKeys -> 0..entered] /\ \A k \in PubKeys : live'[k] = live[k] \/ (live'[k] = 0 /\ k \notin keep)
  BY <1>1, <1>2, EntryNumbers DEF ExpoTyped
<1>4. ExpoTyped'
  BY <1>1, <1>2, <1>3 DEF ExpoTyped
<1>5. OpsHold'
  <2>1. ASSUME NEW q \in Previews PROVE OpHolds(q, op[q])'
    <3>1. op'[q] = op[q] /\ OpHolds(q, op[q]) /\ op[q].key \in PubKeys
      BY <1>1, <1>2, EntryNumbers DEF ExpoTyped, OpsHold
    <3>2. op[q].step \notin {"post", "insert"}
      BY <1>2, <3>1 DEF OpHolds
    <3>3. op[q].step = "hold" => op[q].entry \in excused'
      BY <1>2, ReadyToHold
    <3>4. op[q].step = "hold" => live'[op[q].key] = live[op[q].key] \/ (live'[op[q].key] = 0 /\ op[q].entry \in excused')
      BY <1>3, <3>1, <3>3
    <3>5. QED BY ONLY <1>1, <1>2, <3>1, <3>2, <3>4, OtherOp, q \in Previews
  <2>2. QED BY <2>1 DEF OpsHold
<1>6. LiveHeld'
  BY <1>1, <1>2, <1>3, SameOps DEF LiveHeld
<1>7. HeldLive'
  BY <1>1, <1>2, <1>3, SameOps DEF HeldLive, HeldKept
<1>8. KeyedByEntry' /\ LiveReachable' /\ AloneInName' /\ HeldKept' /\ LiveSpared'
  BY <1>1, <1>2, <1>3 DEF KeyedByEntry, LiveReachable, AloneInName, HeldKept, LiveSpared
<1>9. QED BY <1>4, <1>5, <1>6, <1>7, <1>8 DEF ExpoInv

\* After the end of the process nothing is held and nothing is live.
LEMMA StopKeeps == ExpoInv /\ Stop => ExpoInv'
<1> SUFFICES ASSUME ExpoInv, Stop PROVE ExpoInv'
  OBVIOUS
<1>1. ExpoTyped /\ 0 \in 0..entered
  BY EntryNumbers DEF ExpoInv
<1>2. /\ shares' \subseteq shares /\ live' = [k \in PubKeys |-> 0] /\ holds' = [k \in PubKeys |-> 0] /\ ports' = {}
      /\ op' = [p \in Previews |-> NoOp] /\ sweep' = "list" /\ keep' = recorded /\ found' = {}
      /\ UNCHANGED <<kind, recorded, entryKey, entered, excused>>
  BY DEF Stop, DeleteShare
<1>3. PICK o : o = NoOp
  OBVIOUS
<1>4. o \in [step : OpSteps, key : PubKeys, entry : 0..entered] /\ o.step = "idle" /\ o.entry = 0
      /\ op' = [p \in Previews |-> o]
  BY <1>1, <1>2, <1>3, AtRest
<1>5. live' \in [PubKeys -> 0..entered] /\ holds' \in [PubKeys -> 0..entered]
      /\ op' \in [Previews -> [step : OpSteps, key : PubKeys, entry : 0..entered]]
  BY <1>1, <1>2, <1>4
<1>6. ExpoTyped'
  BY <1>1, <1>2, <1>5 DEF ExpoTyped
<1>7. OpsHold'
  BY <1>4 DEF OpsHold, OpHolds, MadeSteps
<1>8. KeyedByEntry' /\ LiveHeld' /\ HeldLive' /\ LiveReachable' /\ AloneInName' /\ HeldKept' /\ LiveSpared'
  BY <1>2 DEF KeyedByEntry, LiveHeld, HeldLive, LiveReachable, AloneInName, HeldKept, LiveSpared
<1>9. QED BY <1>6, <1>7, <1>8 DEF ExpoInv

\* The invariant, from the start and through every step.
THEOREM ExposersInvariant == ExposersSpec => []ExpoInv
<1>1. ExposersInit => ExpoInv
  <2> SUFFICES ASSUME ExposersInit PROVE ExpoInv
    OBVIOUS
  <2>1. PICK o : o = NoOp
    OBVIOUS
  <2>2. (CHOOSE k \in PubKeys : TRUE) \in PubKeys
    BY ExposersAssumption
  <2>3. o \in [step : OpSteps, key : PubKeys, entry : 0..entered] /\ o.step = "idle" /\ o.entry = 0
        /\ op = [p \in Previews |-> o]
    BY <2>1, <2>2 DEF ExposersInit, NoOp, OpSteps
  <2>4. ExpoTyped
    BY <2>2, <2>3, ExposersAssumption DEF ExposersInit, ExpoTyped
  <2>5. OpsHold
    BY <2>3 DEF OpsHold, OpHolds, MadeSteps
  <2>6. QED BY <2>4, <2>5 DEF ExpoInv, ExposersInit, KeyedByEntry, LiveHeld, HeldLive, LiveReachable, AloneInName, HeldKept, LiveSpared
<1>2. ExpoInv /\ [ExposersNext]_expoVars => ExpoInv'
  <2> SUFFICES ASSUME ExpoInv, [ExposersNext]_expoVars PROVE ExpoInv'
    OBVIOUS
  <2>1. CASE UNCHANGED expoVars
    BY <2>1 DEF ExpoInv, ExpoTyped, OpsHold, OpHolds, KeyedByEntry, LiveHeld, HeldLive, LiveReachable, AloneInName, HeldKept, LiveSpared,
                Replacing, expoVars, regVars, fdVars, sweepVars
  <2>2. ASSUME NEW k \in PubKeys, FdCheck(k) \/ Mount(k) \/ CloseHeld(k) PROVE ExpoInv'
    BY <2>2, CheckKeeps, MountKeeps, CloseHeldKeeps
  <2>3. ASSUME NEW p \in Previews, PublishStep(p) PROVE ExpoInv'
    BY <2>3, WithdrawKeeps, PostKeeps, InsertKeeps, HoldKeeps DEF PublishStep
  <2>4. CASE SweepStep
    BY <2>4, SweepKeepKeeps, SweepListKeeps, SweepJudgeKeeps, SweepDeleteKeeps, SweepMountsKeeps DEF SweepStep
  <2>5. CASE Stop
    BY <2>5, StopKeeps
  <2>6. QED BY <2>1, <2>2, <2>3, <2>4, <2>5 DEF ExposersNext
<1>3. QED BY <1>1, <1>2, PTL DEF ExposersSpec

\* Every variable of the exposers has its type.
THEOREM ExposersTypeCorrect == ExposersSpec => []ExposersTypeOK
<1>1. ExpoInv => ExposersTypeOK
  BY DEF ExpoInv, ExpoTyped, ExposersTypeOK, OpSteps
<1>2. QED BY <1>1, ExposersInvariant, PTL

\* What the daemon holds is what a request for its name reaches, and nothing else is.
THEOREM HeldStaysServed == ExposersSpec => []HeldIsServed
<1>1. ExpoInv => HeldIsServed
  <2> SUFFICES ASSUME ExpoInv, NEW k \in PubKeys, holds[k] # 0, Quiet(PreviewOf[k]), holds[k] \notin excused
               PROVE  Reached(PubName[k]) = {holds[k]}
    BY DEF HeldIsServed
  <2>1. ~Replacing(k)
    BY DEF Quiet, Replacing
  <2>2. live[k] = holds[k] /\ (kind = "frontdoor" => live[k] \in ports /\ <<live[k], "own">> \in shares)
    BY <2>1 DEF ExpoInv, HeldLive, LiveReachable
  <2>3. \A j \in PubKeys : PubName[j] = PubName[k] /\ live[j] # 0 => j = k
    BY <2>2 DEF ExpoInv, AloneInName, SameName
  <2>4. QED BY <2>2, <2>3 DEF Reached
<1>2. QED BY <1>1, ExposersInvariant, PTL
===============================================================================
