---------------------------- MODULE HandoverProofs ----------------------------
(* What outlives the step that left it: the shares and rows a restart finds    *)
(* (Recovery), for every set of commits, retention and number of builds,       *)
(* crashes and sweeps, and the reports on their way to the platform (Reports), *)
(* for any requests, commits, writers and teardowns.                           *)
EXTENDS Recovery, Reports, TLAPS

-------------------------------------------------------------------------------
(* Recovery. *)

Busy == {"adopt", "open", "take", "create", "listen"}

\* Builds and teardowns run in a recovered process, one at a time, and only the
\* publication they wait for is under way.
Phases ==
  /\ up # "running" => bpc = "idle" /\ tpc = "idle"
  /\ tpc # "idle" => bpc = "idle"
  /\ up = "running" => \A k \in Keys : pub[k] # "idle" =>
       (bpc = "publish" /\ k = Site) \/ (bpc = "share" /\ k = cur)
  /\ up \in {"down", "listing", "reaping"} => \A k \in Keys : pub[k] = "idle"
  /\ up = "site" => \A k \in Keys \ {Site} : pub[k] = "idle"
  /\ up = "builds" => pub[Site] = "idle"

\* What is about to be served has its artifacts.
Sources ==
  /\ \A k \in Keys : pub[k] \in Busy => Content(k) \in dirs
  /\ bpc # "idle" => cur \in dirs
  /\ dirs \subseteq 1..begun

\* Who serves what, so that a pruned build's share was the only one serving it.
Serving ==
  /\ \A k \in Builds : zlive[k] \in {0, k}
  /\ bpc \in {"save", "share", "prune", "retire", "clear"}
       \/ (bpc = "publish" /\ pub[Site] = "done") => zlive[Site] \in {0, cur}
  /\ bpc \notin {"retire", "clear"} => victim = 0
  /\ bpc \in {"retire", "clear"} => victim \in Builds \ {cur}
  /\ bpc = "clear" => zlive[victim] = 0
  /\ tpc = "closed" => \A k \in Keys : zlive[k] = 0

\* How far recover has come with the preview's row.
Restoring ==
  /\ up \in {"listing", "reaping", "site"} /\ row.st = "ready" => row.build \in dirs
  /\ up = "site" /\ row.st = "ready" => pub[Site] # "idle"
  /\ up = "site" /\ pub[Site] = "done" => share[Branch] = Site /\ zlive[Site] = row.build
  /\ up = "builds" /\ row.st = "ready" => share[Branch] = Site /\ zlive[Site] = row.build

\* The sweep's victims were not live when it began.
Sparing ==
  /\ \A k \in settled : zlive[k] # 0
  /\ \A n \in doomed : share[n] \notin settled
  /\ rpc # "delete" => doomed = {}

RecoveryInv == TypeOK /\ ServedHasArtifacts /\ Phases /\ Sources /\ Serving /\ Restoring /\ Sparing

-----------------------------------------------------------------------------
(* The pieces the actions are made of. *)

LEMMA ContentType == ASSUME TypeOK, NEW k \in Keys PROVE Content(k) \in Keys
BY DEF TypeOK, Content, Keys

\* Closing publications leaves the others, and the names of the others.
LEMMA WithdrawnEffect ==
  ASSUME TypeOK, NEW ks, Withdrawn(ks)
  PROVE  /\ zlive' = [k \in Keys |-> IF k \in ks THEN 0 ELSE zlive[k]]
         /\ zlive' \in [Keys -> Keys]
         /\ share' \in [Names -> Keys \cup {None}]
         /\ \A n \in Names : share'[n] \in {share[n], None}
         /\ \A n \in Names : share[n] \notin ks => share'[n] = share[n]
         /\ settled' = settled \ ks /\ settled' \subseteq Keys
<1>. USE DEF TypeOK, Withdrawn
<1>1. PICK gone \in SUBSET {n \in Names : share[n] \in {k \in ks : zlive[k] # 0}} :
        share' = [n \in Names |-> IF n \in gone THEN None ELSE share[n]]
  OBVIOUS
<1>2. 0 \in Keys
  BY DEF Keys, Site
<1>. QED BY <1>1, <1>2

\* A name is one of the preview's names once its key has a commit.
LEMMA NameType ==
  ASSUME TypeOK, NEW k \in Keys, k # Site => k <= begun
  PROVE  Name(k) \in Names /\ (k # Site => Name(k) # Branch)
BY RecoveryAssumption DEF TypeOK, Name, Names, Keys, Builds, Site

\* Every step keeps the types.
LEMMA TypeStep == ASSUME TypeOK, Sources, [Next]_vars PROVE TypeOK'
<1>. USE RecoveryAssumption DEF TypeOK, Keys, Builds, Site, NoRow
<1>. USE DEF vars, disk, bVars, rVars, rStep, sVars, PStep, BStep, TStep, RStep, UStep
<1>1. ASSUME NEW k \in Keys, AdoptTake(k) PROVE TypeOK'
  BY <1>1, WithdrawnEffect, SMTT(100) DEF AdoptTake
<1>2. ASSUME NEW k \in Keys, AdoptOpen(k) PROVE TypeOK'
  BY <1>2, ContentType DEF AdoptOpen
<1>3. ASSUME NEW k \in Keys, PublishTake(k) PROVE TypeOK'
  BY <1>3, WithdrawnEffect DEF PublishTake
<1>4. ASSUME NEW k \in Keys, PublishCreate(k) PROVE TypeOK'
  <2>1. share' \in [Names -> Keys \cup {None}]
    BY <1>4 DEF PublishCreate
  <2>2. pub' \in [Keys -> {"idle", "adopt", "open", "take", "create", "listen", "done", "failed"}]
    BY <1>4 DEF PublishCreate
  <2>3. doomed' \subseteq Names
    BY <1>4 DEF PublishCreate
  <2>. QED BY <1>4, <2>1, <2>2, <2>3 DEF PublishCreate
<1>5. ASSUME NEW k \in Keys, PublishListen(k) PROVE TypeOK'
  BY <1>5, ContentType, SMTT(100) DEF PublishListen
<1>6. ASSUME NEW c \in Commits, Commit(c) PROVE TypeOK'
  BY <1>6 DEF Commit
<1>7. CASE BuildFails
  BY <1>7 DEF BuildFails
<1>8. CASE Published
  BY <1>8 DEF Published
<1>9. CASE SaveRow
  BY <1>9 DEF SaveRow
<1>10. CASE SaveFails
  BY <1>10, WithdrawnEffect DEF SaveFails
<1>11. CASE SaveBuild
  <2>1. cur \in Builds
    BY <1>11 DEF SaveBuild, Sources
  <2>2. urls' \subseteq Builds
    BY <1>11, <2>1 DEF SaveBuild
  <2>. QED BY <1>11, <2>2 DEF SaveBuild
<1>12. CASE PruneDir
  <2>1. CASE \E v \in Prunable : BStep("prune", "retire") /\ dirs' = dirs \ {v} /\ victim' = v
    BY <1>12, <2>1 DEF PruneDir, Prunable
  <2>2. CASE BStep("prune", "idle") /\ UNCHANGED <<dirs, victim>>
    BY <1>12, <2>2 DEF PruneDir
  <2>. QED BY <1>12, <2>1, <2>2 DEF PruneDir
<1>13. CASE Retire
  BY <1>13, WithdrawnEffect DEF Retire
<1>14. CASE ClearShare
  BY <1>14 DEF ClearShare
<1>15. CASE TearClose
  BY <1>15, WithdrawnEffect DEF TearClose
<1>16. CASE TearDirs
  BY <1>16 DEF TearDirs
<1>17. CASE TearRow
  BY <1>17 DEF TearRow
<1>18. CASE SweepKeep
  <2>1. urls' \subseteq Builds
    BY <1>18 DEF SweepKeep
  <2>2. keep' \subseteq Keys
    BY <1>18 DEF SweepKeep
  <2>3. settled' \subseteq Keys
    BY <1>18 DEF SweepKeep
  <2>4. rpc' = "list" /\ sweeps' \in 0..MaxSweeps
    BY <1>18 DEF SweepKeep
  <2>. QED BY <1>18, <2>1, <2>2, <2>3, <2>4 DEF SweepKeep
<1>19. CASE SweepList
  BY <1>19 DEF SweepList
<1>20. CASE SweepDelete
  <2>1. share' \in [Names -> Keys \cup {None}]
    BY <1>20 DEF SweepDelete
  <2>2. doomed' \subseteq Names /\ rpc' \in {"idle", "list", "delete"}
    BY <1>20 DEF SweepDelete
  <2>3. keep' \subseteq Keys /\ settled' \subseteq Keys
    BY <1>20 DEF SweepDelete
  <2>. QED BY <1>20, <2>1, <2>2, <2>3 DEF SweepDelete
<1>21. CASE Crash
  BY <1>21 DEF Crash
<1>22. CASE Load
  BY <1>22 DEF Load
<1>23. CASE List
  BY <1>23 DEF List
<1>24. CASE Reap
  <2>1. share' \in [Names -> Keys \cup {None}]
    BY <1>24 DEF Reap
  <2>2. pub' \in [Keys -> {"idle", "adopt", "open", "take", "create", "listen", "done", "failed"}]
    BY <1>24 DEF Reap, AdoptOrPublish
  <2>. QED BY <1>24, <2>1, <2>2 DEF Reap
<1>25. CASE Unusable
  BY <1>25 DEF Unusable
<1>26. CASE Republished
  <2>1. row' \in [st : {"none", "ready", "failed"}, build : Keys]
    BY <1>26 DEF Republished
  <2>2. urls' \subseteq Builds
    BY <1>26 DEF Republished
  <2>3. pub' \in [Keys -> {"idle", "adopt", "open", "take", "create", "listen", "done", "failed"}]
    BY <1>26 DEF Republished, AdoptOrPublish
  <2>. QED BY <1>26, <2>1, <2>2, <2>3 DEF Republished
<1>27. CASE Recovered
  BY <1>27 DEF Recovered
<1>28. CASE UNCHANGED vars
  BY <1>28
<1>. QED BY <1>1, <1>2, <1>3, <1>4, <1>5, <1>6, <1>7, <1>8, <1>9, <1>10, <1>11,
            <1>12, <1>13, <1>14, <1>15, <1>16, <1>17, <1>18, <1>19, <1>20,
            <1>21, <1>22, <1>23, <1>24, <1>25, <1>26, <1>27, <1>28 DEF Next,
            PublishStep


\* Every step keeps the phases apart.
LEMMA PhasesStep == ASSUME RecoveryInv, [Next]_vars PROVE Phases'
<1>. USE RecoveryAssumption DEF RecoveryInv, TypeOK, Phases, Idle, Unlocked, Keys, Builds, Site
<1>. USE DEF vars, disk, bVars, rVars, rStep, sVars, PStep, BStep, TStep, RStep, UStep
<1>1. ASSUME NEW k \in Keys, AdoptTake(k) PROVE Phases'
  BY <1>1, WithdrawnEffect DEF AdoptTake
<1>2. ASSUME NEW k \in Keys, AdoptOpen(k) PROVE Phases'
  BY <1>2, SMTT(100) DEF AdoptOpen
<1>3. ASSUME NEW k \in Keys, PublishTake(k) PROVE Phases'
  BY <1>3, WithdrawnEffect DEF PublishTake
<1>4. ASSUME NEW k \in Keys, PublishCreate(k) PROVE Phases'
  BY <1>4, SMTT(100) DEF PublishCreate
<1>5. ASSUME NEW k \in Keys, PublishListen(k) PROVE Phases'
  BY <1>5 DEF PublishListen
<1>6. ASSUME NEW c \in Commits, Commit(c) PROVE Phases'
  BY <1>6 DEF Commit
<1>7. CASE BuildFails
  BY <1>7 DEF BuildFails
<1>8. CASE Published
  BY <1>8 DEF Published
<1>9. CASE SaveRow
  BY <1>9 DEF SaveRow
<1>10. CASE SaveFails
  BY <1>10, WithdrawnEffect DEF SaveFails
<1>11. CASE SaveBuild
  BY <1>11 DEF SaveBuild
<1>12. CASE PruneDir
  BY <1>12 DEF PruneDir
<1>13. CASE Retire
  BY <1>13, WithdrawnEffect DEF Retire
<1>14. CASE ClearShare
  BY <1>14 DEF ClearShare
<1>15. CASE TearClose
  BY <1>15, WithdrawnEffect DEF TearClose
<1>16. CASE TearDirs
  BY <1>16 DEF TearDirs
<1>17. CASE TearRow
  BY <1>17 DEF TearRow
<1>18. CASE SweepKeep
  BY <1>18 DEF SweepKeep
<1>19. CASE SweepList
  BY <1>19 DEF SweepList
<1>20. CASE SweepDelete
  BY <1>20 DEF SweepDelete
<1>21. CASE Crash
  BY <1>21 DEF Crash
<1>22. CASE Load
  BY <1>22 DEF Load
<1>23. CASE List
  BY <1>23 DEF List
<1>24. CASE Reap
  BY <1>24 DEF Reap
<1>25. CASE Unusable
  BY <1>25 DEF Unusable
<1>26. CASE Republished
  BY <1>26 DEF Republished
<1>27. CASE Recovered
  BY <1>27 DEF Recovered
<1>28. CASE UNCHANGED vars
  BY <1>28
<1>. QED BY <1>1, <1>2, <1>3, <1>4, <1>5, <1>6, <1>7, <1>8, <1>9, <1>10, <1>11,
            <1>12, <1>13, <1>14, <1>15, <1>16, <1>17, <1>18, <1>19, <1>20,
            <1>21, <1>22, <1>23, <1>24, <1>25, <1>26, <1>27, <1>28 DEF Next,
            PublishStep


\* Every step has the artifacts of what it is about to serve.
LEMMA SourcesStep == ASSUME RecoveryInv, [Next]_vars PROVE Sources'
<1>. USE RecoveryAssumption DEF RecoveryInv, TypeOK, Phases, Serving, Sources, Restoring, Idle, Unlocked, Keys, Builds, Site, Content, Busy
<1>. USE DEF vars, disk, bVars, rVars, rStep, sVars, PStep, BStep, TStep, RStep, UStep
<1>1. ASSUME NEW k \in Keys, AdoptTake(k) PROVE Sources'
  BY <1>1, WithdrawnEffect DEF AdoptTake
<1>2. ASSUME NEW k \in Keys, AdoptOpen(k) PROVE Sources'
  BY <1>2 DEF AdoptOpen
<1>3. ASSUME NEW k \in Keys, PublishTake(k) PROVE Sources'
  BY <1>3, WithdrawnEffect DEF PublishTake
<1>4. ASSUME NEW k \in Keys, PublishCreate(k) PROVE Sources'
  BY <1>4 DEF PublishCreate
<1>5. ASSUME NEW k \in Keys, PublishListen(k) PROVE Sources'
  BY <1>5 DEF PublishListen
<1>6. ASSUME NEW c \in Commits, Commit(c) PROVE Sources'
  BY <1>6, SMTT(100) DEF Commit
<1>7. CASE BuildFails
  BY <1>7 DEF BuildFails
<1>8. CASE Published
  BY <1>8 DEF Published
<1>9. CASE SaveRow
  BY <1>9 DEF SaveRow
<1>10. CASE SaveFails
  BY <1>10, WithdrawnEffect DEF SaveFails
<1>11. CASE SaveBuild
  BY <1>11 DEF SaveBuild
<1>12. CASE PruneDir
  BY <1>12 DEF PruneDir, Prunable
<1>13. CASE Retire
  BY <1>13, WithdrawnEffect DEF Retire
<1>14. CASE ClearShare
  BY <1>14 DEF ClearShare
<1>15. CASE TearClose
  BY <1>15, WithdrawnEffect DEF TearClose
<1>16. CASE TearDirs
  BY <1>16 DEF TearDirs
<1>17. CASE TearRow
  BY <1>17 DEF TearRow
<1>18. CASE SweepKeep
  BY <1>18 DEF SweepKeep
<1>19. CASE SweepList
  BY <1>19 DEF SweepList
<1>20. CASE SweepDelete
  BY <1>20 DEF SweepDelete
<1>21. CASE Crash
  BY <1>21 DEF Crash
<1>22. CASE Load
  BY <1>22 DEF Load
<1>23. CASE List
  BY <1>23 DEF List
<1>24. CASE Reap
  BY <1>24 DEF Reap, Eligible, AdoptOrPublish
<1>25. CASE Unusable
  BY <1>25 DEF Unusable
<1>26. CASE Republished
  BY <1>26 DEF Republished, AdoptOrPublish
<1>27. CASE Recovered
  BY <1>27 DEF Recovered
<1>28. CASE UNCHANGED vars
  BY <1>28
<1>. QED BY <1>1, <1>2, <1>3, <1>4, <1>5, <1>6, <1>7, <1>8, <1>9, <1>10, <1>11,
            <1>12, <1>13, <1>14, <1>15, <1>16, <1>17, <1>18, <1>19, <1>20,
            <1>21, <1>22, <1>23, <1>24, <1>25, <1>26, <1>27, <1>28 DEF Next,
            PublishStep


\* Every step keeps who serves what.
LEMMA ServingStep == ASSUME RecoveryInv, [Next]_vars PROVE Serving'
<1>. USE RecoveryAssumption DEF RecoveryInv, TypeOK, Phases, Serving, Sources, Idle, Unlocked, Keys, Builds, Site, Content, Busy
<1>. USE DEF vars, disk, bVars, rVars, rStep, sVars, PStep, BStep, TStep, RStep, UStep
<1>1. ASSUME NEW k \in Keys, AdoptTake(k) PROVE Serving'
  <2>1. Withdrawn(Superseded(k))
    BY <1>1 DEF AdoptTake
  <2>2. /\ zlive' = [j \in Keys |-> IF j \in Superseded(k) THEN 0 ELSE zlive[j]]
        /\ zlive' \in [Keys -> Keys] /\ settled' \subseteq Keys
    BY <2>1, WithdrawnEffect
  <2>3. \A j \in Keys : zlive'[j] \in {0, zlive[j]}
    BY <2>2
  <2>4. QED BY <1>1, <2>3 DEF AdoptTake
<1>2. ASSUME NEW k \in Keys, AdoptOpen(k) PROVE Serving'
  BY <1>2, SMTT(100) DEF AdoptOpen
<1>3. ASSUME NEW k \in Keys, PublishTake(k) PROVE Serving'
  BY <1>3, WithdrawnEffect DEF PublishTake
<1>4. ASSUME NEW k \in Keys, PublishCreate(k) PROVE Serving'
  BY <1>4 DEF PublishCreate
<1>5. ASSUME NEW k \in Keys, PublishListen(k) PROVE Serving'
  BY <1>5, SMTT(100) DEF PublishListen
<1>6. ASSUME NEW c \in Commits, Commit(c) PROVE Serving'
  BY <1>6 DEF Commit
<1>7. CASE BuildFails
  BY <1>7 DEF BuildFails
<1>8. CASE Published
  BY <1>8 DEF Published
<1>9. CASE SaveRow
  BY <1>9 DEF SaveRow
<1>10. CASE SaveFails
  <2>1. Withdrawn({Site})
    BY <1>10 DEF SaveFails
  <2>2. /\ zlive' = [j \in Keys |-> IF j \in {Site} THEN 0 ELSE zlive[j]]
        /\ zlive' \in [Keys -> Keys] /\ share' \in [Names -> Keys \cup {None}]
        /\ \A n \in Names : share'[n] \in {share[n], None}
        /\ \A n \in Names : share[n] \notin ({Site}) => share'[n] = share[n]
        /\ settled' = settled \ ({Site}) /\ settled' \subseteq Keys
    BY <2>1, WithdrawnEffect
  <2>. QED BY <1>10, <2>2 DEF SaveFails
<1>11. CASE SaveBuild
  BY <1>11 DEF SaveBuild
<1>12. CASE PruneDir
  <2>1. CASE \E v \in Prunable : BStep("prune", "retire") /\ dirs' = dirs \ {v} /\ victim' = v
    BY <1>12, <2>1 DEF PruneDir, Prunable
  <2>2. CASE BStep("prune", "idle") /\ UNCHANGED <<dirs, victim>>
    BY <1>12, <2>2 DEF PruneDir
  <2>. QED BY <1>12, <2>1, <2>2 DEF PruneDir
<1>13. CASE Retire
  <2>1. Withdrawn({victim})
    BY <1>13 DEF Retire
  <2>2. /\ zlive' = [j \in Keys |-> IF j \in {victim} THEN 0 ELSE zlive[j]]
        /\ zlive' \in [Keys -> Keys] /\ share' \in [Names -> Keys \cup {None}]
        /\ \A n \in Names : share'[n] \in {share[n], None}
        /\ \A n \in Names : share[n] \notin ({victim}) => share'[n] = share[n]
        /\ settled' = settled \ ({victim}) /\ settled' \subseteq Keys
    BY <2>1, WithdrawnEffect
  <2>. QED BY <1>13, <2>2 DEF Retire
<1>14. CASE ClearShare
  BY <1>14 DEF ClearShare
<1>15. CASE TearClose
  <2>1. \A k \in Keys : zlive'[k] = 0
    BY <1>15 DEF TearClose, Withdrawn
  <2>. QED BY <1>15, <2>1 DEF TearClose
<1>16. CASE TearDirs
  BY <1>16 DEF TearDirs
<1>17. CASE TearRow
  BY <1>17 DEF TearRow
<1>18. CASE SweepKeep
  BY <1>18 DEF SweepKeep
<1>19. CASE SweepList
  BY <1>19 DEF SweepList
<1>20. CASE SweepDelete
  BY <1>20 DEF SweepDelete
<1>21. CASE Crash
  BY <1>21 DEF Crash
<1>22. CASE Load
  BY <1>22 DEF Load
<1>23. CASE List
  BY <1>23 DEF List
<1>24. CASE Reap
  BY <1>24 DEF Reap
<1>25. CASE Unusable
  BY <1>25 DEF Unusable
<1>26. CASE Republished
  BY <1>26 DEF Republished
<1>27. CASE Recovered
  BY <1>27 DEF Recovered
<1>28. CASE UNCHANGED vars
  BY <1>28
<1>. QED BY <1>1, <1>2, <1>3, <1>4, <1>5, <1>6, <1>7, <1>8, <1>9, <1>10, <1>11,
            <1>12, <1>13, <1>14, <1>15, <1>16, <1>17, <1>18, <1>19, <1>20,
            <1>21, <1>22, <1>23, <1>24, <1>25, <1>26, <1>27, <1>28 DEF Next,
            PublishStep


\* Every step keeps what is served on disk.
LEMMA ServedStep == ASSUME RecoveryInv, [Next]_vars PROVE ServedHasArtifacts'
<1>. USE RecoveryAssumption DEF RecoveryInv, TypeOK, ServedHasArtifacts, Phases, Serving, Sources, Idle, Unlocked, Keys, Builds, Site, Content, Busy
<1>. USE DEF vars, disk, bVars, rVars, rStep, sVars, PStep, BStep, TStep, RStep, UStep
<1>1. ASSUME NEW k \in Keys, AdoptTake(k) PROVE ServedHasArtifacts'
  BY <1>1, WithdrawnEffect DEF AdoptTake
<1>2. ASSUME NEW k \in Keys, AdoptOpen(k) PROVE ServedHasArtifacts'
  BY <1>2 DEF AdoptOpen
<1>3. ASSUME NEW k \in Keys, PublishTake(k) PROVE ServedHasArtifacts'
  BY <1>3, WithdrawnEffect DEF PublishTake
<1>4. ASSUME NEW k \in Keys, PublishCreate(k) PROVE ServedHasArtifacts'
  BY <1>4 DEF PublishCreate
<1>5. ASSUME NEW k \in Keys, PublishListen(k) PROVE ServedHasArtifacts'
  BY <1>5 DEF PublishListen
<1>6. ASSUME NEW c \in Commits, Commit(c) PROVE ServedHasArtifacts'
  BY <1>6 DEF Commit
<1>7. CASE BuildFails
  BY <1>7 DEF BuildFails
<1>8. CASE Published
  BY <1>8 DEF Published
<1>9. CASE SaveRow
  BY <1>9 DEF SaveRow
<1>10. CASE SaveFails
  BY <1>10, WithdrawnEffect, SMTT(100) DEF SaveFails
<1>11. CASE SaveBuild
  BY <1>11 DEF SaveBuild
<1>12. CASE PruneDir
  BY <1>12 DEF PruneDir, Prunable
<1>13. CASE Retire
  BY <1>13, WithdrawnEffect DEF Retire
<1>14. CASE ClearShare
  BY <1>14 DEF ClearShare
<1>15. CASE TearClose
  BY <1>15, WithdrawnEffect DEF TearClose
<1>16. CASE TearDirs
  BY <1>16 DEF TearDirs
<1>17. CASE TearRow
  BY <1>17 DEF TearRow
<1>18. CASE SweepKeep
  BY <1>18 DEF SweepKeep
<1>19. CASE SweepList
  BY <1>19 DEF SweepList
<1>20. CASE SweepDelete
  BY <1>20 DEF SweepDelete
<1>21. CASE Crash
  BY <1>21 DEF Crash
<1>22. CASE Load
  BY <1>22 DEF Load
<1>23. CASE List
  BY <1>23 DEF List
<1>24. CASE Reap
  BY <1>24 DEF Reap
<1>25. CASE Unusable
  BY <1>25 DEF Unusable
<1>26. CASE Republished
  BY <1>26 DEF Republished
<1>27. CASE Recovered
  BY <1>27 DEF Recovered
<1>28. CASE UNCHANGED vars
  BY <1>28
<1>. QED BY <1>1, <1>2, <1>3, <1>4, <1>5, <1>6, <1>7, <1>8, <1>9, <1>10, <1>11,
            <1>12, <1>13, <1>14, <1>15, <1>16, <1>17, <1>18, <1>19, <1>20,
            <1>21, <1>22, <1>23, <1>24, <1>25, <1>26, <1>27, <1>28 DEF Next,
            PublishStep


\* A step spares what was live unless it stops serving it or dooms a share.
LEMMA SparingKept ==
  ASSUME TypeOK, Sparing, rpc' = rpc,
         \A k \in settled' : k \in settled /\ zlive'[k] # 0,
         \A n \in doomed' : n \in doomed /\ share'[n] \in {share[n], None}
  PROVE  Sparing'
<1>1. None \notin settled
  BY RecoveryAssumption DEF TypeOK
<1>. QED BY <1>1 DEF Sparing

\* Every step spares what was live when the sweep began.
LEMMA SparingStep == ASSUME RecoveryInv, [Next]_vars PROVE Sparing'
<1>. USE RecoveryAssumption DEF RecoveryInv, TypeOK, Sparing, Phases, Keys, Builds, Site, Names
<1>. USE DEF vars, disk, bVars, rVars, rStep, sVars, PStep, BStep, TStep, RStep, UStep
<1>1. ASSUME NEW k \in Keys, AdoptTake(k) PROVE Sparing'
  BY <1>1, WithdrawnEffect DEF AdoptTake
<1>2. ASSUME NEW k \in Keys, AdoptOpen(k) PROVE Sparing'
  <2>1. zlive' = zlive \/ (pub[k] = "open" /\ zlive' = [zlive EXCEPT ![k] = Content(k)])
    BY <1>2 DEF AdoptOpen
  <2>2. pub[k] = "open" => Content(k) # 0
    BY DEF Sources, Busy
  <2>3. \A j \in settled' : j \in settled /\ zlive'[j] # 0
    BY <1>2, <2>1, <2>2 DEF AdoptOpen
  <2>4. \A n \in doomed' : n \in doomed /\ share'[n] \in {share[n], None}
    BY <1>2 DEF AdoptOpen
  <2>5. rpc' = rpc
    BY <1>2 DEF AdoptOpen
  <2>. QED BY <2>3, <2>4, <2>5, SparingKept
<1>3. ASSUME NEW k \in Keys, PublishTake(k) PROVE Sparing'
  <2>1. Withdrawn(Superseded(k) \cup {k})
    BY <1>3 DEF PublishTake
  <2>2. /\ zlive' = [j \in Keys |-> IF j \in Superseded(k) \cup {k} THEN 0 ELSE zlive[j]]
        /\ zlive' \in [Keys -> Keys] /\ share' \in [Names -> Keys \cup {None}]
        /\ \A n \in Names : share'[n] \in {share[n], None}
        /\ \A n \in Names : share[n] \notin (Superseded(k) \cup {k}) => share'[n] = share[n]
        /\ settled' = settled \ (Superseded(k) \cup {k}) /\ settled' \subseteq Keys
    BY <2>1, WithdrawnEffect
  <2>. QED BY <1>3, <2>2 DEF PublishTake
<1>4. ASSUME NEW k \in Keys, PublishCreate(k) PROVE Sparing'
  <2>1. \A n \in doomed' : n \in doomed /\ share'[n] \in {share[n], None}
    BY <1>4 DEF PublishCreate
  <2>2. rpc' = rpc /\ \A j \in settled' : j \in settled /\ zlive'[j] # 0
    BY <1>4 DEF PublishCreate
  <2>. QED BY <2>1, <2>2, SparingKept
<1>5. ASSUME NEW k \in Keys, PublishListen(k) PROVE Sparing'
  <2>1. zlive' = zlive \/ (pub[k] = "listen" /\ zlive' = [zlive EXCEPT ![k] = Content(k)])
    BY <1>5 DEF PublishListen
  <2>2. pub[k] = "listen" => Content(k) # 0
    BY DEF Sources, Busy
  <2>3. \A j \in settled' : j \in settled /\ zlive'[j] # 0
    BY <1>5, <2>1, <2>2, SMTT(100) DEF PublishListen
  <2>4. \A n \in doomed' : n \in doomed /\ share'[n] \in {share[n], None}
    BY <1>5 DEF PublishListen
  <2>5. rpc' = rpc
    BY <1>5 DEF PublishListen
  <2>. QED BY <2>3, <2>4, <2>5, SparingKept
<1>6. ASSUME NEW c \in Commits, Commit(c) PROVE Sparing'
  <2>1. \A n \in doomed' : n \in doomed /\ share'[n] \in {share[n], None}
    BY <1>6 DEF Commit
  <2>3. begun + 1 # 0 /\ (zlive' = zlive \/ zlive' = [zlive EXCEPT ![Site] = begun + 1])
    BY <1>6 DEF Commit
  <2>4. rpc' = rpc /\ settled' = settled
    BY <1>6 DEF Commit
  <2>2. rpc' = rpc /\ \A j \in settled' : j \in settled /\ zlive'[j] # 0
    BY <2>3, <2>4
  <2>. QED BY <2>1, <2>2, SparingKept
<1>7. CASE BuildFails
  BY <1>7 DEF BuildFails
<1>8. CASE Published
  BY <1>8 DEF Published
<1>9. CASE SaveRow
  BY <1>9 DEF SaveRow
<1>10. CASE SaveFails
  BY <1>10, WithdrawnEffect DEF SaveFails
<1>11. CASE SaveBuild
  BY <1>11 DEF SaveBuild
<1>12. CASE PruneDir
  BY <1>12 DEF PruneDir
<1>13. CASE Retire
  BY <1>13, WithdrawnEffect, SMTT(100) DEF Retire
<1>14. CASE ClearShare
  BY <1>14 DEF ClearShare
<1>15. CASE TearClose
  BY <1>15, WithdrawnEffect DEF TearClose
<1>16. CASE TearDirs
  BY <1>16 DEF TearDirs
<1>17. CASE TearRow
  BY <1>17 DEF TearRow
<1>18. CASE SweepKeep
  BY <1>18 DEF SweepKeep
<1>19. CASE SweepList
  BY <1>19 DEF SweepList
<1>20. CASE SweepDelete
  <2>1. \A n \in doomed' : n \in doomed /\ share'[n] \in {share[n], None}
    BY <1>20, SMTT(100) DEF SweepDelete
  <2>2. \A j \in settled' : j \in settled /\ zlive'[j] # 0
    BY <1>20 DEF SweepDelete
  <2>3. (rpc' = rpc) \/ (doomed' = {} /\ settled' = {})
    BY <1>20 DEF SweepDelete
  <2>4. CASE rpc' = rpc
    BY <2>1, <2>2, <2>4, SparingKept
  <2>5. CASE doomed' = {} /\ settled' = {}
    BY <2>5 DEF Sparing
  <2>. QED BY <2>3, <2>4, <2>5
<1>21. CASE Crash
  BY <1>21 DEF Crash
<1>22. CASE Load
  BY <1>22 DEF Load
<1>23. CASE List
  BY <1>23 DEF List
<1>24. CASE Reap
  <2>1. \A n \in doomed' : n \in doomed /\ share'[n] \in {share[n], None}
    BY <1>24 DEF Reap
  <2>2. rpc' = rpc /\ \A j \in settled' : j \in settled /\ zlive'[j] # 0
    BY <1>24 DEF Reap
  <2>. QED BY <2>1, <2>2, SparingKept
<1>25. CASE Unusable
  BY <1>25 DEF Unusable
<1>26. CASE Republished
  BY <1>26 DEF Republished
<1>27. CASE Recovered
  BY <1>27 DEF Recovered
<1>28. CASE UNCHANGED vars
  BY <1>28
<1>. QED BY <1>1, <1>2, <1>3, <1>4, <1>5, <1>6, <1>7, <1>8, <1>9, <1>10, <1>11,
            <1>12, <1>13, <1>14, <1>15, <1>16, <1>17, <1>18, <1>19, <1>20,
            <1>21, <1>22, <1>23, <1>24, <1>25, <1>26, <1>27, <1>28 DEF Next,
            PublishStep


\* Every step keeps what recover has restored.
LEMMA RestoringStep == ASSUME RecoveryInv, [Next]_vars PROVE Restoring'
<1>. USE RecoveryAssumption DEF RecoveryInv, TypeOK, Restoring, Phases, Sources, Keys, Builds, Site, Names, Idle, NoRow, Busy
<1>. USE DEF vars, disk, bVars, rVars, rStep, sVars, PStep, BStep, TStep, RStep, UStep
<1>1. ASSUME NEW k \in Keys, AdoptTake(k) PROVE Restoring'
  BY <1>1, WithdrawnEffect, NameType DEF AdoptTake, Superseded, Name
<1>2. ASSUME NEW k \in Keys, AdoptOpen(k) PROVE Restoring'
  BY <1>2, NameType DEF AdoptOpen, Bound, Name, Content
<1>3. ASSUME NEW k \in Keys, PublishTake(k) PROVE Restoring'
  BY <1>3, WithdrawnEffect, NameType, SMTT(100) DEF PublishTake, Superseded, Name
<1>4. ASSUME NEW k \in Keys, PublishCreate(k) PROVE Restoring'
  BY <1>4, NameType DEF PublishCreate, Name
<1>5. ASSUME NEW k \in Keys, PublishListen(k) PROVE Restoring'
  BY <1>5, NameType DEF PublishListen, Bound, Name, Content
<1>6. ASSUME NEW c \in Commits, Commit(c) PROVE Restoring'
  BY <1>6 DEF Commit
<1>7. CASE BuildFails
  BY <1>7 DEF BuildFails
<1>8. CASE Published
  BY <1>8 DEF Published
<1>9. CASE SaveRow
  BY <1>9 DEF SaveRow
<1>10. CASE SaveFails
  BY <1>10, WithdrawnEffect DEF SaveFails
<1>11. CASE SaveBuild
  BY <1>11 DEF SaveBuild
<1>12. CASE PruneDir
  BY <1>12 DEF PruneDir
<1>13. CASE Retire
  BY <1>13, WithdrawnEffect DEF Retire
<1>14. CASE ClearShare
  BY <1>14 DEF ClearShare
<1>15. CASE TearClose
  BY <1>15, WithdrawnEffect DEF TearClose
<1>16. CASE TearDirs
  BY <1>16 DEF TearDirs
<1>17. CASE TearRow
  BY <1>17 DEF TearRow
<1>18. CASE SweepKeep
  BY <1>18 DEF SweepKeep
<1>19. CASE SweepList
  BY <1>19 DEF SweepList
<1>20. CASE SweepDelete
  BY <1>20 DEF SweepDelete
<1>21. CASE Crash
  BY <1>21 DEF Crash
<1>22. CASE Load
  BY <1>22 DEF Load, Eligible
<1>23. CASE List
  BY <1>23 DEF List
<1>24. CASE Reap
  BY <1>24 DEF Reap, Eligible, AdoptOrPublish
<1>25. CASE Unusable
  BY <1>25 DEF Unusable
<1>26. CASE Republished
  BY <1>26 DEF Republished, AdoptOrPublish
<1>27. CASE Recovered
  BY <1>27 DEF Recovered
<1>28. CASE UNCHANGED vars
  BY <1>28
<1>. QED BY <1>1, <1>2, <1>3, <1>4, <1>5, <1>6, <1>7, <1>8, <1>9, <1>10, <1>11,
            <1>12, <1>13, <1>14, <1>15, <1>16, <1>17, <1>18, <1>19, <1>20,
            <1>21, <1>22, <1>23, <1>24, <1>25, <1>26, <1>27, <1>28 DEF Next,
            PublishStep


-----------------------------------------------------------------------------
(* The theorems. *)

LEMMA InitIInv == Init => RecoveryInv
BY RecoveryAssumption DEF Init, RecoveryInv, TypeOK, ServedHasArtifacts, Phases, Sources, Serving,
   Restoring, Sparing, Keys, Builds, Site, NoRow, Busy

\* The inductive invariant: the rest of the module is its parts.
LEMMA Inductive == Spec => []RecoveryInv
<1>1. RecoveryInv /\ [Next]_vars => RecoveryInv'
  <2>. SUFFICES ASSUME RecoveryInv, [Next]_vars PROVE RecoveryInv'
    OBVIOUS
  <2>1. TypeOK'
    BY TypeStep DEF RecoveryInv
  <2>2. Phases' /\ Sources' /\ Serving'
    BY PhasesStep, SourcesStep, ServingStep
  <2>3. ServedHasArtifacts' /\ Restoring' /\ Sparing'
    BY ServedStep, RestoringStep, SparingStep
  <2>. QED BY <2>1, <2>2, <2>3 DEF RecoveryInv
<1>. QED BY InitIInv, <1>1, PTL DEF Spec

\* Every variable keeps its type.
THEOREM TypeCorrect == Spec => []TypeOK
<1>1. RecoveryInv => TypeOK
  BY DEF RecoveryInv
<1>. QED BY Inductive, <1>1, PTL

\* Whatever crashes, prunes and teardowns there were, a listener serves artifacts that
\* are on disk, except while the build it serves is being pruned.
THEOREM ServedOnDisk == Spec => []ServedHasArtifacts
<1>1. RecoveryInv => ServedHasArtifacts
  BY DEF RecoveryInv
<1>. QED BY Inductive, <1>1, PTL

\* After any number of crashes at any step, a row that recover leaves ready is served
\* from the artifacts it names, however its builds' shares are restored beside it.
THEOREM RestoredServes == Spec => []RestoredIsServed
<1>1. RecoveryInv => RestoredIsServed
  <2>1. Bound(Site) <=> share[Branch] = Site
    BY DEF Bound, Name, Names, Site
  <2>. QED BY <2>1 DEF RecoveryInv, Restoring, RestoredIsServed
<1>. QED BY Inductive, <1>1, PTL

\* However builds and teardowns move beside it, a sweep deletes no share that was live
\* when it began and still is.
THEOREM SweepSpares == Spec => SweepSparesSettled
<1>1. RecoveryInv => \A n \in Names : n \in doomed => share[n] \notin settled
  BY DEF RecoveryInv, Sparing
<1>2. RecoveryInv /\ [Next]_vars =>
        [\A n \in Names : rpc = "delete" /\ n \in doomed /\ n \notin doomed'
           => share[n] \notin settled]_vars
  BY <1>1
<1>. QED BY Inductive, <1>2, PTL DEF Spec, SweepSparesSettled
-------------------------------------------------------------------------------
(* Restores that run side by side. *)

\* A share is bound to its own name.
OwnNames == \A n \in Names : share[n] # None => share[n] \in Keys /\ Name(share[n]) = n

\* A commit whose share answers: its name is held by a build of it, and that build listens.
Answers(c) == share[c] # None /\ zlive[share[c]] = share[c]

\* Some restore of a build of the commit is under way, or has failed.
Unsettled(c) == \E k \in Keys : Name(k) = c /\ pub[k] \notin {"idle", "done"}

\* As long as every restore of the commit's builds that is over succeeded, the last of
\* them left its share answering.
Restored ==
  up = "builds" /\ row.st = "ready"
    => urls \subseteq dirs /\ \A b \in urls : Unsettled(commit[b]) \/ Answers(commit[b])

RestoresInv == OwnNames /\ Restored

\* A step that only gives names up, or leaves them alone.
LEMMA NamesOnlyLost ==
  ASSUME OwnNames, UNCHANGED commit, \A n \in Names : share'[n] \in {share[n], None}
  PROVE  OwnNames'
BY DEF OwnNames, Name

\* Every share that is made is made under its own name, and a build's name stays.
LEMMA OwnNamesStep ==
  ASSUME RecoveryInv, OwnNames, [Next]_vars
  PROVE  OwnNames'
<1>. USE RecoveryAssumption DEF RecoveryInv, TypeOK
<1>. USE DEF vars, disk, bVars, rVars, rStep, sVars, PStep, BStep, TStep, RStep, UStep
<1>1. ASSUME NEW k \in Keys, AdoptTake(k) \/ PublishTake(k) PROVE OwnNames'
  <2>1. \A n \in Names : share'[n] \in {share[n], None}
    BY <1>1, WithdrawnEffect DEF AdoptTake, PublishTake
  <2>2. UNCHANGED commit
    BY <1>1 DEF AdoptTake, PublishTake
  <2>. QED BY <2>1, <2>2, NamesOnlyLost
<1>2. ASSUME NEW k \in Keys, AdoptOpen(k) \/ PublishListen(k) PROVE OwnNames'
  <2>1. \A n \in Names : share'[n] \in {share[n], None}
    BY <1>2 DEF AdoptOpen, PublishListen
  <2>2. UNCHANGED commit
    BY <1>2 DEF AdoptOpen, PublishListen
  <2>. QED BY <2>1, <2>2, NamesOnlyLost
<1>3. ASSUME NEW k \in Keys, PublishCreate(k) PROVE OwnNames'
  <2>1. UNCHANGED commit
    BY <1>3 DEF PublishCreate
  <2>2. \A n \in Names : share'[n] \in {share[n], None} \/ (n = Name(k) /\ share'[n] = k)
    BY <1>3 DEF PublishCreate
  <2>3. \A j : Name(j)' = Name(j)
    BY <2>1 DEF Name
  <2>. QED BY <2>2, <2>3 DEF OwnNames
<1>4. ASSUME NEW c \in Commits, Commit(c) PROVE OwnNames'
  <2>1. share' = share /\ commit' = [commit EXCEPT ![begun + 1] = c] /\ begun < MaxBuilds
    BY <1>4 DEF Commit
  <2>2. commit[begun + 1] = None
    BY <2>1 DEF Builds
  <2>3. SUFFICES ASSUME NEW n \in Names, share[n] # None
                 PROVE  share[n] \in Keys /\ Name(share[n])' = n
    BY <2>1 DEF OwnNames
  <2>4. share[n] \in Keys /\ Name(share[n]) = n
    BY <2>3 DEF OwnNames
  <2>5. share[n] # begun + 1
    BY <2>2, <2>4 DEF Name, Names, Site
  <2>6. share[n] # Site => share[n] \in Builds
    BY <2>4 DEF Keys
  <2>7. Name(share[n])' = Name(share[n])
    BY <2>1, <2>5, <2>6 DEF Name
  <2>. QED BY <2>4, <2>7
<1>5. CASE SaveFails \/ Retire \/ TearClose
  <2>1. \A n \in Names : share'[n] \in {share[n], None}
    BY <1>5, WithdrawnEffect DEF SaveFails, Retire, TearClose
  <2>2. UNCHANGED commit
    BY <1>5 DEF SaveFails, Retire, TearClose
  <2>. QED BY <2>1, <2>2, NamesOnlyLost
<1>6. CASE SweepDelete \/ Reap
  <2>1. \A n \in Names : share'[n] \in {share[n], None}
    BY <1>6 DEF SweepDelete, Reap
  <2>2. UNCHANGED commit
    BY <1>6 DEF SweepDelete, Reap
  <2>. QED BY <2>1, <2>2, NamesOnlyLost
<1>7. ASSUME share' = share, commit' = commit PROVE OwnNames'
  BY <1>7, NamesOnlyLost
<1>8. CASE BuildFails \/ Published \/ SaveRow \/ SaveBuild \/ PruneDir \/ ClearShare
  BY <1>7, <1>8 DEF BuildFails, Published, SaveRow, SaveBuild, PruneDir, ClearShare
<1>9. CASE TearDirs \/ TearRow \/ SweepKeep \/ SweepList
  BY <1>7, <1>9 DEF TearDirs, TearRow, SweepKeep, SweepList
<1>10. CASE Crash \/ Load \/ List \/ Unusable \/ Republished \/ Recovered
  BY <1>7, <1>10 DEF Crash, Load, List, Unusable, Republished, Recovered
<1>11. CASE UNCHANGED vars
  BY <1>7, <1>11
<1>. QED BY <1>1, <1>2, <1>3, <1>4, <1>5, <1>6, <1>8, <1>9, <1>10, <1>11 DEF Next, PublishStep

\* A publication leaves the other names, and who answers for them.
LEMMA OtherNames ==
  ASSUME RecoveryInv, OwnNames, NEW k \in Keys, PublishStep(k), NEW n \in Names, n # Name(k), share[n] # None
  PROVE  share'[n] = share[n] /\ zlive'[share[n]] = zlive[share[n]]
<1>. USE DEF RecoveryInv, TypeOK, PStep
<1>1. share[n] \in Keys /\ Name(share[n]) = n /\ share[n] # k
  BY DEF OwnNames
<1>2. CASE AdoptTake(k) \/ PublishTake(k)
  <2>1. PICK ks \in SUBSET Keys : Withdrawn(ks) /\ \A j \in ks : Name(j) = Name(k)
    BY <1>2 DEF AdoptTake, PublishTake, Superseded
  <2>2. share[n] \notin ks
    BY <1>1, <2>1
  <2>. QED BY <1>1, <2>1, <2>2, WithdrawnEffect
<1>3. CASE AdoptOpen(k) \/ PublishListen(k)
  BY <1>1, <1>3 DEF AdoptOpen, PublishListen
<1>4. CASE PublishCreate(k)
  BY <1>1, <1>4 DEF PublishCreate
<1>. QED BY <1>2, <1>3, <1>4 DEF PublishStep

\* When a publication of a build succeeds, its name answers.
LEMMA DoneAnswers ==
  ASSUME RecoveryInv, NEW k \in Keys \ {Site}, PublishStep(k), pub'[k] = "done"
  PROVE  Answers(Name(k))'
<1>. USE RecoveryAssumption DEF RecoveryInv, TypeOK, PStep
<1>1. Bound(k) /\ share' = share /\ zlive' = [zlive EXCEPT ![k] = k]
  BY DEF PublishStep, AdoptTake, AdoptOpen, PublishTake, PublishCreate, PublishListen, Content
<1>2. share[Name(k)] = k /\ k # None /\ commit' = commit
  BY <1>1 DEF Bound, PublishStep, AdoptTake, AdoptOpen, PublishTake, PublishCreate, PublishListen, bVars
<1>. QED BY <1>1, <1>2 DEF Answers, Name

\* A restore of a build moves: its commit is unsettled until it succeeds and answers.
LEMMA RestoreStep ==
  ASSUME RecoveryInv, OwnNames, Restored, NEW k \in Keys, PublishStep(k)
  PROVE  Restored'
<1>. USE RecoveryAssumption DEF RecoveryInv, TypeOK
<1>1. UNCHANGED <<up, row, urls, dirs, commit, begun>> /\ pub[k] \in Busy
  BY DEF PublishStep, AdoptTake, AdoptOpen, PublishTake, PublishCreate, PublishListen, Busy,
         disk, bVars, sVars, PStep
<1>2. /\ pub' = [pub EXCEPT ![k] = pub'[k]] /\ pub'[k] # "idle"
  BY DEF PublishStep, AdoptTake, AdoptOpen, PublishTake, PublishCreate, PublishListen, PStep
<1>3. SUFFICES ASSUME up = "builds", row.st = "ready", NEW b \in urls
               PROVE  Unsettled(commit[b])' \/ Answers(commit[b])'
  BY <1>1 DEF Restored
<1>4. k # Site /\ commit[b] \in Names
  <2>1. k # Site
    BY <1>1, <1>3 DEF Phases, Busy
  <2>2. b \in dirs
    BY <1>3 DEF Restored
  <2>3. b \in 1 .. begun /\ b \in Builds
    BY <2>2 DEF Sources, Builds
  <2>. QED BY <2>1, <2>3 DEF Names
<1>5. Unsettled(commit[b]) \/ Answers(commit[b])
  BY <1>3 DEF Restored
<1>6. \A j \in Keys : Name(j)' = Name(j)
  BY <1>1 DEF Name
<1>7. CASE Name(k) = commit[b] /\ pub'[k] = "done"
  <2>1. Answers(Name(k))'
    BY <1>4, <1>7, DoneAnswers
  <2>. QED BY <1>1, <1>6, <1>7, <2>1 DEF Answers
<1>8. CASE Name(k) = commit[b] /\ pub'[k] # "done"
  BY <1>1, <1>2, <1>6, <1>8 DEF Unsettled
<1>9. CASE Name(k) # commit[b]
  <2>1. CASE Unsettled(commit[b])
    <3>1. PICK j \in Keys : Name(j) = commit[b] /\ pub[j] \notin {"idle", "done"}
      BY <2>1 DEF Unsettled
    <3>2. pub'[j] = pub[j]
      BY <1>2, <1>9, <3>1
    <3>. QED BY <1>1, <1>6, <3>1, <3>2 DEF Unsettled
  <2>2. CASE Answers(commit[b])
    <3>1. share'[commit[b]] = share[commit[b]] /\ zlive'[share[commit[b]]] = zlive[share[commit[b]]]
      BY <1>4, <1>9, <2>2, OtherNames DEF Answers
    <3>. QED BY <1>1, <2>2, <3>1 DEF Answers
  <2>. QED BY <1>5, <2>1, <2>2
<1>. QED BY <1>7, <1>8, <1>9

\* Nothing but restores moves before the process is up; they begin when the preview is back.
LEMMA RestoredStep ==
  ASSUME RecoveryInv, OwnNames, Restored, [Next]_vars
  PROVE  Restored'
<1>. USE RecoveryAssumption DEF RecoveryInv, TypeOK
<1>1. ASSUME NEW k \in Keys, PublishStep(k) PROVE Restored'
  BY <1>1, RestoreStep
<1>2. CASE Republished
  <2>1. SUFFICES ASSUME row'.st = "ready"
                 PROVE  urls' \subseteq dirs' /\ \A b \in urls' : Unsettled(commit[b])'
    BY DEF Restored
  <2>2. pub[Site] = "done"
    BY <1>2, <2>1 DEF Republished, Restoring, Idle, UStep
  <2>3. /\ urls' = urls \cap dirs /\ UNCHANGED <<dirs, commit>>
        /\ pub' = [k \in Keys |-> IF k \in urls \cap dirs THEN AdoptOrPublish(k) ELSE "idle"]
    BY <1>2, <2>2 DEF Republished, bVars
  <2>4. ASSUME NEW b \in urls' PROVE Unsettled(commit[b])'
    <3>1. b \in Keys /\ b # Site /\ pub'[b] \in {"adopt", "take"}
      BY <2>3 DEF AdoptOrPublish, Keys, Builds, Site
    <3>. QED BY <2>3, <3>1 DEF Unsettled, Name
  <2>. QED BY <2>3, <2>4
<1>3. ASSUME up' # "builds" \/ row'.st # "ready" PROVE Restored'
  BY <1>3 DEF Restored
<1>4. CASE Unusable
  BY <1>3, <1>4 DEF Unusable, NoRow
<1>5. CASE Crash \/ Load \/ List \/ Reap \/ Recovered
  BY <1>3, <1>5 DEF Crash, Load, List, Reap, Recovered, UStep
<1>6. ASSUME up = "running", up' = up PROVE Restored'
  BY <1>3, <1>6
<1>7. ASSUME NEW c \in Commits, Commit(c) PROVE Restored'
  BY <1>6, <1>7 DEF Commit, BStep, sVars
<1>8. CASE BuildFails \/ Published \/ SaveRow \/ SaveFails \/ SaveBuild \/ PruneDir \/ Retire \/ ClearShare
  BY <1>6, <1>8 DEF BuildFails, Published, SaveRow, SaveFails, SaveBuild, PruneDir, Retire, ClearShare, BStep, sVars
<1>9. CASE TearClose \/ TearDirs \/ TearRow \/ SweepKeep \/ SweepList \/ SweepDelete
  BY <1>6, <1>9 DEF TearClose, TearDirs, TearRow, SweepKeep, SweepList, SweepDelete, TStep, RStep, sVars
<1>10. CASE UNCHANGED vars
  <2>1. UNCHANGED <<up, row, urls, dirs, commit, pub, share, zlive>>
    BY <1>10 DEF vars, disk, bVars, sVars
  <2>. QED BY <2>1 DEF Restored, Unsettled, Answers, Name
<1>. QED BY <1>1, <1>2, <1>4, <1>5, <1>7, <1>8, <1>9, <1>10 DEF Next

\* Also when several builds of one commit were restored side by side, each withdrawing
\* whoever listens under its name, a recorded URL is answered once they all succeeded.
THEOREM UrlsAnswer == Spec => []RestoredUrlsAnswer
<1>1. Init => RestoresInv
  BY DEF Init, RestoresInv, OwnNames, Restored
<1>2. RecoveryInv /\ RestoresInv /\ [Next]_vars => RestoresInv'
  BY OwnNamesStep, RestoredStep DEF RestoresInv
<1>3. RestoresInv => RestoredUrlsAnswer
  BY DEF RestoresInv, Restored, RestoredUrlsAnswer, Unsettled, Answers
<1>. QED BY Inductive, <1>1, <1>2, <1>3, PTL DEF Spec

-------------------------------------------------------------------------------
(* Reports: the newest report is never dropped, and a Close that has returned  *)
(* left no write of an older report under way.                                 *)

\* Once Close has begun nothing waits any more: what comes late is written at once.
NothingHeld == closer # "open" => ~Waiting

\* Whoever has been writing since before Close is still writing.
OldWrite == \A f \in old : ~NotWriting(f)

\* The inductive invariant.
ReportsInv == ReportsTypeOK /\ NewestKept /\ NothingHeld /\ OldWrite /\ ClosedIsDrained

-----------------------------------------------------------------------------
(* The two reports that every step is made of. *)

\* No report is a report, and every state a report can have ranks between 1 and 3.
LEMMA Reporting ==
  /\ NoReport \in Report
  /\ \A c \in HeadCommits, st \in {"queued", "building", "ended"} :
       [commit |-> c, st |-> st] \in Report
  /\ \A st \in {"queued", "building", "ended"} : Rank(st) \in 0..3
  BY DEF NoReport, Report, States, Rank

\* The guard of report keeps the type of the mark and of the reports in hand.
LEMMA MarkTyped ==
  ASSUME mark \in [commit : HeadCommits \cup {Nobody}, rank : 0..3], out \in [Callers -> Report],
         NEW g \in Callers, NEW c \in HeadCommits, NEW st \in {"queued", "building", "ended"},
         Mark(g, c, st)
  PROVE  mark' \in [commit : HeadCommits \cup {Nobody}, rank : 0..3] /\ out' \in [Callers -> Report]
  <1>1. CASE Stale(c, st)
    BY <1>1 DEF Mark
  <1>2. CASE ~Stale(c, st)
    <2>1. mark' = [commit |-> c, rank |-> Rank(st)]
      BY <1>2 DEF Mark
    <2>2. out' = [out EXCEPT ![g] = [commit |-> c, st |-> st]]
      BY <1>2 DEF Mark
    <2> QED BY <2>1, <2>2, Reporting
  <1> QED BY <1>1, <1>2

-----------------------------------------------------------------------------
(* The daemon's steps: they leave the publisher alone. *)

\* A step that leaves the publisher and its writers alone leaves alone what is said of them.
LEMMA PublisherAlone ==
  ASSUME NewestKept, NothingHeld, OldWrite, ClosedIsDrained, UNCHANGED <<pVars, writeVars>>
  PROVE  NewestKept' /\ NothingHeld' /\ OldWrite' /\ ClosedIsDrained'
  BY DEF NewestKept, NothingHeld, OldWrite, ClosedIsDrained, Waiting, NotWriting, pVars, writeVars

\* A request's own steps keep the types.
LEMMA RequestTyped ==
  ASSUME ReportsAssumption, ReportsTypeOK, NEW r \in Requests,
         Ask(r) \/ Build(r) \/ CancelBuild(r) \/ (\E q \in Requests : Supersede(q, r))
  PROVE  ReportsTypeOK'
  <1> r \in Callers
    BY DEF Callers
  <1>1. CASE Ask(r)
    <2>1. mark' \in [commit : HeadCommits \cup {Nobody}, rank : 0..3] /\ out' \in [Callers -> Report]
      BY <1>1, MarkTyped DEF Ask, ReportsTypeOK
    <2> QED BY <1>1, <2>1 DEF Ask, Advance, ReportsTypeOK, pVars, writeVars, tVars, Waiting
  <1>2. CASE Start(r) \/ Conclude(r)
    BY <1>2 DEF Start, Conclude, Advance, ReportsTypeOK, pVars, writeVars, tVars, Waiting
  <1>3. CASE ReportBuilding(r)
    <2>1. mark' \in [commit : HeadCommits \cup {Nobody}, rank : 0..3] /\ out' \in [Callers -> Report]
      BY <1>3, MarkTyped DEF ReportBuilding, ReportsTypeOK
    <2> QED BY <1>3, <2>1 DEF ReportBuilding, Advance, ReportsTypeOK, pVars, writeVars, tVars, Waiting
  <1>4. CASE ReportEnd(r)
    <2>1. mark' \in [commit : HeadCommits \cup {Nobody}, rank : 0..3] /\ out' \in [Callers -> Report]
      BY <1>4, MarkTyped DEF ReportEnd, ReportsTypeOK
    <2> QED BY <1>4, <2>1 DEF ReportEnd, Advance, ReportsTypeOK, pVars, writeVars, tVars, Waiting
  <1>5. CASE CancelBuild(r)
    BY <1>5 DEF CancelBuild, Advance, ReportsTypeOK, pVars, writeVars, tVars, Waiting
  <1>6. CASE \E q \in Requests : Supersede(q, r)
    BY <1>6 DEF Supersede, ReportsTypeOK, pVars, writeVars, tVars, Waiting
  <1> QED BY <1>1, <1>2, <1>3, <1>4, <1>5, <1>6 DEF Build

\* So do the report of a cancellation and a teardown.
LEMMA OthersTyped ==
  ASSUME ReportsAssumption, ReportsTypeOK, ReportCancelled \/ TakeDown \/ Retract
  PROVE  ReportsTypeOK'
  <1>1. CASE ReportCancelled
    <2>1. cancelled \in Requests /\ headOf[cancelled] \in HeadCommits
      BY <1>1 DEF ReportCancelled, ReportsTypeOK
    <2>2. mark' \in [commit : HeadCommits \cup {Nobody}, rank : 0..3] /\ out' \in [Callers -> Report]
      BY <1>1, <2>1, MarkTyped DEF ReportCancelled, ReportsTypeOK, Callers
    <2> QED BY <1>1, <2>2 DEF ReportCancelled, ReportsTypeOK, pVars, writeVars, tVars, Waiting
  <1>2. CASE TakeDown
    <2>1. step' \in [Requests -> {"new", "queued", "registered", "running", "concluding", "done"}]
      BY <1>2 DEF TakeDown, ReportsTypeOK
    <2>2. cut' \in [Requests -> BOOLEAN]
      BY <1>2, Zenon DEF TakeDown, ReportsTypeOK
    <2>3. mark' \in [commit : HeadCommits \cup {Nobody}, rank : 0..3]
      BY <1>2 DEF TakeDown, NoMark
    <2>4. teardowns' \in 0..MaxTeardowns /\ closing' = "taken"
      BY <1>2 DEF TakeDown, ReportsTypeOK, ReportsAssumption
    <2> QED BY <1>2, <2>1, <2>2, <2>3, <2>4 DEF TakeDown, ReportsTypeOK, pVars, writeVars, Waiting
  <1>3. CASE Retract
    BY <1>3 DEF Retract, ReportsTypeOK, dVars, pVars, writeVars, Waiting
  <1> QED BY <1>1, <1>2, <1>3

-----------------------------------------------------------------------------
(* The publisher's steps. *)

\* A hand-over makes the report the newest: it waits with a timer, or is being written.
LEMMA SendKeeps ==
  ASSUME ReportsInv, NEW g \in Callers, Send(g)
  PROVE  ReportsInv'
  <1> DEFINE rep == out[g]
  <1>1. rep \in Report /\ rep # NoReport /\ sent' = rep /\ out' = [out EXCEPT ![g] = NoReport]
    BY DEF Send, Free, ReportsInv, ReportsTypeOK
  <1>2. UNCHANGED <<headOf, step, cut, cancelled, mark, closer, old, tVars>>
    BY DEF Send
  <1>3. CASE closer = "open" /\ Hold(rep) /\ UNCHANGED <<taken, fl>>
    <2>1. pending' = [rep |-> rep, armed |-> TRUE]
      BY <1>3 DEF Hold, ReportsInv, NewestKept
    <2>2. ReportsTypeOK'
      BY <1>1, <1>2, <1>3, <2>1, Reporting DEF ReportsInv, ReportsTypeOK, Waiting, tVars
    <2>3. NewestKept' /\ NothingHeld'
      BY <1>1, <1>2, <1>3, <2>1 DEF NewestKept, NothingHeld, Waiting
    <2>4. OldWrite' /\ ClosedIsDrained'
      BY <1>2, <1>3 DEF ReportsInv, OldWrite, ClosedIsDrained, NotWriting
    <2> QED BY <2>2, <2>3, <2>4 DEF ReportsInv
  <1>4. CASE /\ closer # "open" /\ taken' = rep /\ UNCHANGED pending
             /\ \E f \in Flushers : NotWriting(f) /\ fl' = [fl EXCEPT ![f] = rep]
    <2>1. PICK f \in Flushers : NotWriting(f) /\ fl' = [fl EXCEPT ![f] = rep]
      BY <1>4
    <2>2. ReportsTypeOK'
      BY <1>1, <1>2, <1>4, <2>1, Reporting DEF ReportsInv, ReportsTypeOK, Waiting, tVars, Writers
    <2>3. NewestKept' /\ NothingHeld'
      BY <1>1, <1>2, <1>4 DEF ReportsInv, NewestKept, NothingHeld, Waiting
    <2>4. OldWrite' /\ ClosedIsDrained'
      BY <1>1, <1>2, <2>1 DEF ReportsInv, OldWrite, ClosedIsDrained, NotWriting, ReportsTypeOK, Writers
    <2> QED BY <2>2, <2>3, <2>4 DEF ReportsInv
  <1> QED BY <1>3, <1>4 DEF Send

\* A timer takes what waits now, and that is the newest.
LEMMA FlushKeeps ==
  ASSUME ReportsInv, NEW f \in Flushers, Flush(f)
  PROVE  ReportsInv'
  <1>1. Waiting /\ sent = pending.rep
    BY DEF Flush, ReportsInv, ReportsTypeOK, NewestKept
  <1>2. ReportsTypeOK'
    BY Reporting DEF Flush, ReportsInv, ReportsTypeOK, Waiting, NoPending, Writers, dVars, tVars
  <1>3. NewestKept' /\ NothingHeld'
    BY <1>1 DEF Flush, NewestKept, NothingHeld, Waiting, NoPending
  <1>4. OldWrite' /\ ClosedIsDrained'
    BY <1>1 DEF Flush, ReportsInv, OldWrite, ClosedIsDrained, NotWriting, Waiting, ReportsTypeOK, Writers
  <1> QED BY <1>2, <1>3, <1>4 DEF ReportsInv

\* Close takes what waits, and counts as old exactly who is writing then.
LEMMA CloseKeeps ==
  ASSUME ReportsInv, Close
  PROVE  ReportsInv'
  <1>1. pending' = NoPending /\ closer' = "draining" /\ old' = {f \in Writers : fl'[f] # NoReport}
    BY DEF Close
  <1>2. fl' \in [Writers -> Report] /\ taken' \in Report
    BY DEF Close, ReportsInv, ReportsTypeOK, Writers
  <1>3. ReportsTypeOK'
    BY <1>1, <1>2, Reporting DEF Close, ReportsInv, ReportsTypeOK, Waiting, NoPending, dVars, tVars
  <1>4. NewestKept' /\ NothingHeld'
    BY <1>1 DEF Close, ReportsInv, NewestKept, NothingHeld, Waiting, NoPending
  <1>5. OldWrite' /\ ClosedIsDrained'
    BY <1>1 DEF OldWrite, ClosedIsDrained, NotWriting
  <1> QED BY <1>3, <1>4, <1>5 DEF ReportsInv

\* Close returns when nobody writes, so nobody old is left.
LEMMA ReturnKeeps ==
  ASSUME ReportsInv, CloseReturns
  PROVE  ReportsInv'
  <1>1. old = {}
    BY DEF CloseReturns, ReportsInv, OldWrite, ReportsTypeOK
  <1>2. ReportsTypeOK'
    BY DEF CloseReturns, ReportsInv, ReportsTypeOK, Waiting, dVars, tVars, writeVars
  <1>3. NewestKept' /\ NothingHeld'
    BY DEF CloseReturns, ReportsInv, NewestKept, NothingHeld, Waiting
  <1>4. OldWrite' /\ ClosedIsDrained'
    BY <1>1 DEF CloseReturns, OldWrite, ClosedIsDrained, writeVars
  <1> QED BY <1>2, <1>3, <1>4 DEF ReportsInv

\* A write that ends takes its writer off the old ones.
LEMMA WrittenKeeps ==
  ASSUME ReportsInv, NEW f \in Writers, Written(f)
  PROVE  ReportsInv'
  <1>1. ReportsTypeOK'
    BY Reporting DEF Written, ReportsInv, ReportsTypeOK, Waiting, dVars, pVars, tVars
  <1>2. NewestKept' /\ NothingHeld'
    BY DEF Written, ReportsInv, NewestKept, NothingHeld, Waiting, pVars
  <1>3. OldWrite' /\ ClosedIsDrained'
    BY DEF Written, ReportsInv, OldWrite, ClosedIsDrained, NotWriting, ReportsTypeOK, pVars
  <1> QED BY <1>1, <1>2, <1>3 DEF ReportsInv

-----------------------------------------------------------------------------
(* The invariant. *)

\* Nothing has been reported at the start.
LEMMA Starts == ReportsAssumption /\ ReportsInit => ReportsInv
  <1> SUFFICES ASSUME ReportsAssumption, ReportsInit PROVE ReportsInv
    OBVIOUS
  <1>1. ReportsTypeOK
    BY Reporting DEF ReportsInit, ReportsTypeOK, ReportsAssumption, NoMark, NoPending, Waiting
  <1>2. NewestKept /\ NothingHeld /\ OldWrite /\ ClosedIsDrained
    BY DEF ReportsInit, NewestKept, NothingHeld, OldWrite, ClosedIsDrained, NoPending, Waiting
  <1> QED BY <1>1, <1>2 DEF ReportsInv

\* Every step keeps the invariant.
LEMMA Steps == ReportsAssumption /\ ReportsInv /\ [ReportsNext]_reportVars => ReportsInv'
  <1> SUFFICES ASSUME ReportsAssumption, ReportsInv, [ReportsNext]_reportVars PROVE ReportsInv'
    OBVIOUS
  <1>1. CASE \E g \in Callers : Send(g)
    BY <1>1, SendKeeps
  <1>2. CASE \E r \in Requests : \/ Ask(r) \/ Build(r) \/ CancelBuild(r)
                                 \/ \E q \in Requests : Supersede(q, r)
    <2>1. ReportsTypeOK'
      BY <1>2, RequestTyped DEF ReportsInv
    <2>2. UNCHANGED <<pVars, writeVars>>
      BY <1>2 DEF Ask, Build, Start, ReportBuilding, Conclude, ReportEnd, CancelBuild, Supersede
    <2> QED BY <2>1, <2>2, PublisherAlone DEF ReportsInv
  <1>3. CASE ReportCancelled \/ TakeDown \/ Retract
    <2>1. ReportsTypeOK'
      BY <1>3, OthersTyped DEF ReportsInv
    <2>2. UNCHANGED <<pVars, writeVars>>
      BY <1>3 DEF ReportCancelled, TakeDown, Retract
    <2> QED BY <2>1, <2>2, PublisherAlone DEF ReportsInv
  <1>4. CASE \E f \in Flushers : Flush(f)
    BY <1>4, FlushKeeps
  <1>5. CASE Close
    BY <1>5, CloseKeeps
  <1>6. CASE CloseReturns
    BY <1>6, ReturnKeeps
  <1>7. CASE \E f \in Writers : Written(f)
    BY <1>7, WrittenKeeps
  <1>8. CASE UNCHANGED reportVars
    <2>1. ReportsTypeOK'
      BY <1>8 DEF reportVars, dVars, pVars, tVars, writeVars, ReportsInv, ReportsTypeOK, Waiting
    <2>2. UNCHANGED <<pVars, writeVars>>
      BY <1>8 DEF reportVars
    <2> QED BY <2>1, <2>2, PublisherAlone DEF ReportsInv
  <1> QED BY <1>1, <1>2, <1>3, <1>4, <1>5, <1>6, <1>7, <1>8 DEF ReportsNext

\* It holds in every reachable state.
LEMMA Invariant == ReportsSpec => []ReportsInv
  BY Starts, Steps, ReportsAssumption, PTL DEF ReportsSpec

-----------------------------------------------------------------------------
\* The variables have their types, and a timer runs only for a report that waits.
THEOREM ReportsTyped == ReportsSpec => []ReportsTypeOK
  <1>1. ReportsInv => ReportsTypeOK
    BY DEF ReportsInv
  <1> QED BY <1>1, Invariant, PTL

\* The newest report handed to the publisher waits with its timer, or was taken to be written.
THEOREM NewestSurvives == ReportsSpec => []NewestKept
  <1>1. ReportsInv => NewestKept
    BY DEF ReportsInv
  <1> QED BY <1>1, Invariant, PTL

\* When Close has returned, no write from before it is under way.
THEOREM CloseDrains == ReportsSpec => []ClosedIsDrained
  <1>1. ReportsInv => ClosedIsDrained
    BY DEF ReportsInv
  <1> QED BY <1>1, Invariant, PTL
===============================================================================
