---------------------------- MODULE OperatorProofs ----------------------------
(* What an operator's commands and the pages of the dashboard leave behind,    *)
(* for any environments, callers, secrets, keys and numbers of runs: the zrok  *)
(* account (Setup), the setup of `configure ziti` (Provision), the file of     *)
(* secrets (Vault).                                                            *)
EXTENDS Setup, Provision, Vault, SequenceTheorems, TLAPS

-------------------------------------------------------------------------------
(* Setup: a start publishes from another zrok account than the last one only   *)
(* if somebody chose so, or the last one is no longer enrolled.                *)

\* As long as nobody chose since the last start, the setting names what that start used;
\* nothing is stored only after a start that found no reason to prefer the machine's.
SetupRemembered ==
  lastRoot # "none" /\ ~chosen =>
    scopeSet = lastRoot \/ (scopeSet = "none" /\ lastRoot = "project")

\* What a start has read is what is stored, unless somebody chose in between.
ReadIsStored == boot = "read" /\ ~chosen => choice = scopeSet

AccountInv == SetupRemembered /\ ReadIsStored

-----------------------------------------------------------------------------
\* The requests and commands that record nothing.
Elsewhere ==
  \/ StopSetup \/ Inspected \/ ZrokCli
  \/ \E s \in Scopes : Inspect(s)
  \/ \E q \in Callers :
       \/ SignUp(q) \/ LoadToEnrol(q) \/ SaveToken(q) \/ Issue(q) \/ SaveEnv(q) \/ Undo(q)
       \/ LoadToDisable(q) \/ Revoke(q) \/ ForgetEnv(q)
       \/ \E kind \in Kinds : SetExposer(q, kind)
       \/ \E form \in Forms : FillIn(q, form)

\* They leave the recorded choice alone, and never put a start back to where it has read.
LEMMA ElsewhereKeeps ==
  ASSUME Elsewhere
  PROVE  /\ UNCHANGED <<scopeSet, lastRoot, chosen>>
         /\ boot' = "read" => boot = "read" /\ choice' = choice
  <1>1. CASE StopSetup
    BY <1>1 DEF StopSetup
  <1>2. CASE Inspected \/ ZrokCli \/ \E s \in Scopes : Inspect(s)
    BY <1>2 DEF Inspected, ZrokCli, Inspect
  <1>3. ASSUME NEW q \in Callers,
               \/ SignUp(q) \/ LoadToEnrol(q) \/ SaveToken(q) \/ Issue(q) \/ SaveEnv(q) \/ Undo(q)
        PROVE  UNCHANGED <<scopeSet, lastRoot, chosen, boot, choice>>
    BY <1>3 DEF SignUp, LoadToEnrol, SaveToken, Issue, SaveEnv, Undo
  <1>4. ASSUME NEW q \in Callers, LoadToDisable(q) \/ Revoke(q) \/ ForgetEnv(q)
        PROVE  UNCHANGED <<scopeSet, lastRoot, chosen, boot, choice>>
    BY <1>4 DEF LoadToDisable, Revoke, ForgetEnv
  <1>5. ASSUME NEW q \in Callers, \/ \E kind \in Kinds : SetExposer(q, kind)
                                  \/ \E form \in Forms : FillIn(q, form)
        PROVE  UNCHANGED <<scopeSet, lastRoot, chosen, boot, choice>>
    BY <1>5 DEF SetExposer, FillIn
  <1> QED BY <1>1, <1>2, <1>3, <1>4, <1>5 DEF Elsewhere

\* Every step is a start's, a choice, or one of those.
LEMMA Split ==
  ASSUME SetupNext
  PROVE  \/ Elsewhere \/ ReadChoice \/ Adopt
         \/ \E q \in Callers : RecordChoice(q) \/ \E s \in Scopes : Use(q, s)
  BY DEF SetupNext, Calls, Elsewhere

\* The directory a start uses: the stored one, or a guess that is recorded if it is the machine's.
LEMMA Adopted ==
  ASSUME AccountInv, Adopt
  PROVE  /\ boot' \in {"up", "down"} /\ choice' = choice
         /\ chosen' = (scopeSet # choice)
         /\ choice # "none" => lastRoot' = choice /\ scopeSet' = scopeSet
         /\ choice = "none" => /\ lastRoot' = Guess
                               /\ scopeSet' = IF Recorded THEN Guess ELSE scopeSet
  BY DEF Adopt

\* No start has been made at the start.
LEMMA SetupBegins == SetupInit => AccountInv
  BY DEF SetupInit, AccountInv, SetupRemembered, ReadIsStored

\* Every step keeps the invariant.
LEMMA SetupGoesOn == AccountInv /\ [SetupNext]_setupVars => AccountInv'
  <1> SUFFICES ASSUME AccountInv, [SetupNext]_setupVars PROVE AccountInv'
    OBVIOUS
  <1> USE DEF AccountInv, SetupRemembered, ReadIsStored
  <1>1. CASE Elsewhere
    BY <1>1, ElsewhereKeeps
  <1>2. CASE ReadChoice
    BY <1>2 DEF ReadChoice
  <1>3. CASE Adopt
    <2>1. Guess \in Scopes
      BY DEF Guess, Scopes
    <2>2. CASE choice # "none"
      BY <1>3, <2>2, Adopted
    <2>3. CASE choice = "none" /\ Recorded
      BY <1>3, <2>1, <2>3, Adopted
    <2>4. CASE choice = "none" /\ ~Recorded
      <3>1. Guess = "project"
        BY <2>4 DEF Recorded, Guess
      <3> QED BY <1>3, <2>1, <2>4, <3>1, Adopted
    <2> QED BY <2>2, <2>3, <2>4
  <1>4. ASSUME NEW q \in Callers, NEW s \in Scopes, Use(q, s)
        PROVE  AccountInv'
    BY <1>4 DEF Use
  <1>5. ASSUME NEW q \in Callers, RecordChoice(q)
        PROVE  AccountInv'
    BY <1>5 DEF RecordChoice
  <1>6. CASE UNCHANGED setupVars
    BY <1>6 DEF setupVars
  <1> QED BY <1>1, <1>2, <1>3, <1>4, <1>5, <1>6, Split

\* It holds in every reachable state.
LEMMA AccountInvariant == SetupSpec => []AccountInv
  BY SetupBegins, SetupGoesOn, PTL DEF SetupSpec

-----------------------------------------------------------------------------
\* What the invariant says at the only step that changes the account of a start.
LEMMA Account ==
  ASSUME AccountInv, [SetupNext]_setupVars, lastRoot # "none", lastRoot' # lastRoot
  PROVE  chosen \/ ~Enabled(lastRoot)
  <1>1. Adopt
    <2>1. CASE Elsewhere
      BY <2>1, ElsewhereKeeps
    <2>2. CASE ReadChoice \/ UNCHANGED setupVars
      BY <2>2 DEF ReadChoice, setupVars
    <2>3. ASSUME NEW q \in Callers, RecordChoice(q) \/ \E s \in Scopes : Use(q, s)
          PROVE  FALSE
      BY <2>3 DEF RecordChoice, Use
    <2> QED BY <2>1, <2>2, <2>3, Split
  <1>2. SUFFICES ASSUME ~chosen
                 PROVE  ~Enabled(lastRoot)
    OBVIOUS
  <1>3. choice = scopeSet
    BY <1>1, <1>2 DEF Adopt, AccountInv, ReadIsStored
  <1>4. lastRoot = "project" /\ choice = "none"
    BY <1>1, <1>2, <1>3, Adopted DEF AccountInv, SetupRemembered
  <1>5. Guess # "project"
    BY <1>1, <1>4, Adopted
  <1> QED BY <1>4, <1>5 DEF Guess

\* A start changes accounts only after a choice, or away from a directory no longer enrolled.
THEOREM KeepsAccount == SetupSpec => AccountKept
  <1>1. AccountInv /\ [SetupNext]_setupVars
          => [lastRoot # "none" /\ lastRoot' # lastRoot => chosen \/ ~Enabled(lastRoot)]_setupVars
    BY Account
  <1> QED BY <1>1, AccountInvariant, PTL DEF SetupSpec, AccountKept
-----------------------------------------------------------------------------
\* What a caller of the settings is at, and what it holds.
CallerTyped ==
  /\ apc \in [Callers -> {"idle", "registered", "loaded", "asked", "granted", "failed", "enrolled",
                          "disabling", "revoked"}]
  /\ target \in [Callers -> Scopes \cup {"none"}] /\ granted \in [Callers -> {"none", "half"} \cup EnvIds]
\* What is stored, on disk and in force.
SettingTyped ==
  /\ envOf \in [Scopes -> {"absent", "none", "half"} \cup EnvIds] /\ issued \subseteq EnvIds
  /\ scopeSet \in Scopes \cup {"none"} /\ kindSet \in Kinds \cup {"none"} /\ configKind \in Kinds
  /\ given \subseteq Fields /\ boot \in {"down", "read", "up"}
  /\ choice \in Scopes \cup {"none"} /\ inForce \in Scopes \cup {"none"}
  /\ looker \in Scopes \cup {"none"} /\ (boot = "up" => inForce # "none")
  /\ lastRoot \in Scopes \cup {"none"} /\ begun \in 0..MaxSteps /\ faults \in 0..MaxFaults

\* A start and the steps beside the callers keep the types.
LEMMA StartTyped ==
  ASSUME SetupTypeOK, ReadChoice \/ Adopt \/ StopSetup \/ Inspected \/ ZrokCli \/ \E s \in Scopes : Inspect(s)
  PROVE  SettingTyped' /\ CallerTyped'
<1>1. SettingTyped /\ CallerTyped
  BY DEF SetupTypeOK, SettingTyped, CallerTyped
<1>2. CASE ReadChoice \/ Inspected \/ \E s \in Scopes : Inspect(s)
  BY <1>1, <1>2 DEF ReadChoice, Inspected, Inspect, SettingTyped, CallerTyped
<1>3. CASE Adopt
  <2>1. (IF choice # "none" THEN choice ELSE Guess) \in Scopes
    BY <1>1 DEF Guess, SettingTyped, Scopes
  <2>2. QED BY <1>1, <1>3, <2>1 DEF Adopt, SettingTyped, CallerTyped, Scopes
<1>4. CASE StopSetup
  BY <1>1, <1>4 DEF StopSetup, SettingTyped, CallerTyped
<1>5. CASE ZrokCli
  BY <1>1, <1>5, SetupAssumption DEF ZrokCli, Begins, SettingTyped, CallerTyped
<1>6. QED BY <1>2, <1>3, <1>4, <1>5

\* A caller's step keeps the types.
LEMMA CallsTyped ==
  ASSUME SetupTypeOK, NEW q \in Callers, Calls(q)
  PROVE  SettingTyped' /\ CallerTyped'
<1>1. SettingTyped /\ CallerTyped
  BY DEF SetupTypeOK, SettingTyped, CallerTyped
<1>2. Loads(q) \in Scopes \cup {"none"}
  BY <1>1 DEF Loads, Scope, SettingTyped, Scopes
<1>3. /\ UNCHANGED <<kindSet, configKind, given, boot, choice, inForce, looker, lastRoot>>
      /\ begun' \in 0..MaxSteps /\ faults' \in 0..MaxFaults
  BY <1>1, SetupAssumption DEF SettingTyped, Calls, SignUp, LoadToEnrol, SaveToken, Issue, SaveEnv, Undo, RecordChoice,
     LoadToDisable, Revoke, ForgetEnv, Begins
<1>4. apc' \in [Callers -> {"idle", "registered", "loaded", "asked", "granted", "failed", "enrolled",
                            "disabling", "revoked"}]
  BY <1>1 DEF CallerTyped, Calls, SignUp, LoadToEnrol, SaveToken, Issue, SaveEnv, Undo, RecordChoice,
     LoadToDisable, Revoke, ForgetEnv
<1>5. target' \in [Callers -> Scopes \cup {"none"}]
  BY <1>1, <1>2 DEF CallerTyped, Calls, SignUp, LoadToEnrol, SaveToken, Issue, SaveEnv, Undo, RecordChoice,
     LoadToDisable, Revoke, ForgetEnv
<1>6. granted' \in [Callers -> {"none", "half"} \cup EnvIds]
  BY <1>1 DEF CallerTyped, Enabled, Calls, SignUp, LoadToEnrol, SaveToken, Issue, SaveEnv, Undo, RecordChoice,
     LoadToDisable, Revoke, ForgetEnv
<1>7. envOf' \in [Scopes -> {"absent", "none", "half"} \cup EnvIds] /\ issued' \subseteq EnvIds
  BY <1>1 DEF CallerTyped, SettingTyped, Calls, SignUp, LoadToEnrol, SaveToken, Issue, SaveEnv, Undo, RecordChoice,
     LoadToDisable, Revoke, ForgetEnv
<1>8. scopeSet' \in Scopes \cup {"none"}
  BY <1>1 DEF CallerTyped, SettingTyped, Calls, SignUp, LoadToEnrol, SaveToken, Issue, SaveEnv, Undo, RecordChoice,
     LoadToDisable, Revoke, ForgetEnv
<1>9. QED BY <1>1, <1>3, <1>4, <1>5, <1>6, <1>7, <1>8 DEF SettingTyped, CallerTyped

\* Whether the operator chose is noted as yes or no.
LEMMA ChosenTyped ==
  ASSUME SetupTypeOK, SetupNext
  PROVE  chosen' \in BOOLEAN
<1>1. chosen \in BOOLEAN /\ TRUE \in BOOLEAN /\ (scopeSet # choice) \in BOOLEAN
  BY DEF SetupTypeOK
<1>2. CASE Adopt
  BY <1>1, <1>2 DEF Adopt
<1>3. (\E q \in Callers : Calls(q)) => chosen' = chosen \/ chosen' = TRUE
  BY DEF Calls, SignUp, LoadToEnrol, SaveToken, Issue, SaveEnv, Undo, RecordChoice, LoadToDisable, Revoke, ForgetEnv
<1>4. ReadChoice \/ StopSetup \/ Inspected \/ ZrokCli \/ (\E s \in Scopes : Inspect(s)) => chosen' = chosen
  BY DEF ReadChoice, StopSetup, Inspected, ZrokCli, Inspect
<1>5. \A q \in Callers : (\E s \in Scopes : Use(q, s)) \/ (\E k \in Kinds : SetExposer(q, k))
                           \/ (\E f \in Forms : FillIn(q, f)) => chosen' = chosen \/ chosen' = TRUE
  BY DEF Use, SetExposer, FillIn
<1>6. chosen' = chosen \/ chosen' = TRUE \/ Adopt
  BY <1>3, <1>4, <1>5 DEF SetupNext
<1>7. QED BY <1>1, <1>2, <1>6

\* Every step keeps the types.
LEMMA SetupTyped == SetupTypeOK /\ [SetupNext]_setupVars => SetupTypeOK'
<1> SUFFICES ASSUME SetupTypeOK, [SetupNext]_setupVars PROVE SetupTypeOK'
  OBVIOUS
<1>1. CASE UNCHANGED setupVars
  BY <1>1 DEF setupVars, SetupTypeOK
<1>2. CASE SetupNext
  <2>1. SettingTyped /\ CallerTyped
    BY DEF SetupTypeOK, SettingTyped, CallerTyped
  <2>2. ASSUME NEW q \in Callers, (\E s \in Scopes : Use(q, s)) \/ (\E kind \in Kinds : SetExposer(q, kind))
                                  \/ (\E form \in Forms : FillIn(q, form))
        PROVE  SettingTyped' /\ CallerTyped'
    BY <2>1, <2>2, SetupAssumption DEF Use, SetExposer, FillIn, Begins, SettingTyped, CallerTyped
  <2>3. SettingTyped' /\ CallerTyped'
    BY <1>2, <2>2, StartTyped, CallsTyped DEF SetupNext
  <2>4. chosen' \in BOOLEAN
    BY <1>2, ChosenTyped
  <2>5. QED BY <2>3, <2>4 DEF SettingTyped, CallerTyped, SetupTypeOK
<1>3. QED BY <1>1, <1>2

\* Every variable of the settings, the roots and their callers has its type (SetupTypeOK), and
\* a daemon that is up has a root in force.
THEOREM SetupTypeCorrect == SetupSpec => []SetupTypeOK
<1>1. SetupInit => SetupTypeOK
  <2> SUFFICES ASSUME SetupInit PROVE SetupTypeOK
    OBVIOUS
  <2>1. SettingTyped
    BY SetupAssumption DEF SetupInit, SettingTyped, Kinds
  <2>2. CallerTyped
    BY DEF SetupInit, CallerTyped
  <2>3. chosen \in BOOLEAN
    BY DEF SetupInit
  <2>4. QED BY <2>1, <2>2, <2>3 DEF SettingTyped, CallerTyped, SetupTypeOK
<1>2. QED BY <1>1, SetupTyped, PTL DEF SetupSpec

-------------------------------------------------------------------------------
(* Provision, for one reader's role: a run of `configure ziti` that ended well *)
(* left a setup that works, whatever the runs before it left half done.        *)

\* The role is the same in every run: a policy that is there is reused as it is.
OneRole == \A r, s \in Roles : r = s

Underway == {"ensure", "create", "enroll", "write", "reviewer", "token", "done"}
Objects == {"service", "bind", "dial", "serp", "admin-service", "admin-bind", "admin-dial", "admin-serp"}

\* A run that is under way has its arguments and its place in the plan.
Placed ==
  /\ task \in [at : Underway \cup {"idle"}, n : Nat, dir : OutDirs \cup {"none"},
               domain : Domains \cup {"none"}, role : Roles \cup {"none"}, admin : BOOLEAN, id : Nat]
  /\ task.at # "idle" =>
       /\ task.role \in Roles /\ task.dir \in OutDirs
       /\ task.n \in 1..Len(Plan(task))
  /\ task.at \in Underway \ {"ensure"} => task.n = Len(Plan(task))

\* Every policy is keyed on a role an operator gave.
KeyedOnRole == \A o \in objects :
  \E c \in Objects, r \in Roles : o = <<c, IF c \in {"dial", "admin-dial"} THEN r ELSE "-">>

\* What the run has been through is there.
Ensured == task.at # "idle" =>
  /\ task.n > 1 => intercept = task.domain
  /\ \A i \in 2..Len(Plan(task)) - 1 :
       i < task.n => <<Plan(task)[i], Keyed(Plan(task)[i])>> \in objects

\* The host identity, from its making to the file with it.
HostReady ==
  /\ identities \in Nat /\ idFile \in [OutDirs -> Nat]
  /\ task.at \in {"enroll", "write"} => host # 0 /\ task.id = host
  /\ task.at \in {"write", "reviewer", "token", "done"} => host \in enrolled
  /\ task.at \in {"reviewer", "token", "done"} => host # 0 /\ idFile[task.dir] = host

\* The reviewer and its token.
ReviewerReady ==
  /\ reviewer \in Nat /\ jwtFile \in [OutDirs -> Nat]
  /\ task.at \in {"token", "done"} => reviewer # 0
  /\ task.at = "done" => reviewer \in enrolled \/ jwtFile[task.dir] = reviewer

PInv == Placed /\ KeyedOnRole /\ Ensured /\ HostReady /\ ReviewerReady

-----------------------------------------------------------------------------
\* The plan begins with the intercept, ends with the host, and has objects in between.
LEMMA PlanShape ==
  ASSUME NEW t
  PROVE  /\ Len(Plan(t)) \in Nat /\ Len(Plan(t)) > 1
         /\ Plan(t)[1] = "intercept" /\ Plan(t)[Len(Plan(t))] = "host"
         /\ \A i \in 2..Len(Plan(t)) - 1 : Plan(t)[i] \in Objects
  <1>1. CASE t.admin
    <2>1. Plan(t) = <<"intercept", "service", "bind", "dial", "serp",
                      "admin-service", "admin-bind", "admin-dial", "admin-serp", "host">>
      BY <1>1 DEF Plan
    <2>2. Len(Plan(t)) = 10
      BY <2>1
    <2>3. ASSUME NEW i \in 2..9 PROVE Plan(t)[i] \in Objects
      <3>1. i \in {2, 3, 4, 5, 6, 7, 8, 9}
        OBVIOUS
      <3> QED BY <2>1, <3>1 DEF Objects
    <2> QED BY <2>1, <2>2, <2>3
  <1>2. CASE ~t.admin
    <2>1. Plan(t) = <<"intercept", "service", "bind", "dial", "serp", "host">>
      BY <1>2 DEF Plan
    <2>2. Len(Plan(t)) = 6
      BY <2>1
    <2>3. ASSUME NEW i \in 2..5 PROVE Plan(t)[i] \in Objects
      <3>1. i \in {2, 3, 4, 5}
        OBVIOUS
      <3> QED BY <2>1, <3>1 DEF Objects
    <2> QED BY <2>1, <2>2, <2>3
  <1> QED BY <1>1, <1>2

\* What EXCEPT leaves of a run that moves on.
LEMMA Moved ==
  ASSUME Placed, NEW at \in Underway, MovesTo(at)
  PROVE  /\ task' \in [at : Underway \cup {"idle"}, n : Nat, dir : OutDirs \cup {"none"},
               domain : Domains \cup {"none"}, role : Roles \cup {"none"}, admin : BOOLEAN, id : Nat]
         /\ task'.at = at /\ task'.n = task.n /\ task'.dir = task.dir /\ task'.domain = task.domain
         /\ task'.role = task.role /\ task'.admin = task.admin /\ task'.id = task.id
  BY DEF MovesTo, Placed

\* The plan and the keys depend on the arguments of the run only.
LEMMA SameRun ==
  ASSUME task'.admin = task.admin, task'.role = task.role
  PROVE  Plan(task') = Plan(task) /\ \A c : Keyed(c)' = Keyed(c)
  BY DEF Plan, Keyed

\* A run that moves on past its plan keeps its place and what it has been through.
LEMMA MovesOn ==
  ASSUME PInv, NEW at \in Underway \ {"ensure"}, MovesTo(at), task.at # "idle",
         task.n = Len(Plan(task)), UNCHANGED <<intercept, objects>>
  PROVE  Placed' /\ KeyedOnRole' /\ Ensured'
  <1>1. Plan(task') = Plan(task) /\ \A c : Keyed(c)' = Keyed(c)
    BY Moved, SameRun DEF PInv
  <1>2. Placed'
    BY Moved, <1>1 DEF PInv, Placed
  <1>3. KeyedOnRole'
    BY DEF PInv, KeyedOnRole
  <1>4. Ensured'
    BY Moved, <1>1, Zenon DEF PInv, Ensured
  <1> QED BY <1>2, <1>3, <1>4

\* The steps that leave the run alone, or drop it, leave alone what it has been through.
LEMMA Unmoved ==
  ASSUME PInv, task' = task \/ task' = Resting, UNCHANGED <<intercept, objects>>
  PROVE  Placed' /\ KeyedOnRole' /\ Ensured'
  <1>1. KeyedOnRole'
    BY DEF PInv, KeyedOnRole
  <1>2. CASE task' = task
    BY <1>1, <1>2 DEF PInv, Placed, Ensured, Keyed
  <1>3. CASE task' = Resting
    BY <1>1, <1>3 DEF Resting, Placed, Ensured, Underway
  <1> QED BY <1>1, <1>2, <1>3

-----------------------------------------------------------------------------
\* No run is under way and nothing was provisioned.
LEMMA ProvisionBegins == ProvisionInit => PInv
  BY DEF ProvisionInit, PInv, Placed, KeyedOnRole, Ensured, HostReady, ReviewerReady, Resting, Underway

\* A run that begins is at the first object of its plan.
LEMMA RunBegins ==
  ASSUME PInv, Provision
  PROVE  PInv'
  <1>1. PICK d \in OutDirs, m \in Domains, r \in Roles, a \in BOOLEAN :
          task' = [at |-> "ensure", n |-> 1, dir |-> d, domain |-> m, role |-> r, admin |-> a, id |-> 0]
    BY DEF Provision
  <1>2. Placed'
    BY <1>1, PlanShape DEF Placed, Underway
  <1>3. KeyedOnRole' /\ HostReady' /\ ReviewerReady'
    BY <1>1 DEF Provision, PInv, KeyedOnRole, HostReady, ReviewerReady, zitiVars
  <1>4. Ensured'
    BY <1>1, PlanShape DEF Ensured
  <1> QED BY <1>2, <1>3, <1>4 DEF PInv

\* One more object of the plan is there.
LEMMA Ensures ==
  ASSUME PInv, OneRole, EnsureIntercept \/ Ensure
  PROVE  PInv'
  <1>1. /\ task.at = "ensure" /\ Next1 /\ Call # "host"
        /\ UNCHANGED <<host, enrolled, reviewer, identities, idFile, jwtFile>>
    BY DEF EnsureIntercept, Ensure
  <1>2. /\ task' \in [at : Underway \cup {"idle"}, n : Nat, dir : OutDirs \cup {"none"},
               domain : Domains \cup {"none"}, role : Roles \cup {"none"}, admin : BOOLEAN, id : Nat]
        /\ task'.at = "ensure" /\ task'.n = task.n + 1 /\ task'.dir = task.dir
        /\ task'.domain = task.domain /\ task'.role = task.role /\ task'.admin = task.admin
    BY <1>1 DEF Next1, PInv, Placed
  <1>3. Plan(task') = Plan(task) /\ \A c : Keyed(c)' = Keyed(c)
    BY <1>2, SameRun
  <1>4. task.n \in 1..Len(Plan(task)) - 1
    BY <1>1, PlanShape DEF Call, PInv, Placed
  <1>5. Placed'
    BY <1>1, <1>2, <1>3, <1>4, PlanShape DEF PInv, Placed
  <1>6. HostReady' /\ ReviewerReady'
    BY <1>1, <1>2 DEF PInv, HostReady, ReviewerReady
  <1>7. CASE EnsureIntercept
    <2>1. task.n = 1
      BY <1>4, <1>7, PlanShape DEF EnsureIntercept, Call, Objects
    <2>2. KeyedOnRole' /\ Ensured'
      BY <1>2, <1>7, <2>1 DEF EnsureIntercept, PInv, KeyedOnRole, Ensured
    <2> QED BY <1>5, <1>6, <2>2 DEF PInv
  <1>8. CASE Ensure
    <2>1. task.n > 1 /\ Call = Plan(task)[task.n] /\ Call \in Objects /\ intercept' = intercept
      BY <1>4, <1>8, PlanShape DEF Ensure, Call
    <2>2. KeyedOnRole' /\ objects \subseteq objects' /\ <<Call, Keyed(Call)>> \in objects'
      <3>1. CASE \E o \in objects : o[1] = Call
        <4>1. PICK o \in objects : o[1] = Call
          BY <3>1
        <4>2. PICK r \in Roles : o = <<Call, IF Call \in {"dial", "admin-dial"} THEN r ELSE "-">>
          BY <4>1 DEF PInv, KeyedOnRole
        <4>3. r = task.role
          BY <1>1, <4>2 DEF OneRole, PInv, Placed
        <4>4. objects' = objects
          BY <1>8, <3>1 DEF Ensure
        <4> QED BY <4>1, <4>2, <4>3, <4>4 DEF Keyed, PInv, KeyedOnRole
      <3>2. CASE ~\E o \in objects : o[1] = Call
        <4>1. objects' = objects \cup {<<Call, Keyed(Call)>>}
          BY <1>8, <3>2 DEF Ensure
        <4>2. task.role \in Roles
          BY <1>1 DEF PInv, Placed
        <4> QED BY <2>1, <4>1, <4>2 DEF Keyed, PInv, KeyedOnRole
      <3> QED BY <3>1, <3>2
    <2>3. Ensured'
      <3>1. task'.n > 1 => intercept' = task'.domain
        BY <1>1, <1>2, <2>1 DEF PInv, Ensured
      <3>2. ASSUME NEW i \in 2..Len(Plan(task)) - 1, i < task.n + 1
            PROVE  <<Plan(task)[i], Keyed(Plan(task)[i])>> \in objects'
        <4>1. CASE i < task.n
          BY <1>1, <2>2, <4>1 DEF PInv, Ensured
        <4>2. CASE i = task.n
          BY <2>1, <2>2, <4>2
        <4> QED BY <1>4, <3>2, <4>1, <4>2
      <3> QED BY <1>2, <1>3, <3>1, <3>2 DEF Ensured
    <2> QED BY <1>5, <1>6, <2>2, <2>3 DEF PInv
  <1> QED BY <1>7, <1>8

\* The host identity and its file.
LEMMA HostSteps ==
  ASSUME PInv, EnsureHost \/ CreateHost \/ EnrollHost \/ WriteIdentity
  PROVE  PInv'
  <1> USE DEF Underway
  <1>1. CASE EnsureHost
    <2>1. task.n = Len(Plan(task))
      BY <1>1, PlanShape DEF EnsureHost, Call, PInv, Placed, Objects
    <2>2. PICK at \in {"reviewer", "create"} :
            /\ MovesTo(at)
            /\ at = "reviewer" => host # 0 /\ Usable(task.dir) /\ host' = host
      BY <1>1 DEF EnsureHost
    <2>3. Placed' /\ KeyedOnRole' /\ Ensured'
      BY <1>1, <2>1, <2>2, MovesOn DEF EnsureHost
    <2>4. HostReady' /\ ReviewerReady'
      BY <1>1, <2>2, Moved DEF EnsureHost, Usable, PInv, HostReady, ReviewerReady
    <2> QED BY <2>3, <2>4 DEF PInv
  <1>2. CASE CreateHost
    <2> identities' \in Nat /\ identities' # 0 /\ host' = identities'
      BY <1>2 DEF CreateHost, PInv, HostReady
    <2>1. /\ task' \in [at : Underway \cup {"idle"}, n : Nat, dir : OutDirs \cup {"none"},
               domain : Domains \cup {"none"}, role : Roles \cup {"none"}, admin : BOOLEAN, id : Nat]
          /\ task'.at = "enroll" /\ task'.n = task.n /\ task'.dir = task.dir
          /\ task'.domain = task.domain /\ task'.role = task.role /\ task'.admin = task.admin
          /\ task'.id = identities'
      BY <1>2 DEF CreateHost, PInv, Placed
    <2>2. Plan(task') = Plan(task) /\ \A c : Keyed(c)' = Keyed(c)
      BY <2>1, SameRun
    <2>3. Placed' /\ KeyedOnRole'
      BY <1>2, <2>1, <2>2 DEF CreateHost, PInv, Placed, KeyedOnRole
    <2>4. Ensured'
      BY <1>2, <2>1, <2>2, Zenon DEF CreateHost, PInv, Ensured
    <2>5. HostReady' /\ ReviewerReady'
      BY <1>2, <2>1 DEF CreateHost, PInv, HostReady, ReviewerReady
    <2> QED BY <2>3, <2>4, <2>5 DEF PInv
  <1>3. CASE EnrollHost
    <2>1. Placed' /\ KeyedOnRole' /\ Ensured'
      BY <1>3, MovesOn DEF EnrollHost, PInv, Placed
    <2>2. HostReady' /\ ReviewerReady'
      BY <1>3, Moved DEF EnrollHost, PInv, HostReady, ReviewerReady
    <2> QED BY <2>1, <2>2 DEF PInv
  <1>4. CASE WriteIdentity
    <2>1. Placed' /\ KeyedOnRole' /\ Ensured'
      BY <1>4, MovesOn DEF WriteIdentity, PInv, Placed, zitiVars
    <2>2. task.dir \in OutDirs /\ task.id \in Nat
      BY <1>4 DEF WriteIdentity, PInv, Placed
    <2>3. HostReady' /\ ReviewerReady'
      BY <1>4, <2>2, Moved DEF WriteIdentity, PInv, HostReady, ReviewerReady, zitiVars
    <2> QED BY <2>1, <2>3 DEF PInv
  <1> QED BY <1>1, <1>2, <1>3, <1>4

\* The reviewer and its token.
LEMMA ReviewerSteps ==
  ASSUME PInv, EnsureReviewer \/ WriteToken
  PROVE  PInv'
  <1> USE DEF Underway
  <1>1. CASE EnsureReviewer
    <2>1. Placed' /\ KeyedOnRole' /\ Ensured'
      BY <1>1, MovesOn DEF EnsureReviewer, PInv, Placed
    <2>2. identities' \in Nat /\ reviewer' \in Nat /\ reviewer' # 0
      BY <1>1 DEF EnsureReviewer, PInv, HostReady, ReviewerReady
    <2>3. HostReady' /\ ReviewerReady'
      BY <1>1, <2>2, Moved DEF EnsureReviewer, PInv, HostReady, ReviewerReady
    <2> QED BY <2>1, <2>3 DEF PInv
  <1>2. CASE WriteToken
    <2>1. Placed' /\ KeyedOnRole' /\ Ensured'
      BY <1>2, MovesOn DEF WriteToken, PInv, Placed, zitiVars
    <2>2. task.dir \in OutDirs
      BY <1>2 DEF WriteToken, PInv, Placed
    <2>3. HostReady' /\ ReviewerReady'
      BY <1>2, <2>2, Moved DEF WriteToken, PInv, HostReady, ReviewerReady, zitiVars
    <2> QED BY <2>1, <2>3 DEF PInv
  <1> QED BY <1>1, <1>2

\* What happens around a run.
LEMMA Around ==
  ASSUME PInv, TaskFails \/ ReviewerEnrols \/ (\E d \in OutDirs : FileLost(d)) \/ UNCHANGED provVars
  PROVE  PInv'
  <1>1. Placed' /\ KeyedOnRole' /\ Ensured'
    BY Unmoved DEF TaskFails, ReviewerEnrols, FileLost, provVars, zitiVars
  <1>2. HostReady' /\ ReviewerReady'
    BY DEF PInv, HostReady, ReviewerReady, TaskFails, ReviewerEnrols, FileLost, provVars, zitiVars, Resting
  <1> QED BY <1>1, <1>2 DEF PInv

\* Every step keeps the invariant.
LEMMA ProvisionGoesOn == OneRole /\ PInv /\ [ProvisionNext]_provVars => PInv'
  BY RunBegins, Ensures, HostSteps, ReviewerSteps, Around DEF ProvisionNext

-----------------------------------------------------------------------------
\* At the end of a run the invariant is the property.
LEMMA DoneMeansUsable == PInv => DoneIsUsable
  <1> SUFFICES ASSUME PInv, task.at = "done" PROVE DoneIsUsable
    BY DEF DoneIsUsable
  <1>1. task.n = Len(Plan(task)) /\ task.n > 1
    BY PlanShape DEF PInv, Placed, Underway
  <1>2. intercept = task.domain
    BY <1>1 DEF PInv, Ensured
  <1>3. \A i \in 2..Len(Plan(task)) - 1 : <<Plan(task)[i], Keyed(Plan(task)[i])>> \in objects
    BY <1>1, PlanShape DEF PInv, Ensured
  <1> QED BY <1>2, <1>3 DEF PInv, HostReady, ReviewerReady, DoneIsUsable

\* With one reader's role, a run that ended well left everything in working order.
THEOREM UsableWhenDone == ASSUME OneRole PROVE ProvisionSpec => []DoneIsUsable
  <1>1. PInv /\ [ProvisionNext]_provVars => PInv'
    BY ProvisionGoesOn
  <1> QED BY <1>1, ProvisionBegins, DoneMeansUsable, PTL DEF ProvisionSpec
-----------------------------------------------------------------------------
\* What a run, the controller and the files range over; unlike PInv it needs no role of its own.
ProvTyped ==
  /\ Placed /\ (task.at = "ensure" => task.domain \in Domains) /\ (task.at = "idle" => task.n = 0)
  /\ intercept \in Domains \cup {"none"} /\ KeyedOnRole
  /\ identities \in Nat /\ host \in 0..identities /\ reviewer \in 0..identities /\ enrolled \subseteq 1..identities
  /\ task.id \in 0..identities /\ (task.at \in {"enroll", "write"} => task.id # 0)
  /\ idFile \in [OutDirs -> 0..identities] /\ jwtFile \in [OutDirs -> 0..identities]

\* A step of the run that only moves on, past the plan.
LEMMA TypedMoves ==
  ASSUME ProvTyped, NEW at \in Underway \ {"ensure"}, MovesTo(at), task.at # "idle", task.n = Len(Plan(task))
  PROVE  Placed' /\ task'.at = at /\ task'.id = task.id
<1>1. Plan(task') = Plan(task)
  BY Moved, SameRun DEF ProvTyped
<1>2. QED BY Moved, <1>1 DEF ProvTyped, Placed

\* A new identity makes the ranges larger.
LEMMA OneMore ==
  ASSUME ProvTyped, identities' = identities + 1
  PROVE  /\ identities' \in Nat /\ identities' # 0 /\ identities' \in 0..identities'
         /\ 0..identities \subseteq 0..identities' /\ 1..identities \subseteq 1..identities'
BY DEF ProvTyped

\* Every step keeps the types.
LEMMA ProvStepTyped == ProvTyped /\ [ProvisionNext]_provVars => ProvTyped'
<1> SUFFICES ASSUME ProvTyped, [ProvisionNext]_provVars PROVE ProvTyped'
  OBVIOUS
<1>1. /\ Placed /\ KeyedOnRole /\ task.at \in Underway \cup {"idle"} /\ task.dir \in OutDirs \cup {"none"}
      /\ task.at \in Underway \ {"ensure"} => task.n = Len(Plan(task))
  BY DEF ProvTyped, Placed
<1>2. ASSUME task' = task \/ task' = Resting, UNCHANGED <<intercept, objects, host, reviewer, identities>>,
             enrolled' \subseteq 1..identities, idFile' \in [OutDirs -> 0..identities],
             jwtFile' \in [OutDirs -> 0..identities]
      PROVE  ProvTyped'
  <2>1. CASE task' = task
    BY <1>2, <2>1 DEF ProvTyped, Placed, KeyedOnRole
  <2>2. CASE task' = Resting
    BY <1>2, <2>2 DEF ProvTyped, Placed, KeyedOnRole, Resting, Underway
  <2>3. QED BY <1>2, <2>1, <2>2
<1>3. CASE UNCHANGED provVars
  BY <1>2, <1>3 DEF provVars, zitiVars, ProvTyped
<1>4. CASE TaskFails
  BY <1>2, <1>4 DEF TaskFails, zitiVars, ProvTyped
<1>5. CASE ReviewerEnrols
  <2>1. enrolled' \subseteq 1..identities
    <3>1. PICK d \in OutDirs : jwtFile[d] # 0 /\ enrolled' = enrolled \cup {jwtFile[d]}
      BY <1>5 DEF ReviewerEnrols
    <3>2. jwtFile[d] \in 0..identities /\ identities \in Nat /\ enrolled \subseteq 1..identities
      BY DEF ProvTyped
    <3>3. jwtFile[d] \in 1..identities
      BY <3>1, <3>2
    <3>4. QED BY <3>1, <3>2, <3>3
  <2>2. QED BY <1>2, <1>5, <2>1 DEF ReviewerEnrols, ProvTyped
<1>6. ASSUME NEW d \in OutDirs, FileLost(d) PROVE ProvTyped'
  <2>1. idFile' \in [OutDirs -> 0..identities]
    BY <1>6 DEF FileLost, ProvTyped
  <2>2. QED BY <1>2, <1>6, <2>1 DEF FileLost, zitiVars, ProvTyped
<1>7. CASE Provision
  <2>1. PICK d \in OutDirs, m \in Domains, r \in Roles, a \in BOOLEAN :
          task' = [at |-> "ensure", n |-> 1, dir |-> d, domain |-> m, role |-> r, admin |-> a, id |-> 0]
    BY <1>7 DEF Provision
  <2>2. Placed'
    BY <2>1, PlanShape DEF Placed, Underway
  <2>3. QED BY <1>7, <2>1, <2>2 DEF Provision, zitiVars, ProvTyped, KeyedOnRole
<1>8. CASE EnsureIntercept \/ Ensure
  <2>1. task.at = "ensure" /\ Next1 /\ Call # "host" /\ task.role \in Roles
        /\ UNCHANGED <<host, enrolled, reviewer, identities, idFile, jwtFile>>
    BY <1>1, <1>8 DEF EnsureIntercept, Ensure, Placed
  <2>2. /\ task' \in [at : Underway \cup {"idle"}, n : Nat, dir : OutDirs \cup {"none"},
               domain : Domains \cup {"none"}, role : Roles \cup {"none"}, admin : BOOLEAN, id : Nat]
        /\ task'.at = "ensure" /\ task'.n = task.n + 1 /\ task'.dir = task.dir /\ task'.id = task.id
        /\ task'.domain = task.domain /\ task'.role = task.role /\ task'.admin = task.admin
    BY <1>1, <2>1 DEF Next1, Placed
  <2>3. Plan(task') = Plan(task)
    BY <2>2, SameRun
  <2>4. task.n \in 1..Len(Plan(task)) - 1
    BY <1>1, <2>1, PlanShape DEF Call, Placed, Underway
  <2>5. Placed'
    BY <1>1, <2>1, <2>2, <2>3, <2>4, PlanShape DEF Placed
  <2>6. intercept' \in Domains \cup {"none"} /\ KeyedOnRole'
    <3>1. CASE EnsureIntercept
      BY <2>1, <3>1 DEF EnsureIntercept, ProvTyped, KeyedOnRole
    <3>2. CASE Ensure
      <4>1. Call \in Objects
        BY <2>4, <3>2, PlanShape DEF Ensure, Call
      <4>2. objects' = objects \/ objects' = objects \cup {<<Call, Keyed(Call)>>}
        BY <3>2 DEF Ensure
      <4>3. Keyed(Call) = IF Call \in {"dial", "admin-dial"} THEN task.role ELSE "-"
        BY DEF Keyed
      <4>4. KeyedOnRole'
        BY <1>1, <2>1, <4>1, <4>2, <4>3 DEF KeyedOnRole
      <4>5. QED BY <3>2, <4>4 DEF Ensure, ProvTyped
    <3>3. QED BY <1>8, <3>1, <3>2
  <2>7. QED BY <2>1, <2>2, <2>5, <2>6 DEF ProvTyped
<1>9. ASSUME NEW at \in Underway \ {"ensure"}, MovesTo(at), at \notin {"enroll", "write"}, task.at # "idle",
             task.n = Len(Plan(task)), UNCHANGED <<intercept, objects, enrolled>>,
             identities' \in Nat, 0..identities \subseteq 0..identities', 1..identities \subseteq 1..identities',
             host' \in 0..identities', reviewer' \in 0..identities',
             idFile' \in [OutDirs -> 0..identities'], jwtFile' \in [OutDirs -> 0..identities']
      PROVE  ProvTyped'
  <2>1. Placed' /\ task'.at = at /\ task'.id = task.id
    BY <1>9, TypedMoves
  <2>2. KeyedOnRole'
    BY <1>1, <1>9 DEF KeyedOnRole
  <2>3. at # "idle" /\ at # "ensure"
    BY DEF Underway
  <2>4. QED BY <1>9, <2>1, <2>2, <2>3 DEF ProvTyped
<1>10. CASE EnsureHost
  <2>1. task.n = Len(Plan(task)) /\ task.at # "idle"
    <3>1. task.at = "ensure" /\ Plan(task)[task.n] = "host" /\ task.n \in 1..Len(Plan(task))
      BY <1>1, <1>10 DEF EnsureHost, Call, Placed
    <3>2. "host" \notin Objects /\ "host" # "intercept"
      BY DEF Objects
    <3>3. /\ Len(Plan(task)) \in Nat /\ Plan(task)[1] = "intercept"
          /\ \A i \in 2..Len(Plan(task)) - 1 : Plan(task)[i] \in Objects
      BY PlanShape
    <3>4. task.n # 1 /\ task.n \notin 2..Len(Plan(task)) - 1
      BY <3>1, <3>2, <3>3
    <3>5. QED BY <3>1, <3>3, <3>4
  <2>2. /\ (MovesTo("reviewer") \/ MovesTo("create")) /\ host' \in {host, 0}
        /\ UNCHANGED <<intercept, objects, enrolled, reviewer, identities, idFile, jwtFile>>
    BY <1>10 DEF EnsureHost
  <2>3. QED BY <1>9, <2>1, <2>2 DEF ProvTyped, Underway
<1>11. CASE CreateHost
  <2>1. /\ task.at = "create" /\ identities' = identities + 1 /\ host' = identities'
        /\ task' = [task EXCEPT !.at = "enroll", !.id = identities']
        /\ UNCHANGED <<intercept, objects, enrolled, reviewer, idFile, jwtFile>>
    BY <1>11 DEF CreateHost
  <2>2. /\ task' \in [at : Underway \cup {"idle"}, n : Nat, dir : OutDirs \cup {"none"},
               domain : Domains \cup {"none"}, role : Roles \cup {"none"}, admin : BOOLEAN, id : Nat]
        /\ task'.at = "enroll" /\ task'.id = identities' /\ task'.n = task.n /\ task'.dir = task.dir
        /\ task'.domain = task.domain /\ task'.role = task.role /\ task'.admin = task.admin
    BY <1>1, <2>1, OneMore DEF Placed, Underway
  <2>3. Plan(task') = Plan(task)
    BY <2>2, SameRun
  <2>4. Placed'
    BY <1>1, <2>1, <2>2, <2>3 DEF Placed, Underway
  <2>5. QED BY <2>1, <2>2, <2>4, OneMore DEF ProvTyped, KeyedOnRole
<1>12. CASE EnrollHost
  <2>1. /\ task.at = "enroll" /\ enrolled' = enrolled \cup {task.id} /\ MovesTo("write")
        /\ UNCHANGED <<intercept, objects, host, reviewer, identities, idFile, jwtFile>>
    BY <1>12 DEF EnrollHost
  <2>2. Placed' /\ task'.at = "write" /\ task'.id = task.id
    BY <1>1, <2>1, TypedMoves DEF Underway
  <2>3. task.id \in 1..identities
    BY <2>1 DEF ProvTyped
  <2>4. QED BY <2>1, <2>2, <2>3 DEF ProvTyped, KeyedOnRole
<1>13. CASE WriteIdentity
  <2>1. /\ task.at = "write" /\ MovesTo("reviewer") /\ UNCHANGED <<zitiVars, jwtFile>>
        /\ idFile' \in [OutDirs -> 0..identities]
    BY <1>13 DEF WriteIdentity, ProvTyped
  <2>2. QED BY <1>1, <1>9, <2>1 DEF ProvTyped, Underway, zitiVars
<1>14. CASE EnsureReviewer
  <2>1. task.at = "reviewer" /\ MovesTo("token") /\ UNCHANGED <<intercept, objects, host, enrolled, idFile, jwtFile>>
    BY <1>14 DEF EnsureReviewer
  <2>2. CASE UNCHANGED <<reviewer, identities>>
    BY <1>1, <1>9, <2>1, <2>2 DEF ProvTyped, Underway
  <2>3. CASE identities' = identities + 1 /\ reviewer' = identities'
    <3>1. host' \in 0..identities' /\ idFile' \in [OutDirs -> 0..identities'] /\ jwtFile' \in [OutDirs -> 0..identities']
      BY <2>1, <2>3, OneMore DEF ProvTyped
    <3>2. QED BY <1>1, <1>9, <2>1, <2>3, <3>1, OneMore DEF Underway
  <2>4. QED BY <1>14, <2>2, <2>3 DEF EnsureReviewer
<1>15. CASE WriteToken
  <2>1. /\ task.at = "token" /\ MovesTo("done") /\ UNCHANGED <<zitiVars, idFile>>
        /\ jwtFile' \in [OutDirs -> 0..identities]
    BY <1>15 DEF WriteToken, ProvTyped
  <2>2. QED BY <1>1, <1>9, <2>1 DEF ProvTyped, Underway, zitiVars
<1>16. QED BY <1>3, <1>4, <1>5, <1>6, <1>7, <1>8, <1>10, <1>11, <1>12, <1>13, <1>14, <1>15 DEF ProvisionNext

\* The controller, the files and the run have their types (ProvisionTypeOK), for any roles.
THEOREM ProvisionTypeCorrect == ProvisionSpec => []ProvisionTypeOK
<1>1. ProvisionInit => ProvTyped
  BY DEF ProvisionInit, ProvTyped, Placed, KeyedOnRole, Resting, Underway
<1>2. ProvTyped => ProvisionTypeOK
  <2> SUFFICES ASSUME ProvTyped PROVE ProvisionTypeOK
    OBVIOUS
  <2>1. task.n \in 0..Len(Plan(task))
    <3>1. CASE task.at = "idle"
      BY <3>1, PlanShape DEF ProvTyped
    <3>2. CASE task.at # "idle"
      BY <3>2, PlanShape DEF ProvTyped, Placed
    <3>3. QED BY <3>1, <3>2
  <2>2. {o[2] : o \in objects} \subseteq Roles \cup {"-"}
    BY DEF ProvTyped, KeyedOnRole
  <2>3. QED BY <2>1, <2>2 DEF ProvTyped, ProvisionTypeOK
<1>3. QED BY <1>1, <1>2, ProvStepTyped, PTL DEF ProvisionSpec

-------------------------------------------------------------------------------
(* Vault: a stored secret can be read again, under a key that somebody has.    *)

\* Every variable has its type, requests and command included.
ReqRecords == [step : {"idle", "put", "delete", "unlock", "create", "swap"}, vault : Nat,
               name : Secrets \cup {"none"}, snap : Copies, left : 0..2]
CmdRecords == [step : {"idle", "set", "backup", "encrypt", "install"}, copy : Copies,
               arg : Secrets \cup MasterKeys \cup {"none"}]
FileTyped ==
  /\ sealed \in Copies /\ backup \in Copies /\ keyFile \in MasterKeys \cup {"none"}
  /\ keysKnown \subseteq MasterKeys /\ stored \subseteq Secrets /\ overtaken \subseteq Secrets
DaemonTyped ==
  /\ vaults \in Seq(Copies) /\ daemon \in 0..Len(vaults) /\ up \in BOOLEAN
  /\ req \in [Requests -> ReqRecords] /\ \A r \in Requests : req[r].vault \in 0..Len(vaults)
VaultTyped == FileTyped /\ DaemonTyped /\ cmd \in CmdRecords

\* What the daemon has in memory or is about to write is under a key somebody has, and a
\* daemon that is down has nothing.
InMemory ==
  /\ ~up => vaults = <<>> /\ \A r \in Requests : req[r] = NoRequest
  /\ \A i \in DOMAIN vaults : vaults[i].key \in AtHand
  /\ \A r \in Requests : req[r].snap = NoVault \/ req[r].snap.key \in AtHand

\* A request that stores a secret has it in memory and in its snapshot.
RequestHolds(q) ==
  /\ q.step \in {"put", "delete", "unlock"} => q.vault \in DOMAIN vaults
  /\ q.step \in {"put", "delete"} => q.name \in Secrets
  /\ q.step = "put" => q.name \in vaults[q.vault].has /\ (q.snap = NoVault \/ q.name \in q.snap.has)
  /\ q.step = "create" => q.snap.key \in AtHand
RequestsHold == \A r \in Requests : RequestHolds(req[r])

\* A rekey has the daemon down, and a copy of what it re-encrypts from the moment it does.
Copied == sealed.has = {} \/ (sealed.has \subseteq backup.has /\ backup.key \in AtHand)
CommandHolds ==
  /\ cmd.step \in {"backup", "encrypt", "install"} => ~up /\ cmd.arg \in MasterKeys
  /\ cmd.step = "set" => cmd.copy.key \in AtHand /\ cmd.arg \in cmd.copy.has /\ cmd.arg \in Secrets
  /\ cmd.step \in {"backup", "encrypt"} => cmd.copy.has = sealed.has
  /\ cmd.step = "backup" => sealed = NoVault \/ sealed.key \in AtHand
  /\ cmd.step = "encrypt" => Copied
  /\ cmd.step = "install" => sealed.key = cmd.arg

\* The file opens, or there is a copy that does; what was stored and not overtaken is in it.
Readable == sealed.key \in AtHand \/ Copied
InPlace == stored \ overtaken \subseteq sealed.has

VaultInv == VaultTyped /\ InMemory /\ RequestsHold /\ CommandHolds /\ Readable /\ InPlace

\* A rename of a snapshot keeps what was stored or counts it as overtaken.
LEMMA InstallInPlace ==
  ASSUME InPlace, FileTyped, NEW snap \in Copies, Install(snap), stored' \ stored \subseteq snap.has,
         stored' \subseteq Secrets, UNCHANGED <<backup, keyFile>>, keysKnown' \subseteq MasterKeys
  PROVE  InPlace' /\ FileTyped'
<1>1. sealed' = snap /\ overtaken' = (overtaken \cup (sealed.has \ snap.has)) \ snap.has
  BY DEF Install
<1>2. InPlace'
  BY <1>1 DEF InPlace
<1>3. overtaken' \subseteq Secrets
  BY <1>1 DEF FileTyped, Copies
<1>4. QED BY <1>1, <1>2, <1>3 DEF FileTyped

\* One request changes, and the vaults in memory as far as the other requests allow.
LEMMA OneRequest ==
  ASSUME DaemonTyped, InMemory, RequestsHold, NEW r \in Requests, NEW q \in ReqRecords, req' = [req EXCEPT ![r] = q],
         vaults' \in Seq(Copies), Len(vaults') >= Len(vaults), AtHand \subseteq AtHand', daemon' \in 0..Len(vaults'),
         UNCHANGED up, up,
         \A i \in DOMAIN vaults : vaults'[i].key = vaults[i].key,
         \A i \in DOMAIN vaults' \ DOMAIN vaults : vaults'[i].key \in AtHand',
         \A p \in Requests \ {r} : req[p].step = "put" => req[p].name \in vaults'[req[p].vault].has,
         q.vault \in 0..Len(vaults'), q.snap = NoVault \/ q.snap.key \in AtHand',
         q.step \in {"put", "delete", "unlock"} => q.vault \in DOMAIN vaults',
         q.step \in {"put", "delete"} => q.name \in Secrets,
         q.step = "put" => q.name \in vaults'[q.vault].has /\ (q.snap = NoVault \/ q.name \in q.snap.has),
         q.step = "create" => q.snap.key \in AtHand'
  PROVE  DaemonTyped' /\ InMemory' /\ RequestsHold'
<1>1. req'[r] = q /\ \A p \in Requests \ {r} : req'[p] = req[p]
  BY DEF DaemonTyped
<1>2. /\ Len(vaults) \in Nat /\ Len(vaults') \in Nat /\ DOMAIN vaults = 1..Len(vaults)
      /\ DOMAIN vaults' = 1..Len(vaults')
  BY DEF DaemonTyped
<1>3. DOMAIN vaults \subseteq DOMAIN vaults' /\ \A n \in 0..Len(vaults) : n \in 0..Len(vaults')
  BY <1>2
<1>4. DaemonTyped'
  <2>1. req' \in [Requests -> ReqRecords]
    BY DEF DaemonTyped
  <2>2. \A p \in Requests : req'[p].vault \in 0..Len(vaults')
    BY <1>1, <1>3 DEF DaemonTyped
  <2>3. QED BY <2>1, <2>2 DEF DaemonTyped
<1>5. InMemory'
  <2>1. \A i \in DOMAIN vaults' : vaults'[i].key \in AtHand'
    BY <1>3 DEF InMemory
  <2>2. \A p \in Requests : req'[p].snap = NoVault \/ req'[p].snap.key \in AtHand'
    BY <1>1 DEF InMemory
  <2>3. QED BY <2>1, <2>2 DEF InMemory, NoVault
<1>6. RequestsHold'
  <2> SUFFICES ASSUME NEW p \in Requests PROVE RequestHolds(req[p])'
    BY DEF RequestsHold
  <2>1. CASE p = r
    BY <1>1, <2>1 DEF RequestHolds, NoVault
  <2>2. CASE p # r
    BY <1>1, <1>3, <2>2 DEF RequestsHold, RequestHolds, NoVault
  <2>3. QED BY <2>1, <2>2
<1>7. QED BY <1>4, <1>5, <1>6

\* A command that is beside a running daemon is `vault set`, and keeps what it has.
LEMMA CommandBeside ==
  ASSUME CommandHolds, up, UNCHANGED <<cmd, up>>, AtHand \subseteq AtHand'
  PROVE  CommandHolds'
BY DEF CommandHolds

\* The file stays, and nobody loses a key.
LEMMA FileStays ==
  ASSUME Readable, InPlace, FileTyped, UNCHANGED <<sealed, backup, keyFile, overtaken>>, stored' \subseteq stored,
         keysKnown \subseteq keysKnown', keysKnown' \subseteq MasterKeys
  PROVE  Readable' /\ InPlace' /\ FileTyped' /\ AtHand \subseteq AtHand'
BY DEF Readable, Copied, InPlace, FileTyped, AtHand

\* A request that changes nothing but itself, and what it has under way.
LEMMA RequestMoves ==
  ASSUME VaultInv, up, NEW r \in Requests, NEW q \in ReqRecords, req' = [req EXCEPT ![r] = q],
         UNCHANGED <<sealed, fileVars, up, vaults, cmd, overtaken>>, stored' \subseteq stored,
         daemon' \in {daemon, q.vault, req[r].vault}, q.vault \in 0..Len(vaults),
         q.snap = NoVault \/ q.snap.key \in AtHand,
         q.step \in {"put", "delete", "unlock"} => q.vault \in DOMAIN vaults,
         q.step \in {"put", "delete"} => q.name \in Secrets,
         q.step = "put" => q.name \in vaults[q.vault].has /\ (q.snap = NoVault \/ q.name \in q.snap.has),
         q.step = "create" => q.snap.key \in AtHand
  PROVE  VaultInv'
<1>1. FileTyped /\ DaemonTyped /\ cmd \in CmdRecords /\ InMemory /\ RequestsHold /\ CommandHolds /\ Readable /\ InPlace
  BY DEF VaultInv, VaultTyped
<1>2. Readable' /\ InPlace' /\ FileTyped' /\ AtHand' = AtHand
  BY <1>1, FileStays DEF fileVars, FileTyped, AtHand
<1>3. CommandHolds'
  BY <1>1, <1>2, CommandBeside
<1>4. vaults' \in Seq(Copies) /\ Len(vaults') >= Len(vaults) /\ daemon' \in 0..Len(vaults')
  BY <1>1 DEF DaemonTyped
<1>5. \A p \in Requests \ {r} : req[p].step = "put" => req[p].name \in vaults'[req[p].vault].has
  BY <1>1 DEF RequestsHold, RequestHolds
<1>6. DaemonTyped' /\ InMemory' /\ RequestsHold'
  BY <1>1, <1>2, <1>4, <1>5, OneRequest
<1>7. QED BY <1>1, <1>2, <1>3, <1>6 DEF VaultInv, VaultTyped

\* A request that is under way is one of a running daemon.
LEMMA ServedIsUp ==
  ASSUME VaultInv, NEW r \in Requests, req[r].step # "idle"
  PROVE  up /\ req[r] \in ReqRecords /\ req[r].vault \in 0..Len(vaults) /\ RequestHolds(req[r])
BY DEF VaultInv, VaultTyped, DaemonTyped, InMemory, NoRequest, RequestsHold

\* The steps of a request that leave the file and the vaults in memory alone.
LEMMA QuietSteps ==
  ASSUME VaultInv, NEW r \in Requests, Snapshot(r) \/ SaveFails(r) \/ CreateVault(r) \/ Swap(r)
  PROVE  VaultInv'
<1>1. req[r].step # "idle"
  BY DEF Snapshot, SaveFails, CreateVault, Swap
<1>2. up /\ req[r] \in ReqRecords /\ req[r].vault \in 0..Len(vaults) /\ RequestHolds(req[r])
  BY <1>1, ServedIsUp
<1>3. /\ vaults \in Seq(Copies) /\ DOMAIN vaults = 1..Len(vaults) /\ req \in [Requests -> ReqRecords]
      /\ Len(vaults) \in Nat /\ \A i \in DOMAIN vaults : vaults[i].key \in AtHand /\ vaults[i] \in Copies
  BY DEF VaultInv, VaultTyped, DaemonTyped, InMemory
<1>4. CASE Snapshot(r)
  <2> DEFINE q == [req[r] EXCEPT !.snap = vaults[req[r].vault]]
  <2>1. req' = [req EXCEPT ![r] = q] /\ UNCHANGED <<sealed, fileVars, daemon, up, vaults, cmd, stored, overtaken>>
    BY <1>3, <1>4 DEF Snapshot
  <2>2. req[r].step \in {"put", "delete"} /\ req[r].vault \in DOMAIN vaults
    BY <1>2, <1>4 DEF Snapshot, RequestHolds
  <2>3. /\ q \in ReqRecords /\ q.step = req[r].step /\ q.vault = req[r].vault /\ q.name = req[r].name
        /\ q.snap = vaults[req[r].vault]
    BY <1>2, <1>3, <2>2 DEF ReqRecords
  <2>4. QED
    <3> HIDE DEF q
    <3>1. QED BY <1>2, <1>3, <2>1, <2>2, <2>3, RequestMoves DEF RequestHolds
<1>5. NoRequest \in ReqRecords /\ NoRequest.step = "idle" /\ NoRequest.snap = NoVault /\ NoRequest.vault = 0
      /\ 0 \in 0..Len(vaults)
  BY <1>3 DEF NoRequest, ReqRecords, NoVault, Copies
<1>6. CASE SaveFails(r) \/ Swap(r)
  <2>1. /\ req' = [req EXCEPT ![r] = NoRequest] /\ daemon' \in {daemon, req[r].vault}
        /\ UNCHANGED <<sealed, fileVars, up, vaults, cmd, stored, overtaken>>
    BY <1>6 DEF SaveFails, Swap
  <2>2. QED BY <1>2, <1>5, <2>1, RequestMoves
<1>7. CASE CreateVault(r)
  <2>1. req[r].step = "unlock" /\ req[r].vault \in DOMAIN vaults
        /\ UNCHANGED <<sealed, fileVars, daemon, up, vaults, cmd, stored, overtaken>>
    BY <1>2, <1>7 DEF CreateVault, RequestHolds
  <2> DEFINE step == IF sealed = NoVault THEN "create" ELSE "swap"
             snap == IF sealed = NoVault THEN vaults[req[r].vault] ELSE NoVault
             q == [req[r] EXCEPT !.step = step, !.snap = snap]
  <2>2. req' = [req EXCEPT ![r] = q]
    BY <1>2, <1>3, <1>7 DEF CreateVault, ReqRecords
  <2>3. snap \in Copies /\ (snap = NoVault \/ snap.key \in AtHand) /\ (step = "create" => snap.key \in AtHand)
        /\ step \in {"create", "swap"}
    BY <1>3, <2>1 DEF NoVault, Copies
  <2>4. q \in ReqRecords /\ q.step = step /\ q.snap = snap /\ q.vault = req[r].vault
    <3> HIDE DEF step, snap
    <3>1. QED BY <1>2, <2>3 DEF ReqRecords
  <2>5. QED
    <3> HIDE DEF q, step, snap
    <3>1. QED BY <1>2, <2>1, <2>2, <2>3, <2>4, RequestMoves
<1>8. QED BY <1>4, <1>6, <1>7

\* No request is a request.
LEMMA NoRequestTyped == NoRequest \in ReqRecords /\ NoRequest.snap = NoVault /\ NoVault \in Copies
BY DEF NoRequest, ReqRecords, NoVault, Copies

\* A secret is put in memory, or taken out of it.
LEMMA MemoryChanges ==
  ASSUME VaultInv, NEW r \in Requests, NEW n \in Secrets, Serves(r, n), NEW has \in SUBSET Secrets,
         vaults' = [vaults EXCEPT ![daemon].has = has], vaults[daemon].has \ {n} \subseteq has,
         NEW step \in {"put", "delete"}, step = "put" => n \in has,
         req' = [req EXCEPT ![r] = [NoRequest EXCEPT !.step = step, !.vault = daemon, !.name = n, !.left = 2]],
         stored' \subseteq stored, UNCHANGED <<sealed, fileVars, daemon, up, cmd, overtaken>>
  PROVE  VaultInv'
<1>1. FileTyped /\ DaemonTyped /\ cmd \in CmdRecords /\ InMemory /\ RequestsHold /\ CommandHolds /\ Readable /\ InPlace
  BY DEF VaultInv, VaultTyped
<1>2. Readable' /\ InPlace' /\ FileTyped' /\ AtHand' = AtHand
  BY <1>1, FileStays DEF fileVars, FileTyped, AtHand
<1>3. up /\ CommandHolds'
  BY <1>1, <1>2, CommandBeside DEF Serves
<1>4. /\ vaults \in Seq(Copies) /\ DOMAIN vaults = 1..Len(vaults) /\ daemon \in DOMAIN vaults
      /\ Len(vaults) \in Nat
  BY <1>1 DEF DaemonTyped, Serves
<1>5. vaults[daemon] \in Copies /\ [vaults[daemon] EXCEPT !.has = has] \in Copies
  <2>1. vaults[daemon] \in Copies
    BY <1>4
  <2>2. QED BY <2>1 DEF Copies
<1>6. vaults' \in Seq(Copies) /\ Len(vaults') = Len(vaults) /\ DOMAIN vaults' = DOMAIN vaults
  BY <1>4, <1>5
<1>7. \A i \in DOMAIN vaults : vaults'[i].key = vaults[i].key /\ vaults[i].has \ {n} \subseteq vaults'[i].has
  BY <1>4, <1>5 DEF Copies
<1>8. vaults'[daemon].has = has
  BY <1>4, <1>5 DEF Copies
<1>9. \A p \in Requests \ {r} : req[p].step = "put" => req[p].name \in vaults'[req[p].vault].has
  BY <1>1, <1>7 DEF RequestsHold, RequestHolds, Serves
<1> DEFINE q == [NoRequest EXCEPT !.step = step, !.vault = daemon, !.name = n, !.left = 2]
<1>10. /\ q \in ReqRecords /\ q.step = step /\ q.vault = daemon /\ q.name = n /\ q.snap = NoVault
  <2>1. daemon \in Nat /\ 2 \in 0..2
    BY <1>4
  <2>2. step \in {"put", "delete"} /\ n \in Secrets
    OBVIOUS
  <2>3. QED BY ONLY <2>1, <2>2, NoRequestTyped DEF ReqRecords
<1>11. req' = [req EXCEPT ![r] = q] /\ daemon' \in 0..Len(vaults')
  BY <1>4, <1>6
<1>12. DaemonTyped' /\ InMemory' /\ RequestsHold'
  <2> HIDE DEF q
  <2>1. \A i \in DOMAIN vaults' \ DOMAIN vaults : vaults'[i].key \in AtHand'
    BY <1>6
  <2>2. q.vault \in DOMAIN vaults' /\ q.vault \in 0..Len(vaults') /\ q.snap = NoVault /\ q.name \in Secrets
        /\ (q.step = "put" => q.name \in vaults'[q.vault].has) /\ q.step # "create"
    BY <1>4, <1>6, <1>8, <1>10
  <2>3. /\ vaults' \in Seq(Copies) /\ Len(vaults') >= Len(vaults) /\ AtHand \subseteq AtHand'
        /\ daemon' \in 0..Len(vaults') /\ UNCHANGED up /\ q \in ReqRecords
        /\ \A i \in DOMAIN vaults : vaults'[i].key = vaults[i].key
    BY <1>2, <1>4, <1>6, <1>7, <1>10, <1>11
  <2>4. QED BY <1>1, <1>3, <1>9, <1>11, <2>1, <2>2, <2>3, OneRequest
<1>13. QED BY <1>1, <1>2, <1>3, <1>12 DEF VaultInv, VaultTyped

\* A request that stores or deletes a secret has its copy before it writes.
LEMMA PutKeeps ==
  ASSUME VaultInv, NEW r \in Requests, NEW n \in Secrets, Put(r, n) \/ RemoveSecret(r, n)
  PROVE  VaultInv'
<1>1. vaults \in Seq(Copies) /\ daemon \in 0..Len(vaults)
  BY DEF VaultInv, VaultTyped, DaemonTyped
<1>2. Serves(r, n) /\ vaults[daemon] \in Copies /\ vaults[daemon].has \in SUBSET Secrets
  <2>1. Serves(r, n) /\ daemon # 0
    BY DEF Put, RemoveSecret, Serves
  <2>2. vaults[daemon] \in Copies
    BY <1>1, <2>1
  <2>3. QED BY <2>1, <2>2 DEF Copies
<1>3. CASE Put(r, n)
  <2>1. vaults[daemon].has \cup {n} \in SUBSET Secrets
    BY <1>2
  <2>2. vaults' = [vaults EXCEPT ![daemon].has = vaults[daemon].has \cup {n}]
    BY <1>3 DEF Put
  <2>3. /\ req' = [req EXCEPT ![r] = [NoRequest EXCEPT !.step = "put", !.vault = daemon, !.name = n, !.left = 2]]
        /\ UNCHANGED <<sealed, fileVars, daemon, up, cmd, stored, overtaken>>
    BY <1>3 DEF Put
  <2>4. QED BY <1>2, <2>1, <2>2, <2>3, MemoryChanges
<1>4. CASE RemoveSecret(r, n)
  <2>1. vaults[daemon].has \ {n} \in SUBSET Secrets
    BY <1>2
  <2>2. vaults' = [vaults EXCEPT ![daemon].has = vaults[daemon].has \ {n}]
    BY <1>4 DEF RemoveSecret
  <2>3. /\ req' = [req EXCEPT ![r] = [NoRequest EXCEPT !.step = "delete", !.vault = daemon, !.name = n, !.left = 2]]
        /\ stored' \subseteq stored /\ UNCHANGED <<sealed, fileVars, daemon, up, cmd, overtaken>>
    BY <1>4 DEF RemoveSecret
  <2>4. QED BY <1>2, <2>1, <2>2, <2>3, MemoryChanges
<1>5. QED BY <1>3, <1>4

\* A vault is opened with a key somebody has or thinks of.
LEMMA UnlockKeeps ==
  ASSUME VaultInv, NEW r \in Requests, NEW k \in MasterKeys, Unlock(r, k)
  PROVE  VaultInv'
<1>1. FileTyped /\ DaemonTyped /\ cmd \in CmdRecords /\ InMemory /\ RequestsHold /\ CommandHolds /\ Readable /\ InPlace
  BY DEF VaultInv, VaultTyped
<1>2. /\ up /\ keysKnown' = keysKnown \cup {k} /\ vaults' = Append(vaults, OpenWith(k))
      /\ UNCHANGED <<sealed, backup, keyFile, fromFile, daemon, up, cmd, stored, overtaken>>
      /\ req' = [req EXCEPT ![r] = [NoRequest EXCEPT !.step = "unlock", !.vault = Len(vaults) + 1]]
  BY DEF Unlock
<1>3. Readable' /\ InPlace' /\ FileTyped' /\ AtHand \subseteq AtHand' /\ k \in AtHand'
  BY <1>1, <1>2, FileStays DEF FileTyped, AtHand
<1>4. CommandHolds'
  BY <1>1, <1>2, <1>3, CommandBeside
<1>5. OpenWith(k) \in Copies /\ OpenWith(k).key = k
  BY <1>1 DEF OpenWith, Copies, FileTyped
<1>6. vaults \in Seq(Copies) /\ Len(vaults) \in Nat /\ DOMAIN vaults = 1..Len(vaults)
  BY <1>1 DEF DaemonTyped
<1>7. /\ vaults' \in Seq(Copies) /\ Len(vaults') = Len(vaults) + 1 /\ DOMAIN vaults' = 1..(Len(vaults) + 1)
      /\ \A i \in DOMAIN vaults : vaults'[i] = vaults[i]
      /\ vaults'[Len(vaults) + 1] = OpenWith(k)
  BY <1>2, <1>5, <1>6
<1> DEFINE q == [NoRequest EXCEPT !.step = "unlock", !.vault = Len(vaults) + 1]
<1>8. q \in ReqRecords /\ q.step = "unlock" /\ q.vault = Len(vaults) + 1 /\ q.snap = NoVault
  <2>1. Len(vaults) + 1 \in Nat
    BY <1>6
  <2>2. \A v \in Nat : LET p == [NoRequest EXCEPT !.step = "unlock", !.vault = v]
                       IN  p \in ReqRecords /\ p.step = "unlock" /\ p.vault = v /\ p.snap = NoVault
    BY NoRequestTyped DEF ReqRecords
  <2>3. QED BY <2>1, <2>2
<1>9. DaemonTyped' /\ InMemory' /\ RequestsHold'
  <2>1. req' = [req EXCEPT ![r] = q]
    BY <1>2
  <2> HIDE DEF q
  <2>2. \A i \in DOMAIN vaults' \ DOMAIN vaults : vaults'[i].key \in AtHand'
    BY <1>3, <1>5, <1>6, <1>7
  <2>3. daemon' \in 0..Len(vaults') /\ q.vault \in DOMAIN vaults' /\ q.vault \in 0..Len(vaults')
        /\ Len(vaults') >= Len(vaults)
    BY <1>1, <1>2, <1>6, <1>7, <1>8 DEF DaemonTyped
  <2>4. \A p \in Requests \ {r} : req[p].step = "put" => req[p].name \in vaults'[req[p].vault].has
    BY <1>1, <1>7 DEF RequestsHold, RequestHolds
  <2>5. q \in ReqRecords /\ q.snap = NoVault /\ q.step \notin {"put", "delete", "create"}
    BY <1>8
  <2>6. /\ vaults' \in Seq(Copies) /\ daemon' \in 0..Len(vaults') /\ Len(vaults') >= Len(vaults)
        /\ q.vault \in 0..Len(vaults') /\ q.vault \in DOMAIN vaults' /\ AtHand \subseteq AtHand'
        /\ UNCHANGED up /\ up /\ \A i \in DOMAIN vaults : vaults'[i].key = vaults[i].key
    BY <1>2, <1>3, <1>7, <2>3
  <2>7. QED
    <3> HIDE DEF NoVault
    <3>1. QED BY ONLY <1>1, <2>1, <2>2, <2>4, <2>5, <2>6, r \in Requests, OneRequest
<1>10. QED BY <1>1, <1>2, <1>3, <1>4, <1>9 DEF VaultInv, VaultTyped

\* A request's snapshot becomes the file.
LEMMA SaveKeeps ==
  ASSUME VaultInv, NEW r \in Requests, SaveRequest(r) \/ SaveNew(r)
  PROVE  VaultInv'
<1>1. FileTyped /\ DaemonTyped /\ cmd \in CmdRecords /\ InMemory /\ RequestsHold /\ CommandHolds /\ Readable /\ InPlace
  BY DEF VaultInv, VaultTyped
<1>2. req[r].step # "idle" /\ Install(req[r].snap) /\ UNCHANGED <<fileVars, daemon, up, vaults, cmd>>
  BY DEF SaveRequest, SaveNew
<1>3. up /\ req[r] \in ReqRecords /\ req[r].vault \in 0..Len(vaults) /\ RequestHolds(req[r])
  BY <1>2, ServedIsUp
<1>4. req[r].snap \in Copies /\ req[r].snap.key \in AtHand
  BY <1>1, <1>3 DEF SaveRequest, SaveNew, InMemory, RequestHolds, ReqRecords
<1>5. AtHand' = AtHand
  BY <1>2 DEF fileVars, AtHand
<1>6. stored' \ stored \subseteq req[r].snap.has /\ stored' \subseteq Secrets
  BY <1>1, <1>3 DEF SaveRequest, SaveNew, RequestHolds, FileTyped
<1>7. InPlace' /\ FileTyped'
  BY <1>1, <1>2, <1>4, <1>6, InstallInPlace DEF fileVars, FileTyped
<1>8. Readable'
  BY <1>2, <1>4, <1>5 DEF Readable, Install
<1>9. CommandHolds'
  BY <1>1, <1>2, <1>3, <1>5, CommandBeside
<1>10. PICK q \in ReqRecords : /\ req' = [req EXCEPT ![r] = q] /\ q.vault \in 0..Len(vaults) /\ q.snap = NoVault
                               /\ q.step \in {"put", "delete"} => q = [req[r] EXCEPT !.left = 1, !.snap = NoVault]
                               /\ q.step \in {"put", "delete", "idle", "swap"}
  <2>1. NoRequest \in ReqRecords /\ NoRequest.vault = 0 /\ NoRequest.snap = NoVault /\ NoRequest.step = "idle"
        /\ NoVault \in Copies /\ 0 \in 0..Len(vaults)
    BY <1>1 DEF NoRequest, ReqRecords, NoVault, Copies, DaemonTyped
  <2>2. CASE SaveNew(r)
    <3> DEFINE q == [req[r] EXCEPT !.step = "swap", !.snap = NoVault]
    <3>1. req' = [req EXCEPT ![r] = q]
      BY <1>1, <1>3, <2>2 DEF SaveNew, DaemonTyped, ReqRecords
    <3>2. q \in ReqRecords /\ q.step = "swap" /\ q.snap = NoVault /\ q.vault = req[r].vault
      BY <1>3, <2>1 DEF ReqRecords
    <3> HIDE DEF q
    <3>3. QED BY <1>3, <3>1, <3>2
  <2>3. CASE SaveRequest(r) /\ req[r].left = 2
    <3> DEFINE q == [req[r] EXCEPT !.left = 1, !.snap = NoVault]
    <3>1. req' = [req EXCEPT ![r] = q] /\ req[r].step \in {"put", "delete"}
      BY <1>1, <1>3, <2>3 DEF SaveRequest, DaemonTyped, ReqRecords
    <3>2. q \in ReqRecords /\ q.step = req[r].step /\ q.snap = NoVault /\ q.vault = req[r].vault
      BY <1>3, <2>1, 1 \in 0..2 DEF ReqRecords
    <3>3. QED
      <4> HIDE DEF q
      <4>1. \A p \in ReqRecords : p = q => p = [req[r] EXCEPT !.left = 1, !.snap = NoVault]
        BY DEF q
      <4>2. QED BY <1>3, <3>1, <3>2, <4>1
  <2>4. CASE SaveRequest(r) /\ req[r].left # 2
    <3>1. req' = [req EXCEPT ![r] = NoRequest]
      BY <2>4 DEF SaveRequest
    <3>2. QED BY <2>1, <3>1
  <2>5. QED BY <2>2, <2>3, <2>4
<1>11. q.step \in {"put", "delete"} => q.step = req[r].step /\ q.vault = req[r].vault /\ q.name = req[r].name
  BY <1>3, <1>10 DEF ReqRecords
<1>12. DaemonTyped' /\ InMemory' /\ RequestsHold'
  <2>1. vaults' \in Seq(Copies) /\ Len(vaults') >= Len(vaults) /\ daemon' \in 0..Len(vaults')
    BY <1>1, <1>2 DEF DaemonTyped
  <2>2. \A p \in Requests \ {r} : req[p].step = "put" => req[p].name \in vaults'[req[p].vault].has
    BY <1>1, <1>2 DEF RequestsHold, RequestHolds
  <2>3. /\ q.step \in {"put", "delete", "unlock"} => q.vault \in DOMAIN vaults'
        /\ q.step \in {"put", "delete"} => q.name \in Secrets
        /\ q.step = "put" => q.name \in vaults'[q.vault].has
        /\ q.step # "create"
    BY <1>2, <1>3, <1>10, <1>11 DEF RequestHolds
  <2>4. QED BY <1>1, <1>2, <1>3, <1>5, <1>10, <2>1, <2>2, <2>3, OneRequest
<1>13. QED BY <1>1, <1>2, <1>7, <1>8, <1>9, <1>12 DEF VaultInv, VaultTyped

\* What the invariant says of a daemon that is down or stops.
LEMMA DownHolds ==
  ASSUME vaults' = <<>>, daemon' = 0, up' \in BOOLEAN, req' = [r \in Requests |-> NoRequest]
  PROVE  DaemonTyped' /\ InMemory' /\ RequestsHold'
<1>1. vaults' \in Seq(Copies) /\ Len(vaults') = 0 /\ DOMAIN vaults' = {}
  OBVIOUS
<1>2. \A r \in Requests : req'[r] = NoRequest
  OBVIOUS
<1>3. NoRequest.step = "idle" /\ NoRequest.vault = 0
  BY DEF NoRequest
<1>4. DaemonTyped'
  BY <1>1, <1>2, <1>3, NoRequestTyped DEF DaemonTyped
<1>5. InMemory'
  BY <1>1, <1>2, NoRequestTyped DEF InMemory, NoVault
<1>6. RequestsHold'
  BY <1>2, <1>3 DEF RequestsHold, RequestHolds
<1>7. QED BY <1>4, <1>5, <1>6

\* A start opens the file with the key its source has, or waits to be unlocked.
LEMMA StartKeeps ==
  ASSUME VaultInv, Start \/ StopDaemon
  PROVE  VaultInv'
<1>1. FileTyped /\ DaemonTyped /\ cmd \in CmdRecords /\ InMemory /\ RequestsHold /\ CommandHolds /\ Readable /\ InPlace
  BY DEF VaultInv, VaultTyped
<1>2. UNCHANGED <<sealed, fileVars, cmd, stored, overtaken>>
  BY DEF Start, StopDaemon
<1>3. Readable' /\ InPlace' /\ FileTyped' /\ AtHand' = AtHand
  BY <1>1, <1>2, FileStays DEF fileVars, FileTyped, AtHand
<1>4. CASE StopDaemon
  <2>1. DaemonTyped' /\ InMemory' /\ RequestsHold'
    <3>1. FALSE \in BOOLEAN
      OBVIOUS
    <3>2. up' \in BOOLEAN
      BY <1>4, <3>1, Zenon DEF StopDaemon
    <3>3. QED BY <1>4, <3>2, DownHolds DEF StopDaemon
  <2>2. CommandHolds'
    BY <1>1, <1>2, <1>3, <1>4 DEF CommandHolds, StopDaemon, Copied, fileVars
  <2>3. QED BY <1>1, <1>2, <1>3, <2>1, <2>2 DEF VaultInv, VaultTyped
<1>5. CASE Start
  <2>1. up' \in BOOLEAN
    <3>1. TRUE \in BOOLEAN
      OBVIOUS
    <3>2. QED BY <1>5, <3>1, Zenon DEF Start
  <2>2. CommandHolds'
    BY <1>1, <1>2, <1>3, <1>5 DEF CommandHolds, Start
  <2>3. vaults = <<>> /\ (\A r \in Requests : req[r] = NoRequest) /\ UNCHANGED req
    BY <1>1, <1>5 DEF Start, InMemory
  <2>4. req' = [r \in Requests |-> NoRequest]
    BY <1>1, <2>3 DEF DaemonTyped
  <2>5. CASE UNCHANGED vaults /\ daemon' = 0
    <3>1. DaemonTyped' /\ InMemory' /\ RequestsHold'
      BY <2>1, <2>3, <2>4, <2>5, DownHolds
    <3>2. QED BY <1>1, <1>2, <1>3, <2>2, <3>1 DEF VaultInv, VaultTyped
  <2>6. ASSUME NEW k \in Resolved, vaults' = Append(vaults, OpenWith(k)), daemon' = Len(vaults) + 1
        PROVE  VaultInv'
    <3>1. k \in AtHand /\ k \in MasterKeys /\ OpenWith(k) \in Copies /\ OpenWith(k).key = k
      BY <1>1, <2>6 DEF Resolved, AtHand, OpenWith, Copies, FileTyped
    <3>2. /\ vaults' \in Seq(Copies) /\ Len(vaults') = 1 /\ DOMAIN vaults' = {1} /\ vaults'[1] = OpenWith(k)
          /\ daemon' = 1
      BY <2>3, <2>6, <3>1
    <3>3. NoRequest.step = "idle" /\ NoRequest.vault = 0 /\ \A r \in Requests : req'[r] = NoRequest
      BY <2>4 DEF NoRequest
    <3>4. DaemonTyped'
      BY <2>1, <2>4, <3>2, <3>3, NoRequestTyped DEF DaemonTyped
    <3>5. InMemory'
      BY <1>3, <1>5, <3>1, <3>2, <3>3, NoRequestTyped DEF InMemory, Start, NoVault
    <3>6. RequestsHold'
      BY <3>3 DEF RequestsHold, RequestHolds
    <3>7. QED BY <1>1, <1>2, <1>3, <2>2, <3>4, <3>5, <3>6 DEF VaultInv, VaultTyped
  <2>7. QED BY <1>5, <2>5, <2>6 DEF Start
<1>6. QED BY <1>4, <1>5

\* A step of a command leaves what the daemon has in memory, under keys that stay at hand
\* or with nothing in memory.
LEMMA CommandOnly ==
  ASSUME VaultInv, UNCHANGED <<daemon, up, vaults, req>>, AtHand \subseteq AtHand' \/ ~up
  PROVE  DaemonTyped' /\ InMemory' /\ RequestsHold'
<1>1. DaemonTyped /\ InMemory /\ RequestsHold
  BY DEF VaultInv, VaultTyped
<1>2. DaemonTyped'
  BY <1>1 DEF DaemonTyped
<1>3. CASE AtHand \subseteq AtHand'
  BY <1>1, <1>2, <1>3 DEF InMemory, RequestsHold, RequestHolds, NoVault, NoRequest
<1>4. CASE ~up
  <2>1. vaults = <<>> /\ \A r \in Requests : req[r] = NoRequest
    BY <1>1, <1>4 DEF InMemory
  <2>2. DOMAIN vaults' = {} /\ (\A r \in Requests : req'[r] = NoRequest) /\ NoRequest.step = "idle"
    BY <2>1 DEF NoRequest
  <2>3. InMemory' /\ RequestsHold'
    BY <2>1, <2>2, NoRequestTyped DEF InMemory, RequestsHold, RequestHolds, NoVault
  <2>4. QED BY <1>2, <2>3
<1>5. QED BY <1>1, <1>3, <1>4 DEF VaultInv

\* keygen and vault set.
LEMMA KeygenKeeps ==
  ASSUME VaultInv, NEW k \in MasterKeys, Keygen(k)
  PROVE  VaultInv'
<1>1. FileTyped /\ DaemonTyped /\ cmd \in CmdRecords /\ CommandHolds /\ Readable /\ InPlace
  BY DEF VaultInv, VaultTyped
<1>2. /\ cmd.step = "idle" /\ keyFile = "none" /\ keyFile' = k
      /\ UNCHANGED <<sealed, backup, fromFile, keysKnown, daemon, up, vaults, req, cmd, stored, overtaken>>
  BY DEF Keygen
<1>3. AtHand \subseteq AtHand' /\ FileTyped'
  BY <1>1, <1>2 DEF AtHand, FileTyped
<1>4. Readable' /\ InPlace' /\ CommandHolds'
  BY <1>1, <1>2, <1>3 DEF Readable, Copied, InPlace, CommandHolds
<1>5. QED BY <1>1, <1>2, <1>3, <1>4, CommandOnly DEF VaultInv, VaultTyped

\* `vault set` reads and writes while the daemon is down.
LEMMA SetKeeps ==
  ASSUME VaultInv, SetSave \/ \E n \in Secrets : SetOpen(n)
  PROVE  VaultInv'
<1>1. FileTyped /\ DaemonTyped /\ cmd \in CmdRecords /\ CommandHolds /\ Readable /\ InPlace
  BY DEF VaultInv, VaultTyped
<1>2. CASE SetSave
  <2>1. /\ cmd.step = "set" /\ Install(cmd.copy) /\ cmd' = NoCommand /\ stored' = stored \cup {cmd.arg}
        /\ UNCHANGED <<fileVars, daemon, up, vaults, req>>
    BY <1>2 DEF SetSave
  <2>2. cmd.copy \in Copies /\ cmd.copy.key \in AtHand /\ cmd.arg \in cmd.copy.has /\ cmd.arg \in Secrets
    BY <1>1, <2>1 DEF CmdRecords, CommandHolds
  <2>3. InPlace' /\ FileTyped' /\ AtHand' = AtHand
    BY <1>1, <2>1, <2>2, InstallInPlace DEF FileTyped, fileVars, AtHand
  <2>4. Readable'
    BY <2>1, <2>2, <2>3 DEF Readable, Install
  <2>5. cmd' \in CmdRecords /\ CommandHolds'
    BY <2>1, NoRequestTyped DEF NoCommand, CmdRecords, CommandHolds
  <2>6. QED BY <2>1, <2>3, <2>4, <2>5, CommandOnly DEF VaultInv, VaultTyped
<1>3. CASE \E n \in Secrets : SetOpen(n)
  <2>1. PICK n \in Secrets : SetOpen(n)
    BY <1>3
  <2>2. PICK k \in IF fromFile THEN Resolved ELSE {j \in MasterKeys : Typed(j)} :
          /\ cmd' = [step |-> "set", copy |-> [OpenWith(k) EXCEPT !.has = @ \cup {n}], arg |-> n]
          /\ keysKnown' = IF fromFile THEN keysKnown ELSE keysKnown \cup {k}
    BY <2>1 DEF SetOpen
  <2>3. UNCHANGED <<sealed, backup, keyFile, fromFile, daemon, up, vaults, req, stored, overtaken>>
    BY <2>1 DEF SetOpen
  <2>4. k \in AtHand' /\ k \in MasterKeys /\ AtHand \subseteq AtHand' /\ FileTyped'
    BY <1>1, <2>2, <2>3 DEF Resolved, AtHand, FileTyped
  <2>5. Readable' /\ InPlace'
    BY <1>1, <2>3, <2>4 DEF Readable, Copied, InPlace
  <2>6. /\ [OpenWith(k) EXCEPT !.has = @ \cup {n}] \in Copies /\ [OpenWith(k) EXCEPT !.has = @ \cup {n}].key = k
        /\ n \in [OpenWith(k) EXCEPT !.has = @ \cup {n}].has
    BY <1>1, <2>4 DEF OpenWith, Copies, FileTyped
  <2>7. cmd' \in CmdRecords /\ cmd'.step = "set" /\ cmd'.copy.key = k /\ n \in cmd'.copy.has /\ cmd'.arg = n
    BY <2>2, <2>6 DEF CmdRecords
  <2>8. CommandHolds'
    BY <2>4, <2>7 DEF CommandHolds
  <2>9. QED BY <2>3, <2>4, <2>5, <2>7, <2>8, CommandOnly DEF VaultInv, VaultTyped
<1>4. QED BY <1>2, <1>3

\* The rekey, a command that ends on the way, and the restoring of its copy.
LEMMA RekeyKeeps ==
  ASSUME VaultInv,
         RekeyBackup \/ RekeyEncrypt \/ RekeyInstall \/ CommandEnds \/ Restore \/ \E k \in MasterKeys : RekeyOpen(k)
  PROVE  VaultInv'
<1>1. FileTyped /\ DaemonTyped /\ cmd \in CmdRecords /\ CommandHolds /\ Readable /\ InPlace
  BY DEF VaultInv, VaultTyped
<1>2. UNCHANGED <<daemon, up, vaults, req>>
  BY DEF RekeyBackup, RekeyEncrypt, RekeyInstall, CommandEnds, Restore, RekeyOpen
<1>3. ASSUME AtHand \subseteq AtHand' \/ ~up, FileTyped', cmd' \in CmdRecords, CommandHolds', Readable', InPlace'
      PROVE  VaultInv'
  BY <1>2, <1>3, CommandOnly DEF VaultInv, VaultTyped
<1>4. NoCommand \in CmdRecords /\ NoCommand.step = "idle"
  BY NoRequestTyped DEF NoCommand, CmdRecords
<1>5. CASE \E k \in MasterKeys : RekeyOpen(k)
  <2>1. PICK k \in MasterKeys : RekeyOpen(k)
    BY <1>5
  <2>2. PICK old \in Resolved : Opens(old) /\ cmd' = [step |-> "backup", copy |-> OpenWith(old), arg |-> k]
    BY <2>1 DEF RekeyOpen
  <2>3. /\ ~up /\ keysKnown \subseteq keysKnown' /\ keysKnown' \subseteq MasterKeys
        /\ UNCHANGED <<sealed, backup, keyFile, fromFile, stored, overtaken>>
    BY <1>1, <2>1 DEF RekeyOpen, FileTyped
  <2>4. Readable' /\ InPlace' /\ FileTyped' /\ AtHand \subseteq AtHand'
    BY <1>1, <2>3, FileStays
  <2>5. old \in AtHand /\ OpenWith(old) \in Copies /\ OpenWith(old).has = sealed.has
    BY <1>1, <2>2 DEF Resolved, AtHand, OpenWith, Copies, FileTyped
  <2>6. cmd' \in CmdRecords /\ cmd'.step = "backup" /\ cmd'.copy.has = sealed.has /\ cmd'.arg = k
    BY <2>2, <2>5 DEF CmdRecords
  <2>7. CommandHolds'
    BY <1>2, <2>2, <2>3, <2>4, <2>5, <2>6 DEF CommandHolds, Opens, NoVault
  <2>8. QED BY <1>3, <2>4, <2>6, <2>7
<1>6. CASE RekeyBackup
  <2>1. /\ cmd.step = "backup" /\ cmd' = [cmd EXCEPT !.step = "encrypt"]
        /\ backup' = (IF sealed = NoVault THEN backup ELSE sealed)
        /\ UNCHANGED <<sealed, keyFile, fromFile, keysKnown, stored, overtaken>>
    BY <1>6 DEF RekeyBackup
  <2>2. FileTyped' /\ InPlace' /\ AtHand' = AtHand
    BY <1>1, <2>1 DEF FileTyped, InPlace, AtHand
  <2>3. Copied'
    BY <1>1, <2>1, <2>2 DEF CommandHolds, Copied, NoVault
  <2>4. cmd' \in CmdRecords /\ cmd'.step = "encrypt" /\ cmd'.copy = cmd.copy /\ cmd'.arg = cmd.arg
    BY <1>1, <2>1 DEF CmdRecords
  <2>5. CommandHolds' /\ Readable'
    BY <1>1, <1>2, <2>1, <2>3, <2>4 DEF CommandHolds, Readable
  <2>6. QED BY <1>3, <2>2, <2>4, <2>5
<1>7. CASE RekeyEncrypt
  <2> DEFINE snap == [cmd.copy EXCEPT !.key = cmd.arg]
  <2>1. /\ cmd.step = "encrypt" /\ Install(snap) /\ cmd' = [cmd EXCEPT !.step = "install"]
        /\ UNCHANGED <<fileVars, stored>>
    BY <1>7 DEF RekeyEncrypt
  <2>2. snap \in Copies /\ snap.has = sealed.has /\ snap.key = cmd.arg /\ cmd.arg \in MasterKeys
    BY <1>1, <2>1 DEF CmdRecords, CommandHolds, Copies
  <2>3. InPlace' /\ FileTyped' /\ AtHand' = AtHand /\ sealed' = snap
    <3> HIDE DEF snap
    <3>1. QED BY <1>1, <2>1, <2>2, InstallInPlace DEF FileTyped, fileVars, AtHand, Install
  <2>4. Copied'
    BY <1>1, <2>1, <2>2, <2>3 DEF CommandHolds, Copied, fileVars
  <2>5. cmd' \in CmdRecords /\ cmd'.step = "install" /\ cmd'.arg = cmd.arg
    BY <1>1, <2>1 DEF CmdRecords
  <2>6. CommandHolds' /\ Readable'
    BY <1>1, <1>2, <2>1, <2>2, <2>3, <2>4, <2>5 DEF CommandHolds, Readable
  <2>7. QED BY <1>3, <2>3, <2>5, <2>6
<1>8. CASE RekeyInstall
  <2>1. /\ cmd.step = "install" /\ cmd' = NoCommand /\ UNCHANGED <<sealed, backup, fromFile, stored, overtaken>>
        /\ IF fromFile THEN keyFile' = cmd.arg /\ UNCHANGED keysKnown
                       ELSE keysKnown' = keysKnown \cup {cmd.arg} /\ UNCHANGED keyFile
    BY <1>8 DEF RekeyInstall
  <2>2. ~up /\ cmd.arg \in MasterKeys /\ sealed.key = cmd.arg
    BY <1>1, <2>1 DEF CommandHolds
  <2>3. FileTyped' /\ InPlace'
    BY <1>1, <2>1, <2>2 DEF FileTyped, InPlace
  <2>4. Readable'
    BY <2>1, <2>2, VaultAssumption DEF Readable, AtHand
  <2>5. CommandHolds'
    BY <1>4, <2>1 DEF CommandHolds
  <2>6. QED BY <1>3, <1>4, <2>1, <2>2, <2>3, <2>4, <2>5
<1>9. CASE CommandEnds
  <2>1. cmd' = NoCommand /\ UNCHANGED <<sealed, fileVars, stored, overtaken>>
    BY <1>9 DEF CommandEnds
  <2>2. FileTyped' /\ InPlace' /\ Readable' /\ AtHand' = AtHand
    BY <1>1, <2>1, FileStays DEF fileVars, FileTyped, AtHand
  <2>3. CommandHolds'
    BY <1>4, <2>1 DEF CommandHolds
  <2>4. QED BY <1>3, <1>4, <2>1, <2>2, <2>3
<1>10. CASE Restore
  <2>1. /\ cmd.step = "idle" /\ Install(backup) /\ backup.key \in AtHand
        /\ UNCHANGED <<fileVars, cmd, stored>>
    BY <1>10 DEF Restore
  <2>2. InPlace' /\ FileTyped' /\ AtHand' = AtHand /\ sealed' = backup
    BY <1>1, <2>1, InstallInPlace DEF FileTyped, fileVars, AtHand, Install
  <2>3. Readable' /\ CommandHolds'
    BY <1>1, <2>1, <2>2 DEF Readable, CommandHolds
  <2>4. QED BY <1>1, <1>3, <2>1, <2>2, <2>3
<1>11. QED BY <1>5, <1>6, <1>7, <1>8, <1>9, <1>10

\* The invariant holds of a vault that is not there yet, ...
LEMMA VaultBegins == VaultInit => VaultInv
<1> SUFFICES ASSUME VaultInit PROVE VaultInv
  OBVIOUS
<1>1. /\ sealed = NoVault /\ backup = NoVault /\ keyFile = "none" /\ keysKnown = {} /\ vaults = <<>> /\ daemon = 0
      /\ req = [r \in Requests |-> NoRequest] /\ cmd = NoCommand /\ stored = {} /\ overtaken = {}
  BY DEF VaultInit
<1>2. up \in BOOLEAN /\ ~up
  <2>1. FALSE \in BOOLEAN
    OBVIOUS
  <2>2. QED BY <2>1, Zenon DEF VaultInit
<1>3. FileTyped /\ InPlace
  BY <1>1, NoRequestTyped DEF FileTyped, InPlace
<1>4. NoVault.has = {}
  BY DEF NoVault
<1>5. Readable
  BY <1>1, <1>4 DEF Readable, Copied
<1>6. vaults \in Seq(Copies) /\ Len(vaults) = 0 /\ DOMAIN vaults = {}
  BY <1>1
<1>7. NoRequest.step = "idle" /\ NoRequest.vault = 0 /\ \A r \in Requests : req[r] = NoRequest
  BY <1>1 DEF NoRequest
<1>8. DaemonTyped
  BY <1>1, <1>2, <1>6, <1>7, NoRequestTyped DEF DaemonTyped
<1>9. InMemory /\ RequestsHold
  BY <1>1, <1>6, <1>7, NoRequestTyped DEF InMemory, RequestsHold, RequestHolds
<1>10. cmd \in CmdRecords /\ CommandHolds
  BY <1>1, NoRequestTyped DEF NoCommand, CmdRecords, CommandHolds
<1>11. QED BY <1>3, <1>5, <1>8, <1>9, <1>10 DEF VaultInv, VaultTyped

\* ... and every step keeps it.
LEMMA VaultGoesOn == VaultInv /\ [VaultNext]_vaultVars => VaultInv'
<1> SUFFICES ASSUME VaultInv, [VaultNext]_vaultVars PROVE VaultInv'
  OBVIOUS
<1>1. CASE VaultNext
  <2>1. CASE \E r \in Requests :
               \/ \E n \in Secrets : Put(r, n) \/ RemoveSecret(r, n)
               \/ \E k \in MasterKeys : Unlock(r, k)
               \/ Snapshot(r) \/ SaveRequest(r) \/ SaveFails(r) \/ CreateVault(r) \/ SaveNew(r) \/ Swap(r)
    BY <2>1, PutKeeps, UnlockKeeps, QuietSteps, SaveKeeps
  <2>2. QED BY <1>1, <2>1, StartKeeps, KeygenKeeps, SetKeeps, RekeyKeeps DEF VaultNext
<1>2. CASE UNCHANGED vaultVars
  <2>1. /\ UNCHANGED <<sealed, fileVars, cmd, stored, overtaken>> /\ UNCHANGED <<daemon, up, vaults, req>>
    BY <1>2 DEF vaultVars, fileVars
  <2>2. FileTyped' /\ InPlace' /\ Readable' /\ AtHand' = AtHand
    BY <2>1, FileStays DEF VaultInv, VaultTyped, fileVars, FileTyped, AtHand
  <2>3. CommandHolds'
    BY <2>1, <2>2 DEF VaultInv, CommandHolds, Copied, fileVars
  <2>4. QED BY <2>1, <2>2, <2>3, CommandOnly DEF VaultInv, VaultTyped
<1>3. QED BY <1>1, <1>2

LEMMA VaultInvariant == VaultSpec => []VaultInv
BY VaultBegins, VaultGoesOn, PTL DEF VaultSpec

\* Every variable of the vault has its type (VaultTypeOK).
THEOREM VaultTypeCorrect == VaultSpec => []VaultTypeOK
<1>1. VaultInv => VaultTypeOK
  <2> SUFFICES ASSUME VaultInv PROVE VaultTypeOK
    OBVIOUS
  <2>1. FileTyped /\ DaemonTyped /\ cmd \in CmdRecords
    BY DEF VaultInv, VaultTyped
  <2>2. cmd.copy \in Copies
    BY <2>1 DEF CmdRecords
  <2>3. \A r \in Requests : req[r].snap \in Copies /\ req[r].vault \in 0..Len(vaults)
    BY <2>1 DEF DaemonTyped, ReqRecords
  <2>4. QED BY <2>1, <2>2, <2>3 DEF FileTyped, DaemonTyped, VaultTypeOK
<1>2. QED BY <1>1, VaultInvariant, PTL

\* A stored secret can be read again (SecretsAreReadable), wherever a rekey, a save or a
\* process stopped, for any secrets, keys and requests at one time.
THEOREM SecretsStayReadable == VaultSpec => []SecretsAreReadable
<1>1. VaultInv => SecretsAreReadable
  BY DEF VaultInv, InPlace, Readable, Copied, SecretsAreReadable
<1>2. QED BY <1>1, VaultInvariant, PTL
===============================================================================
