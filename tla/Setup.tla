--------------------------------- MODULE Setup ---------------------------------
(* Which exposer a start builds, and which of the two zrok environment         *)
(* directories it publishes from: the settings the dashboard and the command   *)
(* line record (zrokadmin.go, cmd/docpreview/zrok.go), the directories they    *)
(* enrol and disable (zrokenv.go), and the start that reads both (setup).      *)
EXTENDS FiniteSets, Naturals

CONSTANTS Panels,  \* requests of the dashboard
          Cli,       \* a docpreview zrok command
          EnvIds,    \* environments the zrok service can issue
          OldEnvs,   \* those of a zrok v1 enrolment
          Forms,     \* what an operator fills in on an exposer's form
          MaxSteps,  \* bound: operations begun
          MaxFaults  \* bound: writes that fail

Callers == Panels \cup {Cli}
Scopes == {"system", "project"}
Kinds == {"local", "zrok2", "ziti", "frontdoor"}
Fields == {"identity", "service", "token", "gateway id", "frontend", "env", "agent"}

ASSUME SetupAssumption ==
  /\ Cli \notin Panels /\ OldEnvs \subseteq EnvIds
  /\ "none" \notin EnvIds /\ "half" \notin EnvIds /\ "absent" \notin EnvIds
  /\ Forms \subseteq SUBSET Fields /\ MaxSteps \in Nat /\ MaxFaults \in Nat

VARIABLES
  envOf,     \* what each directory holds: "half" is a token without an environment
  issued,     \* the environments the zrok service has
  scopeSet,  \* setting zrok.scope
  kindSet,   \* setting exposer.kind
  configKind,\* exposer.kind of config.yml
  given,     \* the other exposer settings, from the file or the dashboard
  boot,      \* the daemon: down, read (the choice), up
  choice,    \* the stored choice as this start read it
  inForce,   \* zrokRootChosen
  looker,    \* the root InspectZrokRoots has the library's global on
  apc, target, granted,  \* a caller: its step, the root it loaded, its environment
  lastRoot, chosen,      \* history: root of the last start, a choice recorded since its read
  begun, faults

setupVars == <<envOf, issued, scopeSet, kindSet, configKind, given, boot, choice, inForce, looker,
               apc, target, granted, lastRoot, chosen, begun, faults>>

SetupTypeOK ==
  /\ envOf \in [Scopes -> {"absent", "none", "half"} \cup EnvIds] /\ issued \subseteq EnvIds
  /\ scopeSet \in Scopes \cup {"none"} /\ kindSet \in Kinds \cup {"none"} /\ configKind \in Kinds
  /\ given \subseteq Fields /\ boot \in {"down", "read", "up"}
  /\ choice \in Scopes \cup {"none"} /\ inForce \in Scopes \cup {"none"}
  /\ looker \in Scopes \cup {"none"} /\ (boot = "up" => inForce # "none")
  /\ apc \in [Callers -> {"idle", "registered", "loaded", "asked", "granted", "failed", "enrolled",
                          "disabling", "revoked"}]
  /\ target \in [Callers -> Scopes \cup {"none"}] /\ granted \in [Callers -> {"none", "half"} \cup EnvIds]
  /\ lastRoot \in Scopes \cup {"none"} /\ chosen \in BOOLEAN
  /\ begun \in 0..MaxSteps /\ faults \in 0..MaxFaults

\* The machine may have been enrolled with the zrok CLI long ago.
SetupInit ==
  /\ \E e \in {"absent"} \cup EnvIds :
       envOf = [s \in Scopes |-> IF s = "system" THEN e ELSE "absent"]
       /\ issued = {e} \cap EnvIds
  /\ scopeSet = "none" /\ kindSet = "none" /\ configKind \in {"local", "zrok2"} /\ given = {}
  /\ boot = "down" /\ choice = "none" /\ inForce = "none" /\ looker = "none"
  /\ apc = [q \in Callers |-> "idle"] /\ target = [q \in Callers |-> "none"]
  /\ granted = [q \in Callers |-> "none"]
  /\ lastRoot = "none" /\ chosen = FALSE /\ begun = 0 /\ faults = 0

----------------------------------------------------------------------------
\* A start

\* inspectOneZrokRoot: a token on disk is enough to report the root as enabled.
Enabled(s) == envOf[s] \in {"half"} \cup EnvIds

\* chooseZrokScope
Guess == IF Enabled("system") /\ ~Enabled("project") THEN "system" ELSE "project"

\* Mutant: the one that is enabled is used and not written down.
RecordedNever == FALSE

\* chooseZrokScope: a guess between two is not recorded.
Recorded == Enabled("system") # Enabled("project")

\* applyStoredExposerSettings: a stored value wins over the file.
Kind == IF kindSet = "none" THEN configKind ELSE kindSet

\* buildExposer and Validate of each exposer: what a start fails without. A ziti
\* domain has a default; the default gateway URL of Frontdoor has no id in it.
Starts(kind, root) ==
  CASE kind = "local" -> TRUE
    [] kind = "zrok2" -> envOf[root] \in issued \ OldEnvs
    [] kind = "ziti" -> {"identity", "service"} \subseteq given
    [] kind = "frontdoor" -> {"token", "gateway id", "frontend"} \subseteq given

\* applyZrokScope, first read.
ReadChoice ==
  /\ boot = "down" /\ boot' = "read" /\ choice' = scopeSet
  /\ UNCHANGED <<envOf, issued, scopeSet, kindSet, configKind, given, inForce, looker, apc, target,
                 granted, lastRoot, chosen, begun, faults>>

\* applyZrokScope to the end, then buildExposer and validate: the daemon is up, or it exits.
Adopt ==
  /\ boot = "read"
  /\ LET scope == IF choice # "none" THEN choice ELSE Guess IN
       /\ scopeSet' = IF choice = "none" /\ Recorded THEN scope ELSE scopeSet
       /\ lastRoot' = scope /\ chosen' = (scopeSet # choice)
       /\ IF Starts(Kind, scope) THEN boot' = "up" /\ inForce' = scope
                                 ELSE boot' = "down" /\ inForce' = "none"
  /\ UNCHANGED <<envOf, issued, kindSet, configKind, given, choice, looker, apc, target, granted,
                 begun, faults>>

\* The operator stops or restarts the daemon, or it is killed: its requests go with it.
StopSetup ==
  /\ boot = "up" /\ boot' = "down" /\ inForce' = "none" /\ looker' = "none" /\ choice' = "none"
  /\ apc' = [q \in Callers |-> IF q = Cli THEN apc[q] ELSE "idle"]
  /\ target' = [q \in Callers |-> IF q = Cli THEN target[q] ELSE "none"]
  /\ granted' = [q \in Callers |-> IF q = Cli THEN granted[q] ELSE "none"]
  /\ UNCHANGED <<envOf, issued, scopeSet, kindSet, configKind, given, lastRoot, chosen, begun, faults>>

----------------------------------------------------------------------------
\* Requests and commands

Begins == begun < MaxSteps /\ begun' = begun + 1
MayCall(q) == apc[q] = "idle" /\ (q = Cli \/ boot = "up")

\* useStoredOrProjectZrok for a command, UseZrokRoot of the start for a request.
Scope(q) == IF q # Cli THEN inForce ELSE IF scopeSet = "none" THEN "project" ELSE scopeSet

\* The directory LoadRoot reads: the global of the process, which an inspection
\* under zrokRootMu moves and LoadRoot does not lock.
Loads(q) == IF q # Cli /\ looker # "none" THEN looker ELSE Scope(q)

\* InspectZrokRoots, for the page and for every answer of the panel.
Inspect(s) ==
  /\ boot = "up" /\ envOf[s] # "absent"
  /\ looker = "none" \/ (looker = "system" /\ s = "project")
  /\ looker' = s
  /\ UNCHANGED <<envOf, issued, scopeSet, kindSet, configKind, given, boot, choice, inForce, apc,
                 target, granted, lastRoot, chosen, begun, faults>>

Inspected ==
  /\ looker # "none" /\ looker' = "none"
  /\ UNCHANGED <<envOf, issued, scopeSet, kindSet, configKind, given, boot, choice, inForce, apc,
                 target, granted, lastRoot, chosen, begun, faults>>

\* use, cmdZrokUse
Use(q, s) ==
  /\ MayCall(q) /\ Begins /\ scopeSet' = s /\ chosen' = TRUE
  /\ UNCHANGED <<envOf, issued, kindSet, configKind, given, boot, choice, inForce, looker, apc,
                 target, granted, lastRoot, faults>>

\* register, cmdZrokRegister: an account only where nothing is enrolled.
SignUp(q) ==
  /\ MayCall(q) /\ Begins /\ \A s \in Scopes : ~Enabled(s)
  /\ apc' = [apc EXCEPT ![q] = "registered"]
  /\ UNCHANGED <<envOf, issued, scopeSet, kindSet, configKind, given, boot, choice, inForce, looker,
                 target, granted, lastRoot, chosen, faults>>

\* ZrokEnable: the root must not be enabled.
LoadToEnrol(q) ==
  /\ \/ MayCall(q) /\ Begins
     \/ apc[q] = "registered" /\ begun' = begun
  /\ IF Enabled(Loads(q)) THEN apc' = [apc EXCEPT ![q] = "idle"] /\ UNCHANGED target
     ELSE apc' = [apc EXCEPT ![q] = "loaded"] /\ target' = [target EXCEPT ![q] = Loads(q)]
  /\ UNCHANGED <<envOf, issued, scopeSet, kindSet, configKind, given, boot, choice, inForce, looker,
                 granted, lastRoot, chosen, faults>>

\* SetEnvironment with the token alone.
SaveToken(q) ==
  /\ apc[q] = "loaded" /\ apc' = [apc EXCEPT ![q] = "asked"]
  /\ envOf' = [envOf EXCEPT ![target[q]] = "half"]
  /\ UNCHANGED <<issued, scopeSet, kindSet, configKind, given, boot, choice, inForce, looker, target,
                 granted, lastRoot, chosen, begun, faults>>

\* EnableEnvironment: the service issues an environment or refuses.
Issue(q) ==
  /\ apc[q] = "asked"
  /\ \/ \E e \in EnvIds \ (issued \cup OldEnvs) :
          /\ issued' = issued \cup {e} /\ granted' = [granted EXCEPT ![q] = e]
          /\ apc' = [apc EXCEPT ![q] = "granted"]
     \/ apc' = [apc EXCEPT ![q] = "failed"] /\ UNCHANGED <<issued, granted>>
  /\ UNCHANGED <<envOf, scopeSet, kindSet, configKind, given, boot, choice, inForce, looker, target,
                 lastRoot, chosen, begun, faults>>

\* The environment and the identity are written, or the disk refuses.
SaveEnv(q) ==
  /\ apc[q] = "granted"
  /\ \/ apc' = [apc EXCEPT ![q] = "enrolled"] /\ envOf' = [envOf EXCEPT ![target[q]] = granted[q]]
        /\ UNCHANGED <<granted, faults>>
     \/ apc' = [apc EXCEPT ![q] = "failed"] /\ granted' = [granted EXCEPT ![q] = "none"]
        /\ faults < MaxFaults /\ faults' = faults + 1 /\ UNCHANGED envOf
  /\ UNCHANGED <<issued, scopeSet, kindSet, configKind, given, boot, choice, inForce, looker, target,
                 lastRoot, chosen, begun>>

\* The deferred DeleteEnvironment of an enrolment that failed.
Undo(q) ==
  /\ apc[q] = "failed" /\ apc' = [apc EXCEPT ![q] = "idle"]
  /\ envOf' = [envOf EXCEPT ![target[q]] = "none"] /\ target' = [target EXCEPT ![q] = "none"]
  /\ UNCHANGED <<issued, scopeSet, kindSet, configKind, given, boot, choice, inForce, looker,
                 granted, lastRoot, chosen, begun, faults>>

\* enrol, enableZrokHere: enrolling is choosing. The write may fail.
RecordChoice(q) ==
  /\ apc[q] = "enrolled" /\ apc' = [apc EXCEPT ![q] = "idle"]
  /\ granted' = [granted EXCEPT ![q] = "none"] /\ target' = [target EXCEPT ![q] = "none"]
  /\ \/ /\ scopeSet' = (IF q = Cli THEN target[q] ELSE inForce) /\ chosen' = TRUE
        /\ UNCHANGED faults
     \/ faults < MaxFaults /\ faults' = faults + 1 /\ UNCHANGED <<scopeSet, chosen>>
  /\ UNCHANGED <<envOf, issued, kindSet, configKind, given, boot, choice, inForce, looker, lastRoot, begun>>

\* disable, cmdZrokDisable: not where the machine's environment is in force.
LoadToDisable(q) ==
  /\ MayCall(q) /\ Begins /\ Scope(q) # "system" /\ Enabled(Loads(q))
  /\ apc' = [apc EXCEPT ![q] = "disabling"] /\ target' = [target EXCEPT ![q] = Loads(q)]
  /\ granted' = [granted EXCEPT ![q] = envOf[Loads(q)]]
  /\ UNCHANGED <<envOf, issued, scopeSet, kindSet, configKind, given, boot, choice, inForce, looker,
                 lastRoot, chosen, faults>>

\* DisableEnvironment: the service drops an environment it has.
Revoke(q) ==
  /\ apc[q] = "disabling" /\ granted' = [granted EXCEPT ![q] = "none"]
  /\ IF granted[q] \in issued
     THEN issued' = issued \ {granted[q]} /\ apc' = [apc EXCEPT ![q] = "revoked"] /\ UNCHANGED target
     ELSE apc' = [apc EXCEPT ![q] = "idle"] /\ target' = [target EXCEPT ![q] = "none"] /\ UNCHANGED issued
  /\ UNCHANGED <<envOf, scopeSet, kindSet, configKind, given, boot, choice, inForce, looker,
                 lastRoot, chosen, begun, faults>>

ForgetEnv(q) ==
  /\ apc[q] = "revoked" /\ apc' = [apc EXCEPT ![q] = "idle"]
  /\ envOf' = [envOf EXCEPT ![target[q]] = "none"] /\ target' = [target EXCEPT ![q] = "none"]
  /\ UNCHANGED <<issued, scopeSet, kindSet, configKind, given, boot, choice, inForce, looker,
                 granted, lastRoot, chosen, begun, faults>>

\* otherExposers and snapshot: what the panel says an exposer still needs.
Missing(kind) ==
  CASE kind = "local" -> {}
    [] kind = "zrok2" -> IF \E s \in Scopes : Enabled(s) THEN {} ELSE {"enrolment"}
    [] kind = "ziti" -> {"identity", "service"} \ given
    [] kind = "frontdoor" -> {"token", "frontend", "env", "agent"} \ given

\* setExposer refuses a kind that needs something.
SetExposer(q, kind) ==
  /\ q # Cli /\ MayCall(q) /\ Begins /\ Missing(kind) = {} /\ kindSet' = kind
  /\ UNCHANGED <<envOf, issued, scopeSet, configKind, given, boot, choice, inForce, looker, apc,
                 target, granted, lastRoot, chosen, faults>>

\* setFrontdoor, enrollZiti: a blank field is left as it is.
FillIn(q, form) ==
  /\ q # Cli /\ MayCall(q) /\ Begins /\ ~ form \subseteq given /\ given' = given \cup form
  /\ UNCHANGED <<envOf, issued, scopeSet, kindSet, configKind, boot, choice, inForce, looker, apc,
                 target, granted, lastRoot, chosen, faults>>

\* zrok2 enable and zrok2 disable, by whoever else uses the machine.
ZrokCli ==
  /\ Begins
  /\ IF Enabled("system")
     THEN /\ envOf' = [envOf EXCEPT !["system"] = "none"] /\ issued' = issued \ {envOf["system"]}
     ELSE \E e \in EnvIds \ issued :
            envOf' = [envOf EXCEPT !["system"] = e] /\ issued' = issued \cup {e}
  /\ UNCHANGED <<scopeSet, kindSet, configKind, given, boot, choice, inForce, looker, apc, target,
                 granted, lastRoot, chosen, faults>>

Calls(q) ==
  \/ SignUp(q) \/ LoadToEnrol(q) \/ SaveToken(q) \/ Issue(q) \/ SaveEnv(q) \/ Undo(q)
  \/ RecordChoice(q) \/ LoadToDisable(q) \/ Revoke(q) \/ ForgetEnv(q)

SetupNext ==
  \/ ReadChoice \/ Adopt \/ StopSetup \/ Inspected \/ ZrokCli
  \/ \E s \in Scopes : Inspect(s)
  \/ \E q \in Callers :
       \/ Calls(q)
       \/ \E s \in Scopes : Use(q, s)
       \/ \E kind \in Kinds : SetExposer(q, kind)
       \/ \E form \in Forms : FillIn(q, form)

SetupSpec == SetupInit /\ [][SetupNext]_setupVars

----------------------------------------------------------------------------
(* A daemon publishes from another zrok account than at its last start only if *)
(* the operator recorded a choice since, or the last one is no longer enrolled *)
(* (applyZrokScope: the first thing a start does on an account is reap).       *)
AccountKept ==
  [][lastRoot # "none" /\ lastRoot' # lastRoot => chosen \/ ~Enabled(lastRoot)]_setupVars

(* What disable removes is this installation's environment and never the one   *)
(* of the machine (ZrokAdmin.disable).                                         *)
DisableSparesMachine ==
  \A q \in Callers : apc[q] \in {"disabling", "revoked"} => target[q] = "project"
================================================================================
