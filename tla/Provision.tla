------------------------------- MODULE Provision -------------------------------
(* `docpreview configure ziti`: a run makes sure, object by object, that the    *)
(* controller has what the daemon needs, and leaves an identity file and a      *)
(* reviewer's token in a directory (zitiadmin/provision.go). A run may fail or  *)
(* be killed between any two calls and is started again, perhaps with another   *)
(* domain or directory.                                                         *)
EXTENDS Naturals, Sequences

CONSTANTS
  Domains,       (* values of -domain                            *)
  OutDirs,       (* values of -out-dir                           *)
  Roles,         (* values of -reader-role                       *)
  MaxProvisions, (* runs started (bound)                         *)
  MaxIdentities  (* identities the controller makes (bound)      *)

VARIABLES
  intercept,  \* the domain the intercept config answers for; "none" if there is none
  objects,    \* services and policies that exist, with the role a policy is keyed on
  host,       \* docpreview's identity on the controller, a number; 0 for none
  enrolled,   \* identities whose one-time token has been used
  idFile,     \* the identity in the file of each directory; 0 for none
  reviewer,   \* the reviewer's identity
  jwtFile,    \* the identity whose token is in the .jwt of each directory
  identities, \* identities made
  task, provisions

zitiVars == <<intercept, objects, host, enrolled, reviewer, identities>>
provVars == <<zitiVars, idFile, jwtFile, task, provisions>>

\* The calls of a run, in order: run, and ensurePolicies for each service.
Plan(t) ==
  IF t.admin
  THEN <<"intercept", "service", "bind", "dial", "serp",
         "admin-service", "admin-bind", "admin-dial", "admin-serp", "host">>
  ELSE <<"intercept", "service", "bind", "dial", "serp", "host">>
Resting == [at |-> "idle", n |-> 0, dir |-> "none", domain |-> "none", role |-> "none", admin |-> FALSE, id |-> 0]

ProvisionInit ==
  /\ intercept = "none" /\ objects = {} /\ host = 0 /\ enrolled = {} /\ reviewer = 0
  /\ identities = 0 /\ idFile = [d \in OutDirs |-> 0] /\ jwtFile = [d \in OutDirs |-> 0]
  /\ task = Resting /\ provisions = 0

Call == Plan(task)[task.n]
Next1 == task' = [task EXCEPT !.n = @ + 1]
MovesTo(at) == task' = [task EXCEPT !.at = at]

Provision ==
  /\ task.at \in {"idle", "done"} /\ provisions < MaxProvisions /\ provisions' = provisions + 1
  /\ \E d \in OutDirs, m \in Domains, r \in Roles, a \in BOOLEAN :
       task' = [at |-> "ensure", n |-> 1, dir |-> d, domain |-> m, role |-> r, admin |-> a, id |-> 0]
  /\ UNCHANGED <<zitiVars, idFile, jwtFile>>

\* A call fails, or the process is killed before it.
TaskFails ==
  /\ task.at \notin {"idle", "done"} /\ task' = Resting
  /\ UNCHANGED <<zitiVars, idFile, jwtFile, provisions>>

\* ensureIntercept: the config is made or brought up to date.
EnsureIntercept ==
  /\ task.at = "ensure" /\ Call = "intercept" /\ intercept' = task.domain /\ Next1
  /\ UNCHANGED <<objects, host, enrolled, reviewer, identities, idFile, jwtFile, provisions>>

\* ensureService, ensureServicePolicy, the router policy: what is there by name is reused as
\* it is, also a policy keyed on another role.
Keyed(call) == IF call \in {"dial", "admin-dial"} THEN task.role ELSE "-"
Ensure ==
  /\ task.at = "ensure" /\ Call \notin {"intercept", "host"} /\ Next1
  /\ objects' = IF \E o \in objects : o[1] = Call THEN objects ELSE objects \cup {<<Call, Keyed(Call)>>}
  /\ UNCHANGED <<intercept, host, enrolled, reviewer, identities, idFile, jwtFile, provisions>>

\* Mutant: a file that is there will do.
UsableIfPresent(d) == idFile[d] # 0

\* identityFileUnusable: the file is there and the controller lets its identity in.
Usable(d) == idFile[d] = host /\ host \in enrolled

\* ensureHostIdentity: the identity and its file are one unit. One without the other is replaced.
EnsureHost ==
  /\ task.at = "ensure" /\ Call = "host"
  /\ \/ host # 0 /\ Usable(task.dir) /\ MovesTo("reviewer") /\ UNCHANGED host
     \/ host # 0 /\ ~Usable(task.dir) /\ MovesTo("create") /\ host' = 0
     \/ host = 0 /\ MovesTo("create") /\ UNCHANGED host
  /\ UNCHANGED <<intercept, objects, enrolled, reviewer, identities, idFile, jwtFile, provisions>>

CreateHost ==
  /\ task.at = "create" /\ identities < MaxIdentities /\ identities' = identities + 1
  /\ host' = identities' /\ task' = [task EXCEPT !.at = "enroll", !.id = identities']
  /\ UNCHANGED <<intercept, objects, enrolled, reviewer, idFile, jwtFile, provisions>>

EnrollHost ==
  /\ task.at = "enroll" /\ enrolled' = enrolled \cup {task.id} /\ MovesTo("write")
  /\ UNCHANGED <<intercept, objects, host, reviewer, identities, idFile, jwtFile, provisions>>

WriteIdentity ==
  /\ task.at = "write" /\ idFile' = [idFile EXCEPT ![task.dir] = task.id] /\ MovesTo("reviewer")
  /\ UNCHANGED <<zitiVars, jwtFile, provisions>>

\* ensureReviewer: never destructive.
EnsureReviewer ==
  /\ task.at = "reviewer" /\ MovesTo("token")
  /\ IF reviewer # 0 THEN UNCHANGED <<reviewer, identities>>
     ELSE identities < MaxIdentities /\ identities' = identities + 1 /\ reviewer' = identities'
  /\ UNCHANGED <<intercept, objects, host, enrolled, idFile, jwtFile, provisions>>

\* readEnrollmentJWT: a token that has been used is no error, and leaves nothing to write.
WriteToken ==
  /\ task.at = "token" /\ MovesTo("done")
  /\ jwtFile' = IF reviewer \in enrolled THEN jwtFile ELSE [jwtFile EXCEPT ![task.dir] = reviewer]
  /\ UNCHANGED <<zitiVars, idFile, provisions>>

\* The reviewer's tunneler uses the token; a file is lost.
ReviewerEnrols ==
  /\ \E d \in OutDirs : jwtFile[d] # 0 /\ enrolled' = enrolled \cup {jwtFile[d]}
  /\ UNCHANGED <<intercept, objects, host, reviewer, identities, idFile, jwtFile, task, provisions>>

FileLost(d) ==
  /\ task.at \in {"idle", "done"} /\ task' = Resting
  /\ idFile[d] # 0 /\ idFile' = [idFile EXCEPT ![d] = 0]
  /\ UNCHANGED <<zitiVars, jwtFile, provisions>>

ProvisionNext ==
  \/ Provision \/ TaskFails \/ EnsureIntercept \/ Ensure
  \/ EnsureHost \/ CreateHost \/ EnrollHost \/ WriteIdentity \/ EnsureReviewer \/ WriteToken
  \/ ReviewerEnrols \/ \E d \in OutDirs : FileLost(d)

ProvisionSpec == ProvisionInit /\ [][ProvisionNext]_provVars

ProvisionTypeOK ==
  /\ intercept \in Domains \cup {"none"} /\ {o[2] : o \in objects} \subseteq Roles \cup {"-"}
  /\ enrolled \subseteq 1..identities /\ {host, reviewer} \subseteq 0..identities
  /\ \A d \in OutDirs : {idFile[d], jwtFile[d]} \subseteq 0..identities
  /\ task.n \in 0..Len(Plan(task))

\* A run that ended well leaves everything in working order, whatever earlier runs left half
\* done or did for another directory: names resolve in its domain, every service and policy is
\* there, the daemon can use the file in its directory, and the reviewer has a token or has used it.
DoneIsUsable ==
  task.at = "done" =>
    /\ intercept = task.domain
    /\ \A i \in 2..Len(Plan(task)) - 1 : <<Plan(task)[i], Keyed(Plan(task)[i])>> \in objects
    /\ host # 0 /\ host \in enrolled /\ idFile[task.dir] = host /\ reviewer # 0
    /\ reviewer \in enrolled \/ jwtFile[task.dir] = reviewer
===============================================================================
