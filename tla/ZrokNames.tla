------------------------------ MODULE ZrokNames ------------------------------
(***************************************************************************)
(* Reserved names on the zrok controller: Publish's calls with their       *)
(* retries, ReleaseName, and the daemon that retires a build's name and    *)
(* gives every name back in a teardown, with crashes between any two       *)
(* calls. A name is an object with a quota that outlives its share. Calls  *)
(* for one preview run under its commit lock, so there is one at a time.   *)
(***************************************************************************)
EXTENDS Naturals, FiniteSets

CONSTANTS
  Keys,        (* publications of one preview: Site and its builds          *)
  Site,        (* the key of the branch share                               *)
  NameOf,      (* the name of a key: two builds of a commit have the same   *)
  Quota,       (* reserved names the account may hold                       *)
  MaxShares,   (* bound: shares created                                     *)
  MaxRestarts  (* bound: crashes                                            *)

Names == {NameOf[k] : k \in Keys}
Tokens == 1..MaxShares

ASSUME NamesAssumption ==
  /\ Site \in Keys /\ \A k \in Keys \ {Site} : NameOf[k] # NameOf[Site]
  /\ Quota \in Nat /\ MaxShares \in Nat /\ MaxRestarts \in Nat

VARIABLES
  reg,      \* a name on the controller: "no", "reserved", or "spare" when de-reserved
  bound,    \* the share that holds a name, 0 when none does
  keyOf,    \* the key in a share's target
  made,     \* shares created so far
  held,     \* z.live with d.live and d.liveBuilds: the share a key is served on, or 0
  rows,     \* keys recorded in the database with their name
  at,       \* the step under way: its name, its key, and the attempts of its call
  releasing,\* names a teardown or a retirement has still to release
  refused,  \* names whose release the controller refused: left to the operator
  unnamed,  \* names a publication registered that no row records
  restarts

nameVars == <<reg, bound, keyOf, made, held, rows, at, releasing, refused, unnamed, restarts>>

Rest == [step |-> "rest", key |-> Site, try |-> 0]

NamesInit ==
  /\ reg = [n \in Names |-> "no"] /\ bound = [n \in Names |-> 0]
  /\ keyOf = [t \in Tokens |-> Site] /\ made = 0
  /\ held = [k \in Keys |-> 0] /\ rows = {}
  /\ at = Rest /\ releasing = {} /\ refused = {} /\ unnamed = {} /\ restarts = 0

Name == NameOf[at.key]
ShareGoes(step) == at' = [at EXCEPT !.step = step, !.try = 1]

-----------------------------------------------------------------------------
(* The controller. *)

\* Deleting shares deletes the names they hold that are no longer reserved.
Unshared(gone) ==
  /\ bound' = [n \in Names |-> IF bound[n] \in gone THEN 0 ELSE bound[n]]
  /\ reg' = [n \in Names |-> IF bound[n] \in gone /\ reg[n] = "spare" THEN "no" ELSE reg[n]]

\* Some of the deletions may fail, and are only logged.
SomeUnshared(ts) == \E gone \in SUBSET (ts \ {0}) : Unshared(gone)

Created(t) ==
  /\ made < MaxShares /\ t = made + 1 /\ made' = t
  /\ reg[Name] # "no" /\ bound[Name] = 0
  /\ bound' = [bound EXCEPT ![Name] = t] /\ keyOf' = [keyOf EXCEPT ![t] = at.key]

\* retryZrokTo: the schedule is chosen by the error in hand.
Waits == [timeout |-> 2, limited |-> 3]

Retried == \E e \in DOMAIN Waits : at.try <= Waits[e] /\ at' = [at EXCEPT !.try = @ + 1]

\* A call gives up when its schedule is spent or its context ends.
GivesUp(step) == at' = [at EXCEPT !.step = step, !.try = 1]

-----------------------------------------------------------------------------
(* Publish. *)

\* Mutant: the share an earlier build of the commit serves is left to it.
PublishBeside(k) ==
  /\ at = Rest /\ held[k] = 0
  /\ at' = [step |-> "register", key |-> k, try |-> 1]
  /\ UNCHANGED <<reg, bound, held, keyOf, made, rows, releasing, refused, unnamed, restarts>>

\* What the key had, and the earlier builds of its name, are withdrawn.
PublishStart(k) ==
  /\ at = Rest /\ held[k] = 0
  /\ LET old == {j \in Keys : NameOf[j] = NameOf[k] /\ held[j] # 0} IN
     /\ SomeUnshared({held[j] : j \in old})
     /\ held' = [j \in Keys |-> IF j \in old THEN 0 ELSE held[j]]
  /\ at' = [step |-> "register", key |-> k, try |-> 1]
  /\ UNCHANGED <<keyOf, made, rows, releasing, refused, unnamed, restarts>>

\* ensureName: a name that exists is as good as one it registers.
Register ==
  /\ at.step = "register"
  /\ \/ /\ \/ reg[Name] # "no" /\ UNCHANGED <<reg, unnamed>>
           \/ /\ reg[Name] = "no" /\ Cardinality({n \in Names : reg[n] # "no"}) < Quota
              /\ reg' = [reg EXCEPT ![Name] = "reserved"]
              /\ unnamed' = unnamed \cup {Name}
        /\ ShareGoes("create")
     \/ Retried /\ UNCHANGED <<reg, unnamed>>
     \/ at' = Rest /\ UNCHANGED <<reg, unnamed>>
  /\ UNCHANGED <<bound, keyOf, made, held, rows, releasing, refused, restarts>>

\* CreateShare: a call that timed out may have created the share all the same.
CreateShare ==
  /\ at.step = "create"
  /\ \/ \E t \in Tokens : Created(t) /\ (ShareGoes("listen") \/ Retried \/ GivesUp("reclaim"))
     \/ (Retried \/ GivesUp("reclaim")) /\ UNCHANGED <<bound, keyOf, made>>
  /\ UNCHANGED <<reg, held, rows, releasing, refused, unnamed, restarts>>

\* reapName deletes whatever share of ours holds the name; only then is one more
\* creation worth it.
Reclaim ==
  /\ at.step = "reclaim"
  /\ \/ bound[Name] # 0 /\ Unshared({bound[Name]}) /\ ShareGoes("again")
     \/ at' = Rest /\ UNCHANGED <<reg, bound>>
  /\ UNCHANGED <<keyOf, made, held, rows, releasing, refused, unnamed, restarts>>

CreateAgain ==
  /\ at.step = "again"
  /\ \/ \E t \in Tokens : Created(t) /\ (ShareGoes("listen") \/ at' = Rest)
     \/ at' = Rest /\ UNCHANGED <<bound, keyOf, made>>
  /\ UNCHANGED <<reg, held, rows, releasing, refused, unnamed, restarts>>

\* A share nothing can serve is deleted again.
Listen ==
  /\ at.step = "listen"
  /\ \/ /\ held' = [held EXCEPT ![at.key] = bound[Name]] /\ ShareGoes("record")
        /\ UNCHANGED <<reg, bound>>
     \/ Retried /\ UNCHANGED <<reg, bound, held>>
     \/ SomeUnshared({bound[Name]}) /\ at' = Rest /\ UNCHANGED held
  /\ UNCHANGED <<keyOf, made, rows, releasing, refused, unnamed, restarts>>

\* The row names the publication. A preview that cannot be recorded is withdrawn.
RecordRow ==
  /\ at.step = "record"
  /\ \/ /\ rows' = rows \cup {at.key} /\ unnamed' = unnamed \ {Name}
        /\ UNCHANGED <<reg, bound, held>>
     \/ /\ at.key = Site /\ SomeUnshared({held[Site]}) /\ held' = [held EXCEPT ![Site] = 0]
        /\ rows' = rows \ {Site}
        /\ unnamed' = unnamed \cup {Name}
  /\ at' = Rest
  /\ UNCHANGED <<keyOf, made, releasing, refused, restarts>>

-----------------------------------------------------------------------------
(* Names that are given back. *)

\* Mutant: a retired build gives up every name the preview has.
RetireAll(k) ==
  /\ at = Rest /\ k # Site /\ (held[k] # 0 \/ k \in rows)
  /\ at' = [step |-> "retire", key |-> k, try |-> 0]
  /\ releasing' = {NameOf[j] : j \in rows}
  /\ UNCHANGED <<reg, bound, keyOf, made, held, rows, refused, unnamed, restarts>>

\* retireBuildShare: the name of the publication, or the one its row records.
Retire(k) ==
  /\ at = Rest /\ k # Site /\ (held[k] # 0 \/ k \in rows)
  /\ at' = [step |-> "retire", key |-> k, try |-> 0]
  /\ releasing' = {NameOf[k]}
  /\ UNCHANGED <<reg, bound, keyOf, made, held, rows, refused, unnamed, restarts>>

\* releaseNames: the names of the live publications and of the rows.
Teardown ==
  /\ at = Rest
  /\ at' = [step |-> "teardown", key |-> Site, try |-> 0]
  /\ releasing' = {NameOf[k] : k \in rows \cup {j \in Keys : held[j] # 0}}
  /\ UNCHANGED <<reg, bound, keyOf, made, held, rows, refused, unnamed, restarts>>

\* Mutant: the name is deleted without clearing its flag first.
DeleteReserved(n) ==
  /\ n \in releasing /\ reg[n] = "reserved"
  /\ \/ bound[n] # 0 /\ UNCHANGED reg
     \/ bound[n] = 0 /\ reg' = [reg EXCEPT ![n] = "no"]
  /\ releasing' = releasing \ {n} /\ UNCHANGED refused
  /\ UNCHANGED <<bound, keyOf, made, held, rows, at, unnamed, restarts>>

\* ReleaseName clears the flag first...
Dereserve(n) ==
  /\ n \in releasing /\ reg[n] = "reserved"
  /\ \/ reg' = [reg EXCEPT ![n] = "spare"] /\ UNCHANGED <<releasing, refused>>
     \/ releasing' = releasing \ {n} /\ refused' = refused \cup {n} /\ UNCHANGED reg
  /\ UNCHANGED <<bound, keyOf, made, held, rows, at, unnamed, restarts>>

\* ... and then deletes the name, unless a share still holds it or it is gone.
DeleteName(n) ==
  /\ n \in releasing /\ reg[n] # "reserved"
  /\ \/ /\ reg' = IF bound[n] = 0 THEN [reg EXCEPT ![n] = "no"] ELSE reg
        /\ UNCHANGED refused
     \/ reg[n] = "spare" /\ refused' = refused \cup {n} /\ UNCHANGED reg
  /\ releasing' = releasing \ {n}
  /\ UNCHANGED <<bound, keyOf, made, held, rows, at, unnamed, restarts>>

\* Only then are the shares withdrawn, and the rows cleared last.
Withdraw ==
  /\ at.step \in {"retire", "teardown"} /\ releasing = {}
  /\ LET ks == IF at.step = "retire" THEN {at.key} ELSE Keys IN
     /\ SomeUnshared({held[k] : k \in ks})
     /\ held' = [k \in Keys |-> IF k \in ks THEN 0 ELSE held[k]]
  /\ at' = [at EXCEPT !.step = IF at.step = "retire" THEN "clear" ELSE "clear all"]
  /\ UNCHANGED <<keyOf, made, rows, releasing, refused, unnamed, restarts>>

ClearRows ==
  /\ \/ at.step = "clear" /\ rows' = rows \ {at.key}
     \/ at.step = "clear all" /\ rows' = {}
  /\ at' = Rest
  /\ UNCHANGED <<reg, bound, keyOf, made, held, releasing, refused, unnamed, restarts>>

-----------------------------------------------------------------------------
(* A crash, and a start that reaps what no row names and adopts the rest. *)

RestartZrok ==
  /\ restarts < MaxRestarts /\ restarts' = restarts + 1
  /\ SomeUnshared({bound[n] : n \in {m \in Names : bound[m] # 0 /\ keyOf[bound[m]] \notin rows}})
  /\ held' = [k \in Keys |->
       IF k \in rows /\ bound'[NameOf[k]] # 0 /\ keyOf[bound'[NameOf[k]]] = k
       THEN bound'[NameOf[k]] ELSE 0]
  /\ at' = Rest /\ releasing' = {}
  /\ UNCHANGED <<keyOf, made, rows, refused, unnamed>>

NamesNext ==
  \/ \E k \in Keys : PublishStart(k) \/ Retire(k)
  \/ Register \/ CreateShare \/ Reclaim \/ CreateAgain \/ Listen \/ RecordRow
  \/ Teardown \/ \E n \in Names : Dereserve(n) \/ DeleteName(n)
  \/ Withdraw \/ ClearRows \/ RestartZrok

NamesSpec == NamesInit /\ [][NamesNext]_nameVars

-----------------------------------------------------------------------------
\* Every variable has its type.
NamesTypeOK ==
  /\ reg \in [Names -> {"no", "reserved", "spare"}] /\ bound \in [Names -> 0..made]
  /\ keyOf \in [Tokens -> Keys] /\ made \in 0..MaxShares
  /\ held \in [Keys -> 0..made] /\ rows \subseteq Keys
  /\ at \in [step : {"rest", "register", "create", "reclaim", "again", "listen", "record",
                     "retire", "teardown", "clear", "clear all"}, key : Keys, try : 0..4]
  /\ releasing \subseteq Names /\ refused \subseteq Names /\ unnamed \subseteq Names
  /\ restarts \in 0..MaxRestarts

\* A share that is served holds its name on the controller: whatever timed out, was
\* reclaimed or survived its deletion on the way, it is the served one that is bound.
ServedHoldsName == \A k \in Keys : held[k] # 0 => bound[NameOf[k]] = held[k]

\* A preview that is gone keeps no name: what is still on the controller was never
\* recorded, was refused by the controller, or goes with a share the next reap deletes.
NamesGivenBack ==
  at = Rest /\ rows = {} /\ (\A k \in Keys : held[k] = 0)
    => \A n \in Names \ (refused \cup unnamed) : reg[n] = "no" \/ (reg[n] = "spare" /\ bound[n] # 0)

\* Only a teardown gives up the branch name: the URL is stable across rebuilds,
\* withdrawals, crashes and failed publications.
BranchNameStays ==
  [][reg[NameOf[Site]] = "reserved" /\ reg'[NameOf[Site]] # "reserved" => at.step = "teardown"]_nameVars
=============================================================================
