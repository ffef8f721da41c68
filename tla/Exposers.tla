------------------------------ MODULE Exposers -------------------------------
(***************************************************************************)
(* The exposers beside zrok's, one of which is chosen at the start:        *)
(* frontdoor, whose gateway keeps a share per publication that points at a *)
(* local port; local, which mounts a path; and ziti, which routes by host  *)
(* name. The daemon publishes under its per-preview lock, so publications  *)
(* of different previews overlap, and its sweep overlaps them all.         *)
(***************************************************************************)
EXTENDS Naturals, FiniteSets, FiniteSetsExt

CONSTANTS
  PubKeys,       (* publications: a preview's own and its builds'              *)
  PreviewOf,  (* PreviewOfKey                                               *)
  PubName,     (* the name a key renders to                                  *)
  MaxEntries, (* bound: publications made                                   *)
  MaxSweeps,  (* bound: sweeps of the reaper                                *)
  MaxStops    (* bound: times the process ends                              *)

ASSUME ExposersAssumption ==
  PubKeys # {} /\ MaxEntries \in Nat /\ MaxSweeps \in Nat /\ MaxStops \in Nat

Entries == 1..MaxEntries
Previews == {PreviewOf[k] : k \in PubKeys}

VARIABLES
  kind,    \* exposer.kind: "frontdoor", "local" or "ziti"
  live,    \* the exposer's map: the entry of each key, 0 for none
  holds,    \* d.live and d.liveBuilds: the Publication of each key
  recorded,\* keys a row names
  entryKey, entered, \* the key of each entry so far, and how many there are
  ports,   \* entries whose local server listens
  shares,  \* gateway: <<e, "own">> is the share a create answered with, <<e, "lost">> one
           \* that a create which timed out made all the same
  op,      \* per preview: the publication under way
  starting,\* the sweep under way is the one of the start, before anything is published
  sweep, keep, found, \* Reap: its step, its keep-set, what it has to look at or delete
  sweeps, stops,
  excused  \* history: entries a failed publication withdrew, or unrecorded during a sweep

fdVars == <<ports, shares>>
regVars == <<live, holds, recorded>>
sweepVars == <<starting, sweep, keep, found, sweeps>>
expoVars == <<kind, regVars, entryKey, entered, fdVars, op, sweepVars, stops, excused>>

NoOp == [step |-> "idle", key |-> CHOOSE k \in PubKeys : TRUE, entry |-> 0]

ExposersInit ==
  /\ kind \in {"frontdoor", "local", "ziti"}
  /\ live = [k \in PubKeys |-> 0] /\ holds = [k \in PubKeys |-> 0] /\ recorded = {}
  /\ entryKey = [e \in Entries |-> CHOOSE k \in PubKeys : TRUE] /\ entered = 0
  /\ ports = {} /\ shares = {}
  /\ op = [p \in Previews |-> NoOp]
  /\ starting = FALSE /\ sweep = "idle" /\ keep = {} /\ found = {} /\ sweeps = 0 /\ stops = 0
  /\ excused = {}

\* Live publications of other keys under k's name. Collides: they block k when they are
\* another preview's, and give way to it when they are an earlier build's.
Rivals(k) == {j \in PubKeys \ {k} : live[j] # 0 /\ PubName[j] = PubName[k]}
Collides(k) == \E j \in Rivals(k) : PreviewOf[j] # PreviewOf[k]

Quiet(p) == op[p].step = "idle"
Free(k) == ~starting /\ Quiet(PreviewOf[k])
OpAt(p, step) == op[p].step = step
\* The entry is made and its publication goes on at step.
NewEntry(k, step) ==
  /\ entered < MaxEntries /\ entered' = entered + 1
  /\ entryKey' = [entryKey EXCEPT ![entered + 1] = k]
  /\ op' = [op EXCEPT ![PreviewOf[k]] = [step |-> step, key |-> k, entry |-> entered + 1]]

\* What is unrecorded while a sweep has its keep-set is at its mercy.
Exposes(es) == IF sweep = "idle" THEN {} ELSE es

\* Some deletions are refused, and only logged.
DeleteShare(doomed) ==
  \E gone \in SUBSET (doomed \cap shares) : shares' = shares \ gone

-----------------------------------------------------------------------------
(* Frontdoor.Publish. *)

\* The name is checked before anything is given up.
FdCheck(k) ==
  /\ kind = "frontdoor" /\ Free(k) /\ ~Collides(k)
  /\ op' = [op EXCEPT ![PreviewOf[k]] = [step |-> "withdraw", key |-> k, entry |-> 0]]
  /\ UNCHANGED <<kind, regVars, entryKey, entered, fdVars, sweepVars, stops, excused>>

\* The key's own publication and the earlier builds of its name go, and a local port is
\* bound; binding may fail.
FdWithdraw(p) ==
  /\ OpAt(p, "withdraw")
  /\ LET k == op[p].key
         own == {j \in Rivals(k) : PreviewOf[j] = p} \cup {k}
         gone == {live[j] : j \in own} \ {0} IN
     /\ live' = [j \in PubKeys |-> IF j \in own THEN 0 ELSE live[j]]
     /\ DeleteShare({<<e, "own">> : e \in gone})
     /\ \/ NewEntry(k, "post") /\ ports' = (ports \ gone) \cup {entered + 1}
           /\ excused' = excused \cup gone \cup Exposes({entered + 1})
        \/ /\ op' = [op EXCEPT ![p] = NoOp] /\ ports' = ports \ gone
           /\ excused' = excused \cup gone /\ UNCHANGED <<entryKey, entered>>
  /\ UNCHANGED <<kind, holds, recorded, sweepVars, stops>>

FdFail(p) == ports' = ports \ {op[p].entry}

\* A create that timed out may have made a share, and is retried or fails; so does an
\* answer without a URL, whose share is deleted again if it can be.
FdPost(p) ==
  /\ OpAt(p, "post")
  /\ LET own == <<op[p].entry, "own">>
         lost == <<op[p].entry, "lost">> IN
     \/ /\ op' = [op EXCEPT ![p].step = "insert"] /\ shares' = shares \cup {own}
        /\ UNCHANGED ports
     \/ shares' = shares \cup {lost} /\ UNCHANGED <<ports, op>>
     \/ /\ shares' \in {shares, shares \cup {lost}, shares \cup {own}}
        /\ FdFail(p) /\ op' = [op EXCEPT ![p] = NoOp]
  /\ UNCHANGED <<kind, regVars, entryKey, entered, sweepVars, stops, excused>>

\* The check is not made again.
FdInsert(p) ==
  /\ OpAt(p, "insert") /\ op' = [op EXCEPT ![p].step = "hold"]
  /\ LET k == op[p].key IN
     /\ live' = [live EXCEPT ![k] = op[p].entry]
     /\ excused' = IF Collides(k) THEN excused \cup {op[p].entry} \cup {live[j] : j \in Rivals(k)} ELSE excused
  /\ UNCHANGED <<kind, holds, recorded, entryKey, entered, fdVars, sweepVars, stops>>

-----------------------------------------------------------------------------
(* Local.Publish and Ziti.Publish: one critical section each. *)

Mount(k) ==
  /\ kind \in {"local", "ziti"} /\ Free(k) /\ ~Collides(k)
  /\ NewEntry(k, "hold")
  /\ live' = [j \in PubKeys |-> IF j = k THEN entered + 1 ELSE IF j \in Rivals(k) THEN 0 ELSE live[j]]
  /\ excused' = excused \cup {live[j] : j \in Rivals(k)} \cup Exposes({entered + 1})
  /\ UNCHANGED <<kind, holds, recorded, fdVars, sweepVars, stops>>

-----------------------------------------------------------------------------
(* The daemon, which closes what it replaces after it has the replacement. *)

\* Mutant: what the key has now is withdrawn, whoever published it.
WithdrawKey(k, e) ==
  /\ live' = [live EXCEPT ![k] = 0]
  /\ ports' = ports \ {live[k]}
  /\ IF live[k] = 0 THEN UNCHANGED shares ELSE DeleteShare({<<live[k], "own">>})

\* Publication.Close, through withdrawEntry, unmount or withdraw: the entry goes if it is
\* still the live one.
WithdrawEntry(k, e) ==
  IF e # 0 /\ live[k] = e
  THEN /\ live' = [live EXCEPT ![k] = 0]
       /\ ports' = ports \ {e}
       /\ DeleteShare({<<e, "own">>})
  ELSE UNCHANGED <<live, fdVars>>

\* The new publication is held, the old one closed, and the row saved; a preview that
\* cannot be saved is closed again.
Hold(p) ==
  /\ OpAt(p, "hold") /\ op' = [op EXCEPT ![p] = NoOp]
  /\ LET k == op[p].key IN
     \/ /\ WithdrawEntry(k, holds[k])
        /\ holds' = [holds EXCEPT ![k] = op[p].entry] /\ recorded' = recorded \cup {k}
     \/ /\ k = p /\ WithdrawEntry(k, op[p].entry)
        /\ holds' = [holds EXCEPT ![k] = 0] /\ recorded' = recorded \ {k}
     \/ /\ k # p /\ WithdrawEntry(k, holds[k])
        /\ holds' = [holds EXCEPT ![k] = op[p].entry] /\ UNCHANGED recorded
  /\ UNCHANGED <<kind, entryKey, entered, sweepVars, stops, excused>>

\* A teardown, or the retirement of a build's publication.
CloseHeld(k) ==
  /\ Free(k) /\ k \in recorded
  /\ WithdrawEntry(k, holds[k])
  /\ holds' = [holds EXCEPT ![k] = 0] /\ recorded' = recorded \ {k}
  /\ UNCHANGED <<kind, entryKey, entered, op, sweepVars, stops, excused>>

-----------------------------------------------------------------------------
(* Reap, hourly and at the start. *)

\* The keep-set is read first.
SweepKeep ==
  /\ sweep = "idle" /\ sweeps < MaxSweeps /\ sweeps' = sweeps + 1
  /\ sweep' = "list" /\ keep' = recorded
  /\ excused' = excused \cup {op[p].entry : p \in Previews} \cup {holds[k] : k \in PubKeys \ recorded}
  /\ UNCHANGED <<kind, regVars, entryKey, entered, fdVars, op, starting, found, stops>>

\* Frontdoor lists the gateway's shares, every page of them; a listing that cannot be read
\* ends the sweep.
SweepList ==
  /\ sweep = "list" /\ kind = "frontdoor"
  /\ \/ sweep' = "judge" /\ found' = shares
        /\ UNCHANGED <<starting, keep>>
     \/ sweep' = "idle" /\ starting' = FALSE /\ keep' = {} /\ UNCHANGED found
  /\ UNCHANGED <<kind, regVars, entryKey, entered, fdVars, op, sweeps, stops, excused>>

Doomed == {s \in found : s \notin {<<live[k], "own">> : k \in PubKeys} /\ entryKey[s[1]] \notin keep}

SweepJudge ==
  /\ sweep = "judge" /\ sweep' = "delete" /\ found' = Doomed /\ keep' = {}
  /\ UNCHANGED <<starting, kind, regVars, entryKey, entered, fdVars, op, sweeps, stops, excused>>

\* Eight at a time, in any order.
SweepDelete ==
  /\ sweep = "delete"
  /\ IF found = {} THEN sweep' = "idle" /\ starting' = FALSE /\ UNCHANGED <<found, shares>>
     ELSE \E s \in found : DeleteShare({s}) /\ found' = found \ {s} /\ UNCHANGED <<sweep, starting>>
  /\ UNCHANGED <<kind, regVars, entryKey, entered, ports, op, keep, sweeps, stops, excused>>

\* Local drops what is not kept, live or not; ziti does nothing.
SweepMounts ==
  /\ sweep = "list" /\ kind # "frontdoor" /\ sweep' = "idle" /\ starting' = FALSE /\ keep' = {}
  /\ live' = IF kind = "local" THEN [k \in PubKeys |-> IF k \in keep THEN live[k] ELSE 0] ELSE live
  /\ UNCHANGED <<kind, holds, recorded, entryKey, entered, fdVars, op, found, sweeps, stops, excused>>

\* The process ends: in good order its publications are closed, in a crash its shares stay.
\* The next one begins with a sweep.
Stop ==
  /\ stops < MaxStops /\ stops' = stops + 1
  /\ \/ UNCHANGED shares
     \/ DeleteShare({<<live[k], "own">> : k \in {j \in PubKeys : live[j] # 0}})
  /\ live' = [k \in PubKeys |-> 0] /\ holds' = [k \in PubKeys |-> 0] /\ ports' = {}
  /\ op' = [p \in Previews |-> NoOp]
  /\ starting' = TRUE /\ sweep' = "list" /\ keep' = recorded /\ found' = {}
  /\ UNCHANGED <<kind, recorded, entryKey, entered, sweeps, excused>>

PublishStep(p) == FdWithdraw(p) \/ FdPost(p) \/ FdInsert(p) \/ Hold(p)
SweepStep == SweepKeep \/ SweepList \/ SweepJudge \/ SweepDelete \/ SweepMounts

ExposersNext ==
  \/ \E k \in PubKeys : FdCheck(k) \/ Mount(k) \/ CloseHeld(k)
  \/ \E p \in Previews : PublishStep(p)
  \/ SweepStep \/ Stop

ExposersSpec == ExposersInit /\ [][ExposersNext]_expoVars

-----------------------------------------------------------------------------
\* Every variable has its type.
ExposersTypeOK ==
  /\ live \in [PubKeys -> 0..entered] /\ holds \in [PubKeys -> 0..entered] /\ recorded \subseteq PubKeys
  /\ entered \in 0..MaxEntries /\ entryKey \in [Entries -> PubKeys] /\ ports \subseteq 1..entered
  /\ shares \cup found \subseteq (1..entered) \X {"own", "lost"}
  /\ op \in [Previews -> [step : {"idle", "withdraw", "post", "insert", "hold"}, key : PubKeys,
                          entry : 0..entered]]
  /\ sweep \in {"idle", "list", "judge", "delete"} /\ keep \subseteq PubKeys
  /\ excused \subseteq 0..entered

\* The publications a request for a name can reach.
Reached(n) ==
  {live[k] : k \in {j \in PubKeys : PubName[j] = n /\ live[j] # 0
                                 /\ (kind = "frontdoor" => live[j] \in ports /\ <<live[j], "own">> \in shares)}}

\* What the daemon holds is what a request for its name reaches, and nothing else is,
\* through replacements closed late, refused names, retired builds and sweeps: unless a
\* newer build took the name, a publication failed half way, or a sweep met one that was
\* not recorded yet.
HeldIsServed ==
  \A k \in PubKeys : holds[k] # 0 /\ Quiet(PreviewOf[k]) /\ holds[k] \notin excused
    => Reached(PubName[k]) = {holds[k]}
=============================================================================
