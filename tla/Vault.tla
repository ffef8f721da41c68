--------------------------------- MODULE Vault ---------------------------------
(* The file of secrets, sealed under one master key, and everybody who writes  *)
(* it: requests to the daemon (daemon/secrets.go), which share the vault the   *)
(* daemon holds in memory, and the commands `vault set`, `vault rekey` and     *)
(* `vault keygen`, each a process with a copy of its own. A writer puts the    *)
(* whole of its copy in place with one rename; nothing merges.                 *)
(*                                                                             *)
(* The operator stops the daemon for a rekey and runs one command at a time,   *)
(* as `vault rekey -yes` asks; two requests at once name different secrets.    *)
EXTENDS Naturals, Sequences, FiniteSets

CONSTANTS
  Secrets,   (* names of secrets                                       *)
  MasterKeys,(* master keys, typed or generated                        *)
  Requests,  (* requests the daemon serves at one time (bound)         *)
  MaxOpens,  (* vaults the daemon opens (bound)                        *)
  MaxOps,    (* requests and commands (bound)                          *)
  MaxKilled  (* processes that stop between two steps (bound)          *)

(* "none" stands for no key: Open and Rekey refuse an empty one, so a key is   *)
(* never none.                                                                 *)
ASSUME VaultAssumption == "none" \notin MasterKeys

VARIABLES
  sealed,    \* vault.age: the key it opens with and what is in it; "none" for no file
  backup,    \* the copy the last rekey made
  keyFile,   \* what vault.key_source reads; "none" if nothing is there
  fromFile,  \* whether the key source is a file: if not, somebody gives the key
  keysKnown, \* keys a person has: typed, or printed by a command
  daemon,    \* SecretsAdmin.v: index into vaults, 0 for nil
  up,
  vaults,    \* the vaults the daemon has opened, in memory
  req,       \* a request: its step, its vault, its secret, its snapshot, saves left
  cmd,       \* the command that runs: its step, its copy, its secret or new key
  stored,    \* secrets whose storing was answered with success, and not deleted since
  overtaken, \* secrets that a rename of an older snapshot took out of the file
  ops, kills

vaultVars == <<sealed, backup, keyFile, fromFile, keysKnown, daemon, up, vaults, req, cmd,
               stored, overtaken, ops, kills>>
fileVars == <<backup, keyFile, fromFile, keysKnown>>

NoVault == [key |-> "none", has |-> {}]
Copies == [key : MasterKeys \cup {"none"}, has : SUBSET Secrets]
NoRequest == [step |-> "idle", vault |-> 0, name |-> "none", snap |-> NoVault, left |-> 0]
NoCommand == [step |-> "idle", copy |-> NoVault, arg |-> "none"]

VaultInit ==
  /\ sealed = NoVault /\ backup = NoVault /\ keyFile = "none" /\ fromFile \in BOOLEAN
  /\ keysKnown = {} /\ daemon = 0 /\ up = FALSE /\ vaults = <<>>
  /\ req = [r \in Requests |-> NoRequest] /\ cmd = NoCommand
  /\ stored = {} /\ overtaken = {} /\ ops = 0 /\ kills = 0

Counted == ops < MaxOps /\ ops' = ops + 1
AtHand == keysKnown \cup ({keyFile} \ {"none"})

\* KeySource.Read, ResolveKeyFrom: the file's key, or one that is given.
Resolved == IF fromFile THEN {keyFile} \ {"none"} ELSE keysKnown

\* openWith: what a key makes of the file, a new vault where there is none.
Opens(k) == sealed = NoVault \/ sealed.key = k
\* Somebody gives a key they have, or thinks of one for a vault that is not there yet.
Typed(k) == k \in AtHand \/ sealed = NoVault
OpenWith(k) == [key |-> k, has |-> sealed.has]

\* Save: the file is replaced by the snapshot in one rename.
Install(snap) ==
  /\ sealed' = snap
  /\ overtaken' = (overtaken \cup (sealed.has \ snap.has)) \ snap.has

------------------------------------------------------------------------------
(* The daemon. *)

\* NewSecretsAdmin: no key is the ordinary state of a daemon waiting to be unlocked.
Start ==
  /\ ~up /\ cmd.step = "idle" /\ up' = TRUE
  /\ \/ \E k \in Resolved :
          /\ Opens(k) /\ Len(vaults) < MaxOpens
          /\ vaults' = Append(vaults, OpenWith(k)) /\ daemon' = Len(vaults) + 1
     \/ daemon' = 0 /\ UNCHANGED vaults
  /\ UNCHANGED <<sealed, fileVars, req, cmd, stored, overtaken, ops, kills>>

\* The daemon stops, or is killed between two steps of a request.
StopDaemon ==
  /\ up /\ up' = FALSE /\ daemon' = 0 /\ vaults' = <<>> /\ kills < MaxKilled /\ kills' = kills + 1
  /\ req' = [r \in Requests |-> NoRequest]
  /\ UNCHANGED <<sealed, fileVars, cmd, stored, overtaken, ops>>

Serves(r, n) == up /\ daemon # 0 /\ req[r] = NoRequest /\ \A q \in Requests : req[q].name # n

\* put, generate: the secret is in memory before it is on disk.
Put(r, n) ==
  /\ Serves(r, n) /\ Counted
  /\ vaults' = [vaults EXCEPT ![daemon].has = @ \cup {n}]
  /\ req' = [req EXCEPT ![r] = [NoRequest EXCEPT !.step = "put", !.vault = daemon, !.name = n, !.left = 2]]
  /\ UNCHANGED <<sealed, fileVars, daemon, up, cmd, stored, overtaken, kills>>

RemoveSecret(r, n) ==
  /\ Serves(r, n) /\ Counted /\ stored' = stored \ {n}
  /\ vaults' = [vaults EXCEPT ![daemon].has = @ \ {n}]
  /\ req' = [req EXCEPT ![r] = [NoRequest EXCEPT !.step = "delete", !.vault = daemon, !.name = n, !.left = 2]]
  /\ UNCHANGED <<sealed, fileVars, daemon, up, cmd, overtaken, kills>>

\* Save takes names and key under one lock, and writes without it.
Snapshot(r) ==
  /\ req[r].step \in {"put", "delete"} /\ req[r].snap = NoVault
  /\ req' = [req EXCEPT ![r].snap = vaults[req[r].vault]]
  /\ UNCHANGED <<sealed, fileVars, daemon, up, vaults, cmd, stored, overtaken, ops, kills>>

\* Set saves, and put saves again; the request is answered after both.
SaveRequest(r) ==
  /\ req[r].step \in {"put", "delete"} /\ req[r].snap # NoVault
  /\ Install(req[r].snap)
  /\ IF req[r].left = 2
     THEN req' = [req EXCEPT ![r].left = 1, ![r].snap = NoVault] /\ UNCHANGED stored
     ELSE /\ req' = [req EXCEPT ![r] = NoRequest]
          /\ stored' = IF req[r].step = "put" THEN stored \cup {req[r].name} ELSE stored
  /\ UNCHANGED <<fileVars, daemon, up, vaults, cmd, ops, kills>>

\* A save that fails leaves the file, and memory as it is.
SaveFails(r) ==
  /\ req[r].step # "idle" /\ req[r].step # "swap" /\ req[r].snap # NoVault
  /\ req' = [req EXCEPT ![r] = NoRequest]
  /\ UNCHANGED <<sealed, fileVars, daemon, up, vaults, cmd, stored, overtaken, ops, kills>>

\* unlock: OpenWithKey, then the new vault is written if there is still none, then it
\* becomes the daemon's. Nothing keeps a second unlock or a put out.
Unlock(r, k) ==
  /\ up /\ req[r] = NoRequest /\ Len(vaults) < MaxOpens /\ Typed(k) /\ Opens(k) /\ Counted
  /\ keysKnown' = keysKnown \cup {k}
  /\ vaults' = Append(vaults, OpenWith(k))
  /\ req' = [req EXCEPT ![r] = [NoRequest EXCEPT !.step = "unlock", !.vault = Len(vaults) + 1]]
  /\ UNCHANGED <<sealed, backup, keyFile, fromFile, daemon, up, cmd, stored, overtaken, kills>>

CreateVault(r) ==
  /\ req[r].step = "unlock"
  /\ req' = [req EXCEPT ![r].step = IF sealed = NoVault THEN "create" ELSE "swap",
                        ![r].snap = IF sealed = NoVault THEN vaults[req[r].vault] ELSE NoVault]
  /\ UNCHANGED <<sealed, fileVars, daemon, up, vaults, cmd, stored, overtaken, ops, kills>>

SaveNew(r) ==
  /\ req[r].step = "create" /\ Install(req[r].snap)
  /\ req' = [req EXCEPT ![r].step = "swap", ![r].snap = NoVault]
  /\ UNCHANGED <<fileVars, daemon, up, vaults, cmd, stored, ops, kills>>

Swap(r) ==
  /\ req[r].step = "swap" /\ daemon' = req[r].vault /\ req' = [req EXCEPT ![r] = NoRequest]
  /\ UNCHANGED <<sealed, fileVars, up, vaults, cmd, stored, overtaken, ops, kills>>

------------------------------------------------------------------------------
(* The commands. *)

\* keygen -out: an existing key file is never replaced.
Keygen(k) ==
  /\ cmd.step = "idle" /\ fromFile /\ keyFile = "none" /\ k \notin keysKnown /\ Counted /\ keyFile' = k
  /\ UNCHANGED <<sealed, backup, fromFile, keysKnown, daemon, up, vaults, req, cmd, stored, overtaken, kills>>

\* vault set, beside a daemon that may be running. With no source it asks for the key.
SetOpen(n) ==
  /\ cmd.step = "idle" /\ Counted
  /\ \E k \in IF fromFile THEN Resolved ELSE {j \in MasterKeys : Typed(j)} :
       /\ Opens(k) /\ cmd' = [step |-> "set", copy |-> [OpenWith(k) EXCEPT !.has = @ \cup {n}], arg |-> n]
       /\ keysKnown' = IF fromFile THEN keysKnown ELSE keysKnown \cup {k}
  /\ \A r \in Requests : req[r].name # n
  /\ UNCHANGED <<sealed, backup, keyFile, fromFile, daemon, up, vaults, req, stored, overtaken, kills>>

SetSave ==
  /\ cmd.step = "set" /\ Install(cmd.copy) /\ cmd' = NoCommand /\ stored' = stored \cup {cmd.arg}
  /\ UNCHANGED <<fileVars, daemon, up, vaults, req, ops, kills>>

\* vault rekey: the vault is vaults under the key in force, or nothing is done.
RekeyOpen(k) ==
  /\ cmd.step = "idle" /\ ~up /\ k \notin AtHand /\ Counted
  /\ \E old \in Resolved : Opens(old) /\ cmd' = [step |-> "backup", copy |-> OpenWith(old), arg |-> k]
  /\ \/ keysKnown' = keysKnown            \* generated
     \/ keysKnown' = keysKnown \cup {k}   \* read from stdin
  /\ UNCHANGED <<sealed, backup, keyFile, fromFile, daemon, up, vaults, req, stored, overtaken, kills>>

\* Mutant: the re-encryption makes do without the copy.
RekeyNoBackup ==
  /\ cmd.step = "backup" /\ cmd' = [cmd EXCEPT !.step = "encrypt"]
  /\ UNCHANGED <<sealed, fileVars, daemon, up, vaults, req, stored, overtaken, ops, kills>>

RekeyBackup ==
  /\ cmd.step = "backup" /\ cmd' = [cmd EXCEPT !.step = "encrypt"]
  /\ backup' = IF sealed = NoVault THEN backup ELSE sealed
  /\ UNCHANGED <<sealed, keyFile, fromFile, keysKnown, daemon, up, vaults, req, stored, overtaken, ops, kills>>

RekeyEncrypt ==
  /\ cmd.step = "encrypt" /\ Install([cmd.copy EXCEPT !.key = cmd.arg])
  /\ cmd' = [cmd EXCEPT !.step = "install"]
  /\ UNCHANGED <<fileVars, daemon, up, vaults, req, stored, ops, kills>>

\* The key goes to the file the source reads, or is printed for a person to store.
RekeyInstall ==
  /\ cmd.step = "install" /\ cmd' = NoCommand
  /\ IF fromFile THEN keyFile' = cmd.arg /\ UNCHANGED keysKnown
                 ELSE keysKnown' = keysKnown \cup {cmd.arg} /\ UNCHANGED keyFile
  /\ UNCHANGED <<sealed, backup, fromFile, daemon, up, vaults, req, stored, overtaken, ops, kills>>

\* A command fails at a step, or is killed before it.
CommandEnds ==
  /\ cmd.step # "idle" /\ cmd' = NoCommand /\ kills < MaxKilled /\ kills' = kills + 1
  /\ UNCHANGED <<sealed, fileVars, daemon, up, vaults, req, stored, overtaken, ops>>

\* What the command says to do when the new key could not be installed.
Restore ==
  /\ ~up /\ cmd.step = "idle" /\ sealed.key \notin AtHand /\ backup.key \in AtHand
  /\ Install(backup)
  /\ UNCHANGED <<fileVars, daemon, up, vaults, req, cmd, stored, ops, kills>>

------------------------------------------------------------------------------
VaultNext ==
  \/ Start \/ StopDaemon \/ SetSave \/ RekeyBackup \/ RekeyEncrypt \/ RekeyInstall \/ CommandEnds \/ Restore
  \/ \E r \in Requests :
       \/ \E n \in Secrets : Put(r, n) \/ RemoveSecret(r, n)
       \/ \E k \in MasterKeys : Unlock(r, k)
       \/ Snapshot(r) \/ SaveRequest(r) \/ SaveFails(r) \/ CreateVault(r) \/ SaveNew(r) \/ Swap(r)
  \/ \E n \in Secrets : SetOpen(n)
  \/ \E k \in MasterKeys : Keygen(k) \/ RekeyOpen(k)

VaultSpec == VaultInit /\ [][VaultNext]_vaultVars

VaultTypeOK ==
  /\ sealed \in Copies /\ backup \in Copies /\ keyFile \in MasterKeys \cup {"none"}
  /\ keysKnown \subseteq MasterKeys /\ vaults \in Seq(Copies) /\ daemon \in 0..Len(vaults)
  /\ up \in BOOLEAN /\ stored \subseteq Secrets /\ overtaken \subseteq Secrets
  /\ \A r \in Requests : req[r].snap \in Copies /\ req[r].vault \in 0..Len(vaults)
  /\ cmd.copy \in Copies

\* A secret that was stored can be read again, wherever a rekey, a save or a process stopped:
\* it is in the vault or in the rekey's copy of it, under a key that somebody has.
SecretsAreReadable ==
  \A n \in stored \ overtaken :
    \E c \in {sealed, backup} : n \in c.has /\ c.key \in AtHand
===============================================================================
