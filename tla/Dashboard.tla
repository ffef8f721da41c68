------------------------------ MODULE Dashboard ------------------------------
(***************************************************************************)
(* What the dashboard shows: the startup banner and report, the ring of    *)
(* recent events, and the status payload, which is put together from       *)
(* several reads and pushed to a page when it differs from the last one.   *)
(* One preview stands for all of them; a build is its number.              *)
(***************************************************************************)
EXTENDS Naturals, Sequences

CONSTANTS
  Restores,  (* shares to republish at startup                              *)
  Size,      (* entries of the ring (200)                                   *)
  MaxBuilds, (* bound: builds of the preview                                *)
  MaxBoots   (* bound: starts of the process                                *)

ASSUME DashboardAssumption == Size \in Nat \ {0} /\ MaxBuilds \in Nat /\ MaxBoots \in Nat

Builds == 1..MaxBuilds
NoStage == <<"none", 0>>

VARIABLES
  boot,      \* Run: "down", "serving", "reap", "restore", "history", "summary", "flag", "clear", "up"
  boots,
  starting,  \* d.starting
  stage,     \* d.startup: a stage and a count
  summary,   \* d.lastStartup is set
  counted,   \* d.startupDone
  restore,   \* a republish: "waiting", its count once it has taken one, then "told"
  ring, next, full,
  refill,    \* backfill: rows still to be added
  built,     \* rows of the builds table, in the order they started
  pushed,    \* builds asked for so far
  queued, claimed, running, \* the build in the queue, claimed, or in d.running; 0 for none
  row,       \* the build whose outcome the preview's row holds, 0 for no row
  rpc,       \* the payload being put together: what Status reads next
  payload,   \* what it has read
  page       \* the last payload sent to the open page

bootVars == <<boot, boots, starting, stage, summary, counted, restore, refill>>
ringVars == <<ring, next, full>>
jobVars == <<built, pushed, queued, claimed, running, row>>
readVars == <<rpc, payload, page>>
dashVars == <<bootVars, ringVars, jobVars, readVars>>

\* recent: up to n events, newest first, walking backwards from the last write.
Recent(n) ==
  LET have == IF full THEN Size ELSE next
      take == IF n < have THEN n ELSE have IN
  [i \in 1..take |-> ring[(next - i + Size) % Size]]

NoPayload == [starting |-> TRUE, stage |-> NoStage, summary |-> FALSE, shown |-> <<"none", 0>>, events |-> <<>>]

DashInit ==
  /\ boot = "down" /\ boots = 0 /\ starting = FALSE /\ stage = NoStage /\ summary = FALSE
  /\ counted = 0 /\ restore = [r \in Restores |-> <<"told", 0>>] /\ refill = <<>>
  /\ ring = [i \in 0..(Size - 1) |-> 0] /\ next = 0 /\ full = FALSE
  /\ built = <<>> /\ pushed = 0 /\ queued = 0 /\ claimed = 0 /\ running = 0 /\ row = 0
  /\ rpc = "closed" /\ payload = NoPayload /\ page = NoPayload

-----------------------------------------------------------------------------
(* Run, up to the workers. *)

\* Mutant: the oldest entry is skipped when the ring wraps.
AddWraps(e) ==
  /\ ring' = [ring EXCEPT ![next] = e]
  /\ next' = (next + 1) % Size
  /\ full' = (next' = 0)

Add(e) ==
  /\ ring' = [ring EXCEPT ![next] = e]
  /\ next' = (next + 1) % Size
  /\ full' = (full \/ next' = 0)

\* The daemon is constructed and the listeners serve before Run is called.
Serve ==
  /\ boot = "down" /\ boots < MaxBoots
  /\ boots' = boots + 1 /\ boot' = "serving"
  /\ UNCHANGED <<starting, stage, summary, counted, restore, refill, ringVars, jobVars, readVars>>

Boot ==
  /\ boot = "serving" /\ boot' = "reap" /\ starting' = TRUE
  /\ stage' = <<"reaping", 0>> /\ counted' = 0
  /\ restore' = [r \in Restores |-> <<"waiting", 0>>]
  /\ UNCHANGED <<boots, summary, refill, ringVars, jobVars, readVars>>

BeginRestores ==
  /\ boot = "reap" /\ boot' = "restore" /\ stage' = <<"restoring", 0>>
  /\ UNCHANGED <<boots, starting, summary, counted, restore, refill, ringVars, jobVars, readVars>>

\* bumpStartup: the count is taken in one step and shown in another.
CountRestore(r) ==
  /\ boot = "restore" /\ restore[r][1] = "waiting"
  /\ counted' = counted + 1
  /\ restore' = [restore EXCEPT ![r] = <<"counted", counted + 1>>]
  /\ UNCHANGED <<boot, boots, starting, stage, summary, refill, ringVars, jobVars, readVars>>

ShowRestore(r) ==
  /\ restore[r][1] = "counted"
  /\ stage' = <<"restoring", restore[r][2]>>
  /\ restore' = [restore EXCEPT ![r] = <<"told", 0>>]
  /\ UNCHANGED <<boot, boots, starting, summary, counted, refill, ringVars, jobVars, readVars>>

\* Mutant: the rows are added as they are listed, newest first.
BeginHistoryNewestFirst ==
  /\ boot = "restore" /\ \A r \in Restores : restore[r][1] = "told"
  /\ boot' = "history" /\ stage' = <<"history", 0>>
  /\ refill' = [i \in 1..Len(built) |-> built[Len(built) - i + 1]]
  /\ UNCHANGED <<boots, starting, summary, counted, restore, ringVars, jobVars, readVars>>

\* RecentBuilds lists the newest first, at most as many as the ring holds.
BeginHistory ==
  /\ boot = "restore" /\ \A r \in Restores : restore[r][1] = "told"
  /\ boot' = "history" /\ stage' = <<"history", 0>>
  /\ refill' = SubSeq(built, IF Len(built) > Size THEN Len(built) - Size + 1 ELSE 1, Len(built))
  /\ UNCHANGED <<boots, starting, summary, counted, restore, ringVars, jobVars, readVars>>

\* backfill adds them oldest first.
Backfill ==
  /\ boot = "history"
  /\ IF refill = <<>>
     THEN boot' = "summary" /\ UNCHANGED <<refill, ringVars>>
     ELSE Add(Head(refill)) /\ refill' = Tail(refill) /\ UNCHANGED boot
  /\ UNCHANGED <<boots, starting, stage, summary, counted, restore, jobVars, readVars>>

Summarise ==
  /\ boot = "summary" /\ boot' = "flag" /\ summary' = TRUE
  /\ UNCHANGED <<boots, starting, stage, counted, restore, refill, ringVars, jobVars, readVars>>

LowerFlag ==
  /\ boot = "flag" /\ boot' = "clear" /\ starting' = FALSE
  /\ UNCHANGED <<boots, stage, summary, counted, restore, refill, ringVars, jobVars, readVars>>

ClearStage ==
  /\ boot = "clear" /\ boot' = "up" /\ stage' = NoStage
  /\ UNCHANGED <<boots, starting, summary, counted, restore, refill, ringVars, jobVars, readVars>>

\* The process dies: what is in memory goes, and with it a build already claimed.
Die ==
  /\ boot # "down" /\ boots < MaxBoots /\ boot' = "down"
  /\ starting' = FALSE /\ stage' = NoStage /\ summary' = FALSE /\ refill' = <<>>
  /\ restore' = [r \in Restores |-> <<"told", 0>>]
  /\ ring' = [i \in 0..(Size - 1) |-> 0] /\ next' = 0 /\ full' = FALSE
  /\ claimed' = 0 /\ running' = 0
  /\ rpc' = "closed" /\ payload' = NoPayload /\ page' = NoPayload
  /\ UNCHANGED <<boots, counted, built, queued, pushed, row>>

-----------------------------------------------------------------------------
(* A build, as far as the page can tell. *)

Push ==
  /\ boot # "down" /\ pushed < MaxBuilds
  /\ pushed' = pushed + 1 /\ queued' = pushed + 1
  /\ UNCHANGED <<bootVars, ringVars, built, claimed, running, row, readVars>>

Claim ==
  /\ boot = "up" /\ queued # 0 /\ claimed = 0 /\ running = 0
  /\ claimed' = queued /\ queued' = 0
  /\ UNCHANGED <<bootVars, ringVars, built, running, pushed, row, readVars>>

Register ==
  /\ claimed # 0 /\ running' = claimed /\ claimed' = 0
  /\ built' = Append(built, claimed)
  /\ Add(claimed)
  /\ UNCHANGED <<bootVars, queued, pushed, row, readVars>>

SaveRow ==
  /\ running # 0 /\ row # running /\ row' = running
  /\ Add(running)
  /\ UNCHANGED <<bootVars, built, queued, claimed, running, pushed, readVars>>

Unregister ==
  /\ running # 0 /\ row = running /\ running' = 0
  /\ UNCHANGED <<bootVars, ringVars, built, queued, claimed, pushed, row, readVars>>

-----------------------------------------------------------------------------
(* Status and streamStatus. *)

Connect ==
  /\ boot # "down" /\ rpc = "closed" /\ rpc' = "rows"
  /\ UNCHANGED <<bootVars, ringVars, jobVars, payload, page>>

ReadRows ==
  /\ rpc = "rows" /\ rpc' = "queue"
  /\ payload' = [NoPayload EXCEPT !.shown = <<"row", row>>]
  /\ UNCHANGED <<bootVars, ringVars, jobVars, page>>

ReadQueue ==
  /\ rpc = "queue" /\ rpc' = "running"
  /\ payload' = IF queued = 0 THEN payload ELSE [payload EXCEPT !.shown = <<"queued", queued>>]
  /\ UNCHANGED <<bootVars, ringVars, jobVars, page>>

\* Building wins over queued.
ReadRunning ==
  /\ rpc = "running" /\ rpc' = "flag"
  /\ payload' = IF running = 0 THEN payload ELSE [payload EXCEPT !.shown = <<"building", running>>]
  /\ UNCHANGED <<bootVars, ringVars, jobVars, page>>

ReadFlag ==
  /\ rpc = "flag" /\ rpc' = "stage"
  /\ payload' = [payload EXCEPT !.starting = starting]
  /\ UNCHANGED <<bootVars, ringVars, jobVars, page>>

ReadStage ==
  /\ rpc = "stage" /\ rpc' = "send"
  /\ payload' = [payload EXCEPT !.stage = stage, !.summary = summary, !.events = Recent(Size)]
  /\ UNCHANGED <<bootVars, ringVars, jobVars, page>>

\* Mutant: the payload is compared by what the rows say alone.
SendIfShownChanged ==
  /\ rpc = "send" /\ rpc' = "rows"
  /\ page' = IF payload.shown[1] = page.shown[1] THEN page ELSE payload
  /\ UNCHANGED <<bootVars, ringVars, jobVars, payload>>

\* Sent when it differs from the last one; the next tick starts over.
Send ==
  /\ rpc = "send" /\ rpc' = "rows" /\ page' = payload
  /\ UNCHANGED <<bootVars, ringVars, jobVars, payload>>

BootStep ==
  \/ Boot \/ BeginRestores \/ BeginHistory \/ Backfill \/ Summarise \/ LowerFlag \/ ClearStage
  \/ \E r \in Restores : CountRestore(r) \/ ShowRestore(r)

BuildStep == Claim \/ Register \/ SaveRow \/ Unregister

ReadStep == ReadRows \/ ReadQueue \/ ReadRunning \/ ReadFlag \/ ReadStage \/ Send

DashNext == Serve \/ BootStep \/ Die \/ Push \/ BuildStep \/ Connect \/ ReadStep

\* Startup and a build end, and the ticker keeps ticking.
DashFairness == WF_dashVars(BootStep) /\ WF_dashVars(BuildStep) /\ WF_dashVars(ReadStep)

DashSpec == DashInit /\ [][DashNext]_dashVars /\ DashFairness

-----------------------------------------------------------------------------
\* Every variable has its type.
DashTypeOK ==
  /\ boot \in {"down", "serving", "reap", "restore", "history", "summary", "flag", "clear", "up"}
  /\ boots \in 0..MaxBoots /\ {starting, summary, full} \subseteq BOOLEAN
  /\ stage \in {"none", "reaping", "restoring", "history"} \X Nat /\ counted \in Nat
  /\ restore \in [Restores -> {"waiting", "counted", "told"} \X Nat]
  /\ refill \in Seq(Builds) /\ Len(refill) <= Size
  /\ ring \in [0..(Size - 1) -> 0..MaxBuilds] /\ next \in 0..(Size - 1)
  /\ built \in Seq(Builds) /\ {queued, claimed, running, pushed, row} \subseteq 0..MaxBuilds
  /\ rpc \in {"closed", "rows", "queue", "running", "flag", "stage", "send"}

\* The ring shows the newest events, newest first, whatever is added and however often
\* it wraps, and forgets them only in a restart.
Feed == INSTANCE RecentEvents WITH Event <- Builds, recent <- Recent(Size)
FeedIsRecent == Feed!RecentSpec

\* A page that stays open ends up showing how things are, if they stay that way.
Settled == boot = "up" /\ queued = 0 /\ claimed = 0 /\ running = 0 /\ rpc # "closed"
PageCatchesUp ==
  [](Settled => <>(~Settled \/ (page.shown = <<"row", row>> /\ page.events = Recent(Size) /\ ~page.starting)))
=============================================================================
