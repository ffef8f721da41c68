------------------------------ MODULE BuildLog -------------------------------
(***************************************************************************)
(* The build logs of one preview: buildlog.Writer with its tails, the      *)
(* store that knows the log of the build in flight, its sweep, and the     *)
(* dashboard's log stream. A line is its number in the log; what is read   *)
(* back or sent on is the run of numbers up to it.                         *)
(***************************************************************************)
EXTENDS Naturals, Sequences, SequencesExt

CONSTANTS
  Viewers,  (* browsers that open the preview's log stream                  *)
  MaxLogs,  (* bound: builds of the preview                                *)
  MaxLines, (* bound: lines a build prints                                  *)
  Buffer,   (* channel capacity of a tail (1024)                            *)
  Backlog   (* stored lines a tail starts with (500)                        *)

Logs == 1..MaxLogs

ASSUME LogAssumption ==
  /\ MaxLogs \in Nat /\ MaxLines \in Nat
  /\ Backlog \in Nat \ {0} /\ Buffer \in Nat /\ Backlog <= Buffer

VARIABLES
  wpos,    \* a build's log: "none", "created", "open", "left" by a superseded build, "ended",
           \* "closed"
  liveLog, \* Store.live: the build whose writer is registered, 0 when none is
  emitted, \* complete lines the build wrote while its log was open, one being held back
           \* in w.partial when heldBack is set
  heldBack,
  stored,  \* lines in the file
  onDisk,  \* the file is still in its directory
  writeErr,  \* a write failed: the file is left alone from then on
  ageing,  \* the newest log of the directory is older than the TTL
  vpos,    \* a viewer: "away", "history", "await", "attach", "tail", "over"
  tailing, \* the build a viewer's tail reads
  tailChan,    \* the lines in its channel
  subscribed, \* its channel is registered with the writer
  sent,     \* the last line it was sent, 0 for none yet
  spos     \* Sweep: "idle", "judged", "checked"; Remove: "removing"

fileVars == <<emitted, heldBack, stored, writeErr>>
viewVars == <<vpos, tailing, tailChan, subscribed, sent>>
logVars == <<wpos, liveLog, fileVars, onDisk, ageing, viewVars, spos>>

LogInit ==
  /\ wpos = [b \in Logs |-> "none"] /\ liveLog = 0
  /\ emitted = [b \in Logs |-> 0] /\ heldBack = [b \in Logs |-> FALSE]
  /\ stored = [b \in Logs |-> 0] /\ writeErr = [b \in Logs |-> FALSE]
  /\ onDisk = [b \in Logs |-> FALSE] /\ ageing = FALSE
  /\ vpos = [v \in Viewers |-> "away"] /\ tailing = [v \in Viewers |-> 0]
  /\ tailChan = [v \in Viewers |-> <<>>] /\ subscribed = [v \in Viewers |-> FALSE]
  /\ sent = [v \in Viewers |-> 0]
  /\ spos = "idle"

-----------------------------------------------------------------------------
(* Writer. *)

\* emit: to the file unless a write failed, and to every tail; one that cannot keep up
\* is closed and dropped.
Emit(b, line) ==
  /\ \/ ~writeErr[b] /\ stored' = [stored EXCEPT ![b] = line] /\ UNCHANGED writeErr
     \/ writeErr' = [writeErr EXCEPT ![b] = TRUE] /\ UNCHANGED stored
  /\ LET tails == {v \in Viewers : subscribed[v] /\ tailing[v] = b}
         full  == {v \in tails : Len(tailChan[v]) = Buffer} IN
     /\ tailChan' = [v \in Viewers |-> IF v \in tails \ full THEN Append(tailChan[v], line) ELSE tailChan[v]]
     /\ subscribed' = [v \in Viewers |-> subscribed[v] /\ v \notin full]

\* Write: a whole line is emitted, and the start of the next one held back.
WriteLine(b) ==
  /\ wpos[b] = "open" /\ emitted[b] < MaxLines
  /\ emitted' = [emitted EXCEPT ![b] = @ + 1]
  /\ Emit(b, emitted[b] + 1)
  /\ heldBack' = [heldBack EXCEPT ![b] = FALSE]
  /\ UNCHANGED <<wpos, liveLog, onDisk, ageing, vpos, tailing, sent, spos>>

WriteHalf(b) ==
  /\ wpos[b] = "open" /\ emitted[b] < MaxLines /\ ~heldBack[b]
  /\ heldBack' = [heldBack EXCEPT ![b] = TRUE]
  /\ UNCHANGED <<wpos, liveLog, emitted, stored, writeErr, onDisk, ageing, viewVars, spos>>

\* Mutant: the held-back line is not flushed, nor the tails told.
CloseQuietly(b) == UNCHANGED <<fileVars, tailChan, subscribed>>

\* Close: the held-back line is emitted, and every tail that is still registered closed.
CloseWriter(b) ==
  /\ heldBack' = [heldBack EXCEPT ![b] = FALSE]
  /\ IF heldBack[b]
     THEN /\ emitted' = [emitted EXCEPT ![b] = @ + 1]
          /\ \/ ~writeErr[b] /\ stored' = [stored EXCEPT ![b] = emitted[b] + 1] /\ UNCHANGED writeErr
             \/ writeErr' = [writeErr EXCEPT ![b] = TRUE] /\ UNCHANGED stored
          /\ tailChan' = [v \in Viewers |->
               IF subscribed[v] /\ tailing[v] = b /\ Len(tailChan[v]) < Buffer
               THEN Append(tailChan[v], emitted[b] + 1) ELSE tailChan[v]]
     ELSE UNCHANGED <<emitted, stored, writeErr, tailChan>>
  /\ subscribed' = [v \in Viewers |-> subscribed[v] /\ tailing[v] # b]

-----------------------------------------------------------------------------
(* Store: Begin, Finish, Remove, Sweep. *)

\* Begin makes the file before it registers the writer.
BeginLog(b) ==
  /\ wpos[b] = "none" /\ \A c \in Logs : c < b => wpos[c] # "none"
  /\ wpos' = [wpos EXCEPT ![b] = "created"]
  /\ onDisk' = [onDisk EXCEPT ![b] = TRUE] /\ ageing' = FALSE
  /\ UNCHANGED <<liveLog, fileVars, viewVars, spos>>

\* The writer it replaces is closed outside the lock.
RegisterLog(b) ==
  /\ wpos[b] = "created"
  /\ wpos' = [c \in Logs |-> IF c = b THEN "open" ELSE IF c = liveLog THEN "ended" ELSE wpos[c]]
  /\ liveLog' = b
  /\ UNCHANGED <<fileVars, onDisk, ageing, viewVars, spos>>

\* A build that was superseded or cancelled before its commit returns without Finish.
Leave(b) ==
  /\ wpos[b] = "open" /\ wpos' = [wpos EXCEPT ![b] = "left"]
  /\ UNCHANGED <<liveLog, fileVars, onDisk, ageing, viewVars, spos>>

\* Finish: the entry goes if it is still this writer's, then the writer is closed.
FinishLog(b) ==
  /\ wpos[b] = "open" /\ wpos' = [wpos EXCEPT ![b] = "ended"]
  /\ liveLog' = IF liveLog = b THEN 0 ELSE liveLog
  /\ UNCHANGED <<fileVars, onDisk, ageing, viewVars, spos>>

CloseLog(b) ==
  /\ wpos[b] = "ended" /\ wpos' = [wpos EXCEPT ![b] = "closed"]
  /\ CloseWriter(b)
  /\ UNCHANGED <<liveLog, onDisk, ageing, vpos, tailing, sent, spos>>

\* Remove closes and forgets the live writer under the lock, then deletes the directory.
RemoveLogs ==
  /\ spos = "idle" /\ spos' = "removing"
  /\ IF liveLog # 0
     THEN /\ wpos' = [wpos EXCEPT ![liveLog] = "closed"]
          /\ liveLog' = 0
          /\ CloseWriter(liveLog)
     ELSE UNCHANGED <<wpos, liveLog, fileVars, tailChan, subscribed>>
  /\ UNCHANGED <<onDisk, ageing, vpos, tailing, sent>>

Age ==
  /\ \E b \in Logs : onDisk[b]
  /\ liveLog = 0 /\ ageing' = TRUE
  /\ UNCHANGED <<wpos, liveLog, fileVars, onDisk, viewVars, spos>>

\* Sweep: not in the snapshot of live logs, and old by its newest log; not live when
\* it is looked at again; and deleted.
SweepJudge ==
  /\ spos = "idle" /\ liveLog = 0 /\ ageing
  /\ spos' = "judged"
  /\ UNCHANGED <<wpos, liveLog, fileVars, onDisk, ageing, viewVars>>

SweepRecheck ==
  /\ spos = "judged"
  /\ spos' = IF liveLog = 0 THEN "checked" ELSE "idle"
  /\ UNCHANGED <<wpos, liveLog, fileVars, onDisk, ageing, viewVars>>

DeleteDir ==
  /\ spos \in {"checked", "removing"} /\ spos' = "idle"
  /\ onDisk' = [b \in Logs |-> FALSE] /\ ageing' = FALSE
  /\ UNCHANGED <<wpos, liveLog, fileVars, viewVars>>

-----------------------------------------------------------------------------
(* streamLog. *)

\* The build in flight is tailed; without one the newest log is replayed first.
Watch(v) ==
  /\ vpos[v] = "away"
  /\ vpos' = [vpos EXCEPT ![v] = IF liveLog # 0 THEN "attach" ELSE "history"]
  /\ tailing' = [tailing EXCEPT ![v] = liveLog]
  /\ UNCHANGED <<wpos, liveLog, fileVars, onDisk, ageing, tailChan, subscribed, sent, spos>>

\* Expecting: a build that is queued or running is waited for. It may also be missed,
\* between the queue and d.running.
Replayed(v) ==
  /\ vpos[v] = "history"
  /\ \/ vpos' = [vpos EXCEPT ![v] = "over"]
     \/ (\E b \in Logs : wpos[b] = "none") /\ vpos' = [vpos EXCEPT ![v] = "await"]
  /\ UNCHANGED <<wpos, liveLog, fileVars, onDisk, ageing, tailing, tailChan, subscribed, sent, spos>>

AwaitLive(v) ==
  /\ vpos[v] = "await" /\ liveLog # 0
  /\ vpos' = [vpos EXCEPT ![v] = "attach"] /\ tailing' = [tailing EXCEPT ![v] = liveLog]
  /\ UNCHANGED <<wpos, liveLog, fileVars, onDisk, ageing, tailChan, subscribed, sent, spos>>

\* Mutant: the newest stored line is not replayed.
TailShort(b) == [i \in 1..(IF stored[b] = 0 THEN 0 ELSE IF stored[b] < Backlog THEN stored[b] - 1 ELSE Backlog - 1)
                   |-> i + (IF stored[b] <= Backlog THEN 0 ELSE stored[b] - Backlog)]

\* Tail: the last lines of the file, none when it is gone.
TailOf(b) ==
  IF ~onDisk[b] THEN <<>>
  ELSE LET n == IF stored[b] <= Backlog THEN stored[b] ELSE Backlog IN
       [i \in 1..n |-> i + stored[b] - n]

\* Mutant: a log that has ended is registered with like one that is written.
SubscribeToEnded(v) ==
  /\ vpos[v] = "attach" /\ vpos' = [vpos EXCEPT ![v] = "tail"]
  /\ tailChan' = [tailChan EXCEPT ![v] = TailOf(tailing[v])]
  /\ subscribed' = [subscribed EXCEPT ![v] = TRUE]
  /\ UNCHANGED <<wpos, liveLog, fileVars, onDisk, ageing, tailing, sent, spos>>

\* Subscribe: replay and registration under the writer's lock; a log that has ended is
\* replayed and its channel closed at once.
Subscribe(v) ==
  /\ vpos[v] = "attach" /\ vpos' = [vpos EXCEPT ![v] = "tail"]
  /\ tailChan' = [tailChan EXCEPT ![v] = TailOf(tailing[v])]
  /\ subscribed' = [subscribed EXCEPT ![v] = wpos[tailing[v]] # "closed"]
  /\ UNCHANGED <<wpos, liveLog, fileVars, onDisk, ageing, tailing, sent, spos>>

Receive(v) ==
  /\ vpos[v] = "tail" /\ tailChan[v] # <<>>
  /\ sent' = [sent EXCEPT ![v] = Head(tailChan[v])] /\ tailChan' = [tailChan EXCEPT ![v] = Tail(@)]
  /\ UNCHANGED <<wpos, liveLog, fileVars, onDisk, ageing, vpos, tailing, subscribed, spos>>

\* A closed and empty channel: "done" is sent and the stream ends.
Done(v) ==
  /\ vpos[v] = "tail" /\ tailChan[v] = <<>> /\ ~subscribed[v]
  /\ vpos' = [vpos EXCEPT ![v] = "over"]
  /\ UNCHANGED <<wpos, liveLog, fileVars, onDisk, ageing, tailing, tailChan, subscribed, sent, spos>>

\* The browser goes away: cancel takes the tail off the writer.
Hangup(v) ==
  /\ vpos[v] # "away" /\ vpos' = [vpos EXCEPT ![v] = "away"]
  /\ tailing' = [tailing EXCEPT ![v] = 0]
  /\ tailChan' = [tailChan EXCEPT ![v] = <<>>] /\ subscribed' = [subscribed EXCEPT ![v] = FALSE]
  /\ sent' = [sent EXCEPT ![v] = 0]
  /\ UNCHANGED <<wpos, liveLog, fileVars, onDisk, ageing, spos>>

LogNext ==
  \/ \E b \in Logs : WriteLine(b) \/ WriteHalf(b) \/ BeginLog(b) \/ RegisterLog(b) \/ Leave(b) \/ FinishLog(b) \/ CloseLog(b)
  \/ RemoveLogs \/ Age \/ SweepJudge \/ SweepRecheck \/ DeleteDir
  \/ \E v \in Viewers : Watch(v) \/ Replayed(v) \/ AwaitLive(v) \/ Subscribe(v) \/ Receive(v)
                        \/ Done(v) \/ Hangup(v)

\* A build ends in its timeout at the latest, by Finish or without, and the stream's loop
\* keeps running.
LogFairness ==
  /\ \A b \in Logs : WF_logVars(RegisterLog(b) \/ FinishLog(b) \/ Leave(b) \/ CloseLog(b))
  /\ \A v \in Viewers : WF_logVars(Subscribe(v) \/ Receive(v) \/ Done(v))

LogSpec == LogInit /\ [][LogNext]_logVars /\ LogFairness

-----------------------------------------------------------------------------
\* Every variable has its type.
LogTypeOK ==
  /\ wpos \in [Logs -> {"none", "created", "open", "left", "ended", "closed"}]
  /\ liveLog \in 0..MaxLogs
  /\ emitted \in [Logs -> 0..MaxLines] /\ heldBack \in [Logs -> BOOLEAN]
  /\ stored \in [Logs -> 0..MaxLines] /\ writeErr \in [Logs -> BOOLEAN]
  /\ onDisk \in [Logs -> BOOLEAN] /\ ageing \in BOOLEAN
  /\ vpos \in [Viewers -> {"away", "history", "await", "attach", "tail", "over"}]
  /\ tailing \in [Viewers -> 0..MaxLogs]
  /\ \A v \in Viewers : tailChan[v] \in Seq(1..MaxLines) /\ Len(tailChan[v]) <= Buffer
  /\ subscribed \in [Viewers -> BOOLEAN] /\ sent \in [Viewers -> 0..MaxLines]
  /\ spos \in {"idle", "judged", "checked", "removing"}

\* A tail misses nothing while the file can be written: its lines are consecutive from
\* the first it was given on, and while it is registered they go up to the last line the
\* build printed.
TailHasNoGap ==
  \A v \in Viewers : vpos[v] = "tail" /\ ~writeErr[tailing[v]] =>
    LET b == tailing[v]
        last == IF tailChan[v] = <<>> THEN sent[v] ELSE Last(tailChan[v]) IN
    /\ \A i \in 2..Len(tailChan[v]) : tailChan[v][i] = tailChan[v][i - 1] + 1
    /\ sent[v] # 0 /\ tailChan[v] # <<>> => Head(tailChan[v]) = sent[v] + 1
    /\ subscribed[v] /\ last # 0 => last = emitted[b]
    /\ subscribed[v] /\ last = 0 /\ onDisk[b] => emitted[b] = 0

\* A closed log holds every line the build emitted, the unfinished one included, unless
\* a write failed.
ClosedLogIsWhole ==
  \A b \in Logs : wpos[b] = "closed" /\ ~writeErr[b] => stored[b] = emitted[b] /\ ~heldBack[b]

\* A build that ends while it is watched ends the stream, unless it was superseded.
TailEnds == \A v \in Viewers : vpos[v] = "tail" ~> (vpos[v] # "tail" \/ wpos[tailing[v]] = "left")

\* A superseded build may leave its log to the newer push that replaced it (daemon.go:2582),
\* so a log that is written is closed in the end: more than the code does.
LogsEnd == \A b \in Logs : wpos[b] = "open" ~> wpos[b] = "closed"
=============================================================================
