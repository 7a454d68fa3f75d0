---------------------------- MODULE RawInputLog ----------------------------
(***************************************************************************)
(* memory-svc's durable intake of stimuli.                                 *)
(*                                                                         *)
(* JetStream delivers each stimulus of the STIMULUS stream at least once   *)
(* to one handler goroutine (natsconsumer/consumer.go).  The handler       *)
(* appends it to a local log (storage/filelog.go: raw_inputs.jsonl and one *)
(* rotated generation, .1), inserts it into Postgres if a connection is    *)
(* held, marks it synced in the log, and only then ACKs                    *)
(* (storage/writer.go).  A restart replays what the log holds and Postgres *)
(* does not.  The Reconnector goroutine swaps the held connection at any   *)
(* moment (storage/reconnect.go, dbholder.go).  The process can crash      *)
(* between any two steps.                                                  *)
(*                                                                         *)
(* A log file is the set of the records its lines parse to, and its size   *)
(* counts lines; a scan gives up at a line longer than its buffer.  A      *)
(* stimulus stands for its StimulusID.                                     *)
(***************************************************************************)
EXTENDS Naturals

CONSTANTS
  Stimuli,     \* messages of the STIMULUS stream, one per StimulusID
  Malformed,   \* those whose payload does not unmarshal
  Oversize,    \* those whose log line exceeds the scanner's 1 MB buffer
  NoStimulus,  \* "no message in hand"
  MaxSize,     \* FileLog.maxSize, in lines
  MaxCopies,   \* bound: copies of one message in the client's buffer
  MaxCrashes,  \* bound: process crashes
  MaxOutages,  \* bound: Postgres outages
  MaxFaults    \* bound: failed file operations, inserts and lost ACKs

ASSUME StimuliAssumption ==
  /\ Malformed \subseteq Stimuli
  /\ Oversize \subseteq Stimuli
  /\ NoStimulus \notin Stimuli

ASSUME BoundsAssumption ==
  /\ MaxSize \in Nat \ {0}
  /\ MaxCopies \in Nat \ {0}
  /\ {MaxCrashes, MaxOutages, MaxFaults} \subseteq Nat

VARIABLES
  copies,      \* copies[m]: deliveries of m waiting in the client's buffer
  acked,       \* messages whose ACK reached JetStream
  cur, bak,    \* records in raw_inputs.jsonl and raw_inputs.jsonl.1
  size,        \* lines in raw_inputs.jsonl, counted up to MaxSize
  torn,        \* raw_inputs.jsonl ends in a line without its newline
  handle,      \* is FileLog.f usable?
  rawInputs,   \* rows of the raw_inputs table
  dbUp,        \* Postgres reachable
  held,        \* DBHolder.db # nil
  pc,          \* where the process is
  msg,         \* the stimulus in hand
  todo,        \* ReplayPending's remaining list
  overwritten, \* history: stimuli whose only line a rotation has destroyed
  garbled,     \* history: stimuli whose line was glued onto a torn one
  crashes, outages, faults  \* what the bounds count

jetstream == <<copies, acked>>
fileLog   == <<cur, bak, size, torn, handle>>
postgres  == <<rawInputs, dbUp>>
process   == <<pc, msg, todo>>
history   == <<overwritten, garbled>>
budgets   == <<crashes, outages, faults>>
vars == <<jetstream, fileLog, postgres, held, process, history, budgets>>

Stim(m)   == [type |-> "stimulus", id |-> m]
Synced(m) == [type |-> "synced", id |-> m]
\* A line that is no record, and longer than the scanner's buffer.
TooLong   == [type |-> "garbage", id |-> NoStimulus]
Record == [type : {"stimulus", "synced"}, id : Stimuli] \cup {TooLong}

\* The records of both generations (ScanPending reads .1, then the current
\* file, into maps keyed by id).
Logged  == cur \cup bak
PendingInCurrentOnly ==  \* a mutant: the backup is not scanned
  {m \in Stimuli : Stim(m) \in cur /\ Synced(m) \notin cur}
Pending == {m \in Stimuli : Stim(m) \in Logged /\ Synced(m) \notin Logged}

\* bufio.Scanner gives up on a line longer than its buffer, and with it the
\* whole scan.
Long(rec) == rec = TooLong \/ \E m \in Oversize : rec = Stim(m)
Scannable == \A rec \in Logged : ~Long(rec)

Init ==
  /\ copies = [m \in Stimuli |-> 0] /\ acked = {}
  /\ cur = {} /\ bak = {} /\ size = 0 /\ torn = FALSE /\ handle = "closed"
  /\ rawInputs = {} /\ dbUp = TRUE /\ held = FALSE
  /\ pc = "down" /\ msg = NoStimulus /\ todo = {}
  /\ overwritten = {} /\ garbled = {}
  /\ crashes = 0 /\ outages = 0 /\ faults = 0

-----------------------------------------------------------------------------
(* Building blocks: one attempt at an operation that may fail. *)

\* Anything that may go wrong does so at most MaxFaults times.
Fault == faults < MaxFaults /\ faults' = faults + 1

\* The file after bytes that make no record: a whole line glued onto a torn one,
\* or a part of a line.  They may add up to a line too long for a scan.
Glue(rec) == {cur \cup {TooLong}} \cup (IF Long(rec) THEN {} ELSE {cur})
Tear(rec) == {cur} \cup (IF torn \/ Long(rec) THEN {cur \cup {TooLong}} ELSE {})

\* FileLog.writeLine succeeds.  After a torn line the new one lands on the
\* same line of the file, and a scan can parse neither.
WriteLine(rec) ==
  /\ handle = "open"
  /\ size' = IF size < MaxSize THEN size + 1 ELSE size
  /\ torn' = FALSE
  /\ cur' \in IF torn THEN Glue(rec) ELSE {cur \cup {rec}}
  /\ garbled' = IF torn /\ rec = Stim(rec.id) /\ rec \notin Logged
                  THEN garbled \cup {rec.id} ELSE garbled
  /\ UNCHANGED <<bak, handle, overwritten, faults>>

\* FileLog.writeLine fails: the handle is unusable, or the write stops
\* before the line is complete (disk full), possibly leaving a part of it.
WriteLineFails(rec) ==
  /\ \/ handle = "closed" /\ UNCHANGED <<cur, torn, faults>>
     \/ handle = "open" /\ Fault /\ UNCHANGED <<cur, torn>>
     \/ handle = "open" /\ Fault /\ torn' = TRUE /\ cur' \in Tear(rec)
  /\ UNCHANGED <<bak, size, handle, overwritten, garbled>>

\* DBHolder.InsertRawInput succeeds (ON CONFLICT DO NOTHING: a set).
Insert(m) ==
  /\ held /\ dbUp
  /\ rawInputs' = rawInputs \cup {m}
  /\ UNCHANGED faults

\* DBHolder.InsertRawInput returns an error: no connection held any more,
\* Postgres unreachable, or the call failed -- before the server committed
\* the row or after it.
InsertFails(m) ==
  \/ ~(held /\ dbUp) /\ UNCHANGED <<rawInputs, faults>>
  \/ held /\ dbUp /\ Fault /\ rawInputs' \in {rawInputs, rawInputs \cup {m}}

-----------------------------------------------------------------------------
(* JetStream: deliver, or redeliver, what has not been acknowledged. *)

Running == pc \in {"idle", "rotate", "check", "insert", "mark", "ack"}

Deliver(m) ==
  /\ Running
  /\ m \notin acked
  /\ copies[m] < MaxCopies
  /\ copies' = [copies EXCEPT ![m] = @ + 1]
  /\ UNCHANGED <<acked, fileLog, postgres, held, process, history, budgets>>

-----------------------------------------------------------------------------
(* The consumer's handler: unmarshal, Writer.Write, ACK or NAK. *)

Take(m) ==
  /\ pc = "idle"
  /\ copies[m] > 0
  /\ copies' = [copies EXCEPT ![m] = @ - 1]

\* A mutant: the unparseable message is NAKed.
TakeMalformedNak(m) ==
  /\ Take(m)
  /\ m \in Malformed
  /\ UNCHANGED <<acked, fileLog, postgres, held, process, history, budgets>>

\* An unparseable message is ACKed to skip it.
TakeMalformed(m) ==
  /\ Take(m)
  /\ m \in Malformed
  /\ pc' = "ack" /\ msg' = m
  /\ UNCHANGED <<acked, fileLog, postgres, held, todo, history, budgets>>

AppendStimulus(m) ==
  /\ Take(m)
  /\ m \notin Malformed
  /\ WriteLine(Stim(m))
  /\ pc' = "rotate" /\ msg' = m
  /\ UNCHANGED <<acked, postgres, held, todo, crashes, outages>>

\* A mutant: the failed append is logged, and the handler goes on.
AppendStimulusFailsAck(m) ==
  /\ Take(m)
  /\ m \notin Malformed
  /\ WriteLineFails(Stim(m))
  /\ pc' = "check" /\ msg' = m
  /\ UNCHANGED <<acked, postgres, held, todo, crashes, outages>>

\* A mutant: what cannot be appended to the file is inserted all the same.
AppendStimulusFailsInsert(m) ==
  /\ Take(m)
  /\ m \notin Malformed
  /\ WriteLineFails(Stim(m))
  /\ rawInputs' = IF held /\ dbUp THEN rawInputs \cup {m} ELSE rawInputs
  /\ UNCHANGED <<acked, dbUp, held, process, crashes, outages>>

\* The file append failed: NAK.  The message stays unacknowledged.
AppendStimulusFails(m) ==
  /\ Take(m)
  /\ m \notin Malformed
  /\ WriteLineFails(Stim(m))
  /\ UNCHANGED <<acked, postgres, held, process, crashes, outages>>

\* rotateIfNeeded with nothing to do: the file is small, or Stat failed.
RotateNotNeeded ==
  /\ pc = "rotate"
  /\ \/ size < MaxSize /\ UNCHANGED faults
     \/ size = MaxSize /\ Fault
  /\ pc' = "check"
  /\ UNCHANGED <<jetstream, fileLog, postgres, held, msg, todo, history,
                 crashes, outages>>

\* os.Rename puts the current file in the place of the previous backup.
ShiftGenerations ==
  /\ bak' = cur
  /\ cur' = {}
  /\ size' = 0
  /\ overwritten' = overwritten \cup {m \in Stimuli : Stim(m) \in bak \ cur}

Rotate ==
  /\ pc = "rotate"
  /\ size = MaxSize
  /\ ShiftGenerations
  /\ pc' = "check"
  /\ UNCHANGED <<jetstream, torn, handle, postgres, held, msg, todo, garbled,
                 budgets>>

\* The rename fails after the file was closed, or the new file cannot be
\* opened: either way FileLog keeps a handle no write can use, and NAKs.
RotateFails ==
  /\ pc = "rotate"
  /\ size = MaxSize
  /\ Fault
  /\ \/ UNCHANGED <<cur, bak, size, overwritten>>
     \/ ShiftGenerations
  /\ handle' = "closed"
  /\ pc' = "idle" /\ msg' = NoStimulus
  /\ UNCHANGED <<jetstream, torn, postgres, held, todo, garbled, crashes,
                 outages>>

\* Writer.Write asks DBHolder for a connection ...
CheckConnection ==
  /\ pc = "check"
  /\ pc' = IF held THEN "insert" ELSE "ack"
  /\ UNCHANGED <<jetstream, fileLog, postgres, held, msg, todo, history,
                 budgets>>

\* A mutant: the error of the insert is ignored.
InsertRawInputUnchecked ==
  /\ pc = "insert"
  /\ Insert(msg) \/ InsertFails(msg)
  /\ pc' = "mark"
  /\ UNCHANGED <<jetstream, fileLog, dbUp, held, msg, todo, history, crashes,
                 outages>>

\* ... and InsertRawInput asks again: the Reconnector may have dropped it.
InsertRawInput ==
  /\ pc = "insert"
  /\ \/ Insert(msg) /\ pc' = "mark"
     \/ InsertFails(msg) /\ pc' = "ack"
  /\ UNCHANGED <<jetstream, fileLog, dbUp, held, msg, todo, history, crashes,
                 outages>>

\* AppendSynced; its failure is not fatal.
MarkSynced ==
  /\ pc = "mark"
  /\ WriteLine(Synced(msg)) \/ WriteLineFails(Synced(msg))
  /\ pc' = "ack"
  /\ UNCHANGED <<jetstream, postgres, held, msg, todo, crashes, outages>>

\* msg.Ack() waits for no answer: the ACK may be lost.
Ack ==
  /\ pc = "ack"
  /\ \/ acked' = acked \cup {msg} /\ UNCHANGED faults
     \/ acked' = acked /\ Fault
  /\ pc' = "idle" /\ msg' = NoStimulus
  /\ UNCHANGED <<copies, fileLog, postgres, held, todo, history, crashes,
                 outages>>

-----------------------------------------------------------------------------
(* The process: crash, start, replay. *)

Crash ==
  /\ pc # "down"
  /\ crashes < MaxCrashes
  /\ crashes' = crashes + 1
  /\ pc' = "down" /\ msg' = NoStimulus /\ todo' = {}
  /\ copies' = [m \in Stimuli |-> 0]
  /\ handle' = "closed" /\ held' = FALSE
  /\ UNCHANGED <<acked, cur, bak, size, torn, postgres, history, outages,
                 faults>>

\* main: NewFileLog opens (or creates) the file; NewDB connects and pings.
Start ==
  /\ pc = "down"
  /\ handle' = "open"
  /\ held' = dbUp
  /\ pc' = "scan"
  /\ UNCHANGED <<jetstream, cur, bak, size, torn, postgres, msg, todo,
                 history, budgets>>

\* ReplayPending: nothing without a connection or without a complete scan.
ScanPending ==
  /\ pc = "scan"
  /\ todo' = IF held /\ Scannable THEN Pending ELSE {}
  /\ pc' = "replay"
  /\ UNCHANGED <<jetstream, fileLog, postgres, held, msg, history, budgets>>

\* One iteration of the replay loop, in an order Go's map iteration chooses.
ReplayInsert ==
  /\ pc = "replay"
  /\ \E m \in todo :
       \/ Insert(m) /\ pc' = "replayMark" /\ msg' = m /\ todo' = todo
       \/ InsertFails(m) /\ todo' = todo \ {m} /\ UNCHANGED <<pc, msg>>
  /\ UNCHANGED <<jetstream, fileLog, dbUp, held, history, crashes, outages>>

ReplayMark ==
  /\ pc = "replayMark"
  /\ WriteLine(Synced(msg)) \/ WriteLineFails(Synced(msg))
  /\ todo' = todo \ {msg}
  /\ pc' = "replay" /\ msg' = NoStimulus
  /\ UNCHANGED <<jetstream, postgres, held, crashes, outages>>

\* Replay is over: the consumer subscribes.
Subscribe ==
  /\ pc = "replay"
  /\ todo = {}
  /\ pc' = "idle"
  /\ UNCHANGED <<jetstream, fileLog, postgres, held, msg, todo, history,
                 budgets>>

-----------------------------------------------------------------------------
(* Postgres and the Reconnector's tick. *)

DBStop ==
  /\ dbUp
  /\ outages < MaxOutages
  /\ outages' = outages + 1
  /\ dbUp' = FALSE
  /\ UNCHANGED <<jetstream, fileLog, rawInputs, held, process, history,
                 crashes, faults>>

DBStart ==
  /\ ~dbUp
  /\ dbUp' = TRUE
  /\ UNCHANGED <<jetstream, fileLog, rawInputs, held, process, history,
                 budgets>>

\* tick: connect when nothing is held, drop what is held when its ping fails.
ReconnectorTick ==
  /\ pc # "down"
  /\ held' = dbUp
  /\ UNCHANGED <<jetstream, fileLog, postgres, process, history, budgets>>

-----------------------------------------------------------------------------
Handler ==
  \/ \E m \in Stimuli :
       TakeMalformed(m) \/ AppendStimulus(m) \/ AppendStimulusFails(m)
  \/ RotateNotNeeded \/ Rotate \/ RotateFails
  \/ CheckConnection \/ InsertRawInput \/ MarkSynced \/ Ack

Startup == Start \/ ScanPending \/ ReplayInsert \/ ReplayMark \/ Subscribe

Next ==
  \/ \E m \in Stimuli : Deliver(m)
  \/ Handler
  \/ Startup
  \/ Crash
  \/ DBStop \/ DBStart \/ ReconnectorTick

Spec == Init /\ [][Next]_vars

\* The handler and main run whenever they can; JetStream redelivers what is
\* not acknowledged (AckWait); a failed service is restarted; Postgres comes
\* back; the Reconnector ticks every 30 s.  Crashes, outages and faults are
\* never owed.
Fairness ==
  /\ WF_vars(Handler)
  /\ WF_vars(Startup)
  /\ \A m \in Stimuli : WF_vars(Deliver(m))
  /\ WF_vars(DBStart)
  /\ WF_vars(ReconnectorTick)

FairSpec == Spec /\ Fairness

-----------------------------------------------------------------------------
(* Properties *)

TypeOK ==
  /\ copies \in [Stimuli -> 0..MaxCopies] /\ acked \subseteq Stimuli
  /\ cur \subseteq Record /\ bak \subseteq Record
  /\ size \in 0..MaxSize /\ torn \in BOOLEAN /\ handle \in {"open", "closed"}
  /\ rawInputs \subseteq Stimuli /\ dbUp \in BOOLEAN /\ held \in BOOLEAN
  /\ pc \in {"down", "scan", "replay", "replayMark", "idle", "rotate", "check",
             "insert", "mark", "ack"}
  /\ msg \in Stimuli \cup {NoStimulus} /\ todo \subseteq Stimuli
  /\ overwritten \subseteq Stimuli /\ garbled \subseteq Stimuli
  /\ crashes \in 0..MaxCrashes /\ outages \in 0..MaxOutages
  /\ faults \in 0..MaxFaults

\* m is in Postgres, or the next replay brings it there.
Safe(m) == m \in rawInputs \/ (Scannable /\ m \in Pending)

\* m is in a log that no scan gets through: no replay reaches it before the line
\* that is too long has been rotated away.
Blocked(m) == ~Scannable /\ Stim(m) \in Logged

\* An ACK is a promise kept through crashes, outages, redeliveries and
\* failed file operations: an acknowledged, parseable stimulus is a row of
\* raw_inputs or will be after the next replay, except for the three ways the
\* log keeps one from it: a second rotation overwrites its line, the line was
\* glued onto a torn one, or a line beyond the scanner's 1 MB, its own or
\* another, stops the scan (consumer.go:82-88, writer.go:20-62,
\* filelog.go:103-138).
AckedIsDurable ==
  \A m \in acked \ Malformed :
    Safe(m) \/ Blocked(m) \/ m \in overwritten \cup garbled

\* The same promise without the exceptions, which is what the comment on
\* Writer.Write says: "the file entry is left as pending and will be
\* replayed on next startup" (writer.go:20-22).
AckedSurvives == \A m \in acked \ Malformed : Safe(m)

\* Replay skips what is marked synced, so a mark must never precede its row,
\* in the handler or in the replay loop (writer.go:32-41, 63-71).
SyncedIsStored == \A m \in Stimuli : Synced(m) \in Logged => m \in rawInputs

\* The stimuli that were written to the log, also if their line is lost since.
WrittenToLog == {m \in Stimuli : Stim(m) \in Logged} \cup overwritten \cup garbled

\* The intake is a write-ahead log: whatever fails, crashes or comes twice, each
\* stimulus is written to the file before it becomes a row and before it is
\* acknowledged ("The file write is blocking and must succeed before ACKing
\* NATS", writer.go:20-44), and no step takes back what an earlier one did.
WAL == INSTANCE WriteAhead WITH Skipped <- Malformed, logged <- WrittenToLog,
                                stored <- rawInputs
ImplementsWriteAhead == WAL!Spec

\* No crash, outage or fault is left to happen.
Calm ==
  /\ crashes = MaxCrashes /\ outages = MaxOutages /\ faults = MaxFaults
  /\ dbUp

\* A restart with Postgres reachable brings everything both generations of
\* the log still hold into raw_inputs, whatever interrupted the earlier
\* attempts (main.go:62-65, writer.go:46-75).
RestartStoresPending ==
  \A m \in Stimuli \ Malformed :
    (Calm /\ pc = "down" /\ Scannable /\ Stim(m) \in Logged) ~> m \in rawInputs

\* With a usable log file every message is eventually acknowledged, the
\* unparseable ones too: none is redelivered for ever (consumer.go:75-88).
EventuallyAcked ==
  (Calm /\ handle = "open") ~> Stimuli \subseteq acked
=============================================================================
