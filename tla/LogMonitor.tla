----------------------------- MODULE LogMonitor -----------------------------
(***************************************************************************)
(* perception-svc/logmonitor: errors in the other services' log files      *)
(* become stimuli.                                                         *)
(*                                                                         *)
(* processFile reads a file from its checkpointed byte offset to the end,  *)
(* publishes each ERROR line whose message has not been published in this  *)
(* process yet, and then records the new offset in a checkpoint file that  *)
(* covers all files.  The fsnotify loop and the reconciliation loop both   *)
(* call it, one at a time (mu).  Meanwhile the services append to their    *)
(* files, the owner may clear one, and perception-svc may crash.           *)
(*                                                                         *)
(* A line has two bytes, the second its newline, so that an offset can     *)
(* fall inside a line.  A line stands for its message; the service in a    *)
(* dedup key is the file.                                                  *)
(***************************************************************************)
EXTENDS Integers, Sequences

CONSTANTS
  Files,      \* the *-startup-err.log files
  Messages,   \* messages of ERROR lines
  NoLine,     \* no line is being written
  Fragment,   \* the end of a line that is read from its middle
  NoEntry,    \* the checkpoint knows nothing of a file
  NoFile,
  MaxLines,   \* bound: lines in a file
  MaxTruncations, \* bound: files cleared
  MaxCrashes, \* bound: crashes of perception-svc
  MaxFaults   \* bound: failed publishes and checkpoint writes

ASSUME NamesAssumption ==
  /\ NoLine \notin Messages /\ Fragment \notin Messages
  /\ NoFile \notin Files
  /\ NoEntry \notin Nat

ASSUME BoundsAssumption ==
  MaxLines \in Nat /\ MaxTruncations \in Nat /\ MaxCrashes \in Nat /\ MaxFaults \in Nat

VARIABLES
  exists,     \* the files that exist
  text,       \* text[f]: the complete lines of f
  tail,       \* tail[f]: the line its writer has begun, or NoLine
  disk,       \* what loadCheckpoint would make of the checkpoint file
  offset,     \* checkpoint.offset
  seen,       \* dedupState.seen: pairs of a file and a message
  pc,         \* where the process is
  file, pos, buf, \* processFile: its file, offset, and the lines in its buffer
  pubs,       \* history: pubs[f][m] stimuli published
  base,       \* history: base[f] where the first baseline of f was taken
  fresh,      \* history: fresh[f] messages of lines that began after that
  stale,      \* history: offsets of f that date from before it was cleared
  failed,     \* history: publishes that failed
  skipped,    \* history: lines before a start that nobody has read up to
  truncations, crashes, faults  \* what the bounds count

logs       == <<exists, text, tail>>
checkpoint == <<disk, offset>>
reader     == <<pc, file, pos, buf>>
history    == <<pubs, base, fresh, stale, failed, skipped>>
budgets    == <<truncations, crashes, faults>>
vars == <<logs, checkpoint, seen, reader, history, budgets>>

NoOffsets == [f \in Files |-> NoEntry]

\* Where an offset is kept.
Copies == {"disk", "memory", "pos"}

\* The copy `to' of f's offset is now as old as the copy `from'.
CopyAge(fs, from, to) ==
  stale' = (stale \ {<<to, f>> : f \in fs})
             \cup {<<to, f>> : f \in {g \in fs : <<from, g>> \in stale}}

Size(f) == 2 * Len(text[f]) + IF tail[f] = NoLine THEN 0 ELSE 1

\* The messages of the lines of f that begin before the offset o.
Before(f, o) ==
  {text[f][i] : i \in {j \in 1..Len(text[f]) : 2 * (j - 1) < o}}
    \cup (IF tail[f] # NoLine /\ 2 * Len(text[f]) < o THEN {tail[f]} ELSE {})

Init ==
  /\ exists = {}
  /\ text = [f \in Files |-> <<>>] /\ tail = [f \in Files |-> NoLine]
  /\ disk = NoOffsets /\ offset = NoOffsets
  /\ seen = {}
  /\ pc = "down" /\ file = NoFile /\ pos = 0 /\ buf = <<>>
  /\ pubs = [f \in Files |-> [m \in Messages |-> 0]]
  /\ base = NoOffsets /\ fresh = [f \in Files |-> {}]
  /\ stale = {} /\ failed = {} /\ skipped = {}
  /\ truncations = 0 /\ crashes = 0 /\ faults = 0

Fault   == faults < MaxFaults /\ faults' = faults + 1
NoFault == UNCHANGED faults

-----------------------------------------------------------------------------
(* The services that write the logs, and the owner *)

Create(f) ==
  /\ f \notin exists
  /\ exists' = exists \cup {f}
  /\ UNCHANGED <<text, tail, checkpoint, seen, reader, history, budgets>>

\* The write of a line is seen in two parts.
BeginLine(f, m) ==
  /\ f \in exists
  /\ tail[f] = NoLine
  /\ Len(text[f]) < MaxLines
  /\ tail' = [tail EXCEPT ![f] = m]
  /\ fresh' = IF base[f] # NoEntry THEN [fresh EXCEPT ![f] = @ \cup {m}] ELSE fresh
  /\ UNCHANGED <<exists, text, checkpoint, seen, reader, pubs, base, stale,
                 failed, skipped, budgets>>

EndLine(f) ==
  /\ tail[f] # NoLine
  /\ text' = [text EXCEPT ![f] = Append(@, tail[f])]
  /\ tail' = [tail EXCEPT ![f] = NoLine]
  /\ UNCHANGED <<exists, checkpoint, seen, reader, history, budgets>>

\* The owner clears a log file by hand.
Truncate(f) ==
  /\ Size(f) > 0
  /\ truncations < MaxTruncations
  /\ truncations' = truncations + 1
  /\ text' = [text EXCEPT ![f] = <<>>]
  /\ tail' = [tail EXCEPT ![f] = NoLine]
  /\ stale' = stale \cup (Copies \X {f})
  /\ base' = IF base[f] = NoEntry THEN base ELSE [base EXCEPT ![f] = 0]
  /\ UNCHANGED <<exists, checkpoint, seen, reader, pubs, fresh, failed,
                 skipped, crashes, faults>>

-----------------------------------------------------------------------------
(* checkpoint.mark: the new offset in memory, then the file rewritten *)

\* os.WriteFile truncates the file, or fails and leaves it alone.
WriteCheckpoint ==
  \/ disk' = NoOffsets /\ pc' = "save" /\ NoFault
  \/ UNCHANGED disk /\ pc' = "idle" /\ Fault

\* ... and writes it, or a part of it.  The error is only logged.
Save ==
  /\ pc = "save"
  /\ \/ disk' = offset /\ CopyAge(Files, "memory", "disk") /\ NoFault
     \/ UNCHANGED <<disk, stale>> /\ Fault
  /\ pc' = "idle"
  /\ UNCHANGED <<logs, offset, seen, file, pos, buf, pubs, base, fresh,
                 failed, skipped, truncations, crashes>>

-----------------------------------------------------------------------------
(* processFile *)

\* A mutant: a file without an entry is read from its start.
ResolveStartFromZero(f) ==
  IF offset[f] = NoEntry \/ offset[f] > Size(f) THEN 0 ELSE offset[f]

\* A mutant: a file that has shrunk is taken to be read to its end.
ResolveStartNoReset(f) ==
  IF offset[f] = NoEntry THEN Size(f) ELSE offset[f]

ResolveStart(f) ==
  IF offset[f] = NoEntry THEN Size(f)
  ELSE IF offset[f] > Size(f) THEN 0
  ELSE offset[f]

\* Stat: what lies before the start of the read has been read, or is skipped.
\* A cleared file that has grown past its offset looks like an old one.
Look(f) ==
  /\ pc = "idle"
  /\ f \in exists
  /\ skipped' = IF \/ offset[f] = NoEntry
                   \/ <<"memory", f>> \in stale /\ offset[f] <= Size(f)
                  THEN skipped \cup ({f} \X Before(f, ResolveStart(f)))
                  ELSE skipped

\* Nothing to read: a file seen for the first time gets its entry.
Baseline(f) ==
  /\ Look(f)
  /\ offset[f] = NoEntry
  /\ ResolveStart(f) >= Size(f)
  /\ offset' = [offset EXCEPT ![f] = ResolveStart(f)]
  /\ stale' = stale \ {<<"memory", f>>}
  /\ WriteCheckpoint
  /\ base' = IF base[f] = NoEntry THEN [base EXCEPT ![f] = Size(f)] ELSE base
  /\ UNCHANGED <<logs, seen, file, pos, buf, pubs, fresh, failed, truncations,
                 crashes>>

NothingNew(f) ==
  /\ Look(f)
  /\ offset[f] # NoEntry
  /\ ResolveStart(f) >= Size(f)
  /\ UNCHANGED <<logs, checkpoint, seen, reader, pubs, base, fresh, stale,
                 failed, budgets>>

Read(f) ==
  /\ Look(f)
  /\ ResolveStart(f) < Size(f)
  /\ pc' = "read" /\ file' = f /\ pos' = ResolveStart(f)
  /\ stale' = stale \ {<<"pos", f>>}
  /\ UNCHANGED <<logs, checkpoint, seen, buf, pubs, base, fresh, failed,
                 budgets>>

\* The complete lines of f from the offset o on.
LinesFrom(f, o) ==
  LET rest == SubSeq(text[f], (o + 1) \div 2 + 1, Len(text[f]))
  IN  IF o % 2 = 1 /\ (o + 1) \div 2 <= Len(text[f])
        THEN <<Fragment>> \o rest ELSE rest

\* The reader's buffer is empty, and there is more in the file.
FillBuffer ==
  /\ pc = "read"
  /\ buf = <<>>
  /\ buf' = LinesFrom(file, pos)
  /\ buf' # <<>>
  /\ UNCHANGED <<logs, checkpoint, seen, pc, file, pos, history, budgets>>

NextLine ==
  /\ pc = "read"
  /\ buf # <<>>
  /\ buf' = Tail(buf)
  /\ pos' = pos + IF Head(buf) = Fragment THEN 1 ELSE 2
  /\ UNCHANGED <<logs, checkpoint, pc, file, base, fresh, stale, skipped,
                 truncations, crashes>>

\* A fragment does not parse; a message published before is suppressed.
Suppress ==
  /\ NextLine
  /\ Head(buf) = Fragment \/ <<file, Head(buf)>> \in seen
  /\ UNCHANGED <<seen, pubs, failed, faults>>

\* A mutant: what is published is not remembered.
PublishForgets ==
  /\ NextLine
  /\ Head(buf) # Fragment
  /\ <<file, Head(buf)>> \notin seen
  /\ pubs' = [pubs EXCEPT ![file][Head(buf)] = @ + 1]
  /\ UNCHANGED <<seen, failed, faults>>

Publish ==
  /\ NextLine
  /\ Head(buf) # Fragment
  /\ <<file, Head(buf)>> \notin seen
  /\ pubs' = [pubs EXCEPT ![file][Head(buf)] = @ + 1]
  /\ seen' = seen \cup {<<file, Head(buf)>>}
  /\ UNCHANGED <<failed, faults>>

\* The publish reports an error, though the stream may have the stimulus: the
\* message stays unseen, and reading goes on.
PublishFails ==
  /\ NextLine
  /\ Head(buf) # Fragment
  /\ <<file, Head(buf)>> \notin seen
  /\ Fault
  /\ failed' = failed \cup {<<file, Head(buf)>>}
  /\ pubs' \in {pubs, [pubs EXCEPT ![file][Head(buf)] = @ + 1]}
  /\ UNCHANGED seen

\* A mutant: the offset recorded is the size of the file, with the line
\* whose newline is missing.
EndOfFileAtSize ==
  /\ pc = "read"
  /\ buf = <<>> /\ LinesFrom(file, pos) = <<>>
  /\ offset' = [offset EXCEPT ![file] = Size(file)]
  /\ CopyAge({file}, "pos", "memory")
  /\ WriteCheckpoint
  /\ file' = NoFile /\ pos' = 0
  /\ UNCHANGED <<logs, seen, buf, pubs, base, fresh, failed, skipped,
                 truncations, crashes>>

\* No complete line any more: the offset of the last one's end is recorded.
EndOfFile ==
  /\ pc = "read"
  /\ buf = <<>> /\ LinesFrom(file, pos) = <<>>
  /\ offset' = [offset EXCEPT ![file] = pos]
  /\ CopyAge({file}, "pos", "memory")
  /\ WriteCheckpoint
  /\ file' = NoFile /\ pos' = 0
  /\ UNCHANGED <<logs, seen, buf, pubs, base, fresh, failed, skipped,
                 truncations, crashes>>

-----------------------------------------------------------------------------
(* The process *)

\* New: loadCheckpoint; the dedup map starts empty.
Start ==
  /\ pc = "down"
  /\ pc' = "idle"
  /\ offset' = disk
  /\ CopyAge(Files, "disk", "memory")
  /\ UNCHANGED <<logs, disk, seen, file, pos, buf, pubs, base, fresh, failed,
                 skipped, budgets>>

Crash ==
  /\ pc # "down"
  /\ crashes < MaxCrashes
  /\ crashes' = crashes + 1
  /\ pc' = "down" /\ file' = NoFile /\ pos' = 0 /\ buf' = <<>>
  /\ offset' = NoOffsets /\ seen' = {}
  /\ UNCHANGED <<logs, disk, history, truncations, faults>>

-----------------------------------------------------------------------------
ProcessFile ==
  \/ FillBuffer \/ Suppress \/ Publish \/ PublishFails \/ EndOfFile \/ Save

Next ==
  \/ \E f \in Files :
       \/ Create(f) \/ EndLine(f) \/ Truncate(f)
       \/ \E m \in Messages : BeginLine(f, m)
       \/ Baseline(f) \/ NothingNew(f) \/ Read(f)
  \/ ProcessFile
  \/ Start \/ Crash

Spec == Init /\ [][Next]_vars

\* The goroutines run, the reconciliation scan comes to every file, and the
\* service is restarted.  Nobody owes a log line.
Fairness ==
  /\ WF_vars(ProcessFile)
  /\ \A f \in Files : SF_vars(Baseline(f) \/ NothingNew(f) \/ Read(f))
  /\ WF_vars(Start)

FairSpec == Spec /\ Fairness

-----------------------------------------------------------------------------
(* Properties *)

TypeOK ==
  /\ exists \subseteq Files
  /\ text \in [Files -> Seq(Messages)]
  /\ tail \in [Files -> Messages \cup {NoLine}]
  /\ disk \in [Files -> Nat \cup {NoEntry}]
  /\ offset \in [Files -> Nat \cup {NoEntry}]
  /\ seen \subseteq Files \X Messages
  /\ pc \in {"down", "idle", "read", "save"}
  /\ file \in Files \cup {NoFile} /\ pos \in Nat
  /\ buf \in Seq(Messages \cup {Fragment})
  /\ pubs \in [Files -> [Messages -> Nat]]
  /\ base \in [Files -> Nat \cup {NoEntry}] /\ fresh \in [Files -> SUBSET Messages]
  /\ stale \subseteq Copies \X Files
  /\ failed \subseteq Files \X Messages /\ skipped \subseteq Files \X Messages
  /\ truncations \in 0..MaxTruncations /\ crashes \in 0..MaxCrashes
  /\ faults \in 0..MaxFaults

\* The offset o, if it is of the present file, is past its i-th line.
IsPast(copy, o, f, i) == o # NoEntry /\ <<copy, f>> \notin stale /\ 2 * i <= o

Passed(f, i) == IsPast("disk", disk[f], f, i) \/ IsPast("memory", offset[f], f, i)

\* A line the checkpoint is past will never be read again: its message has
\* been published, or its publish failed, or the offset that skips it was
\* taken without reading (watcher.go:154-217, checkpoint.go:81-84).
PassedIsPublished ==
  \A f \in Files : \A i \in 1..Len(text[f]) :
    Passed(f, i) =>
      \/ pubs[f][text[f][i]] > 0
      \/ <<f, text[f][i]>> \in failed \cup skipped

\* A message is published again only by a new process, or for a publish or a
\* checkpoint write that failed: clearing a file and reading it again from 0
\* does not repeat it (dedup.go:15-20).
PublishedOnce ==
  \A f \in Files : \A m \in Messages : pubs[f][m] <= 1 + crashes + faults

\* "So old history is never replayed" (checkpoint.go:65-66): what was in a
\* file before its first entry is not published, not even after the
\* checkpoint is lost or the file is cleared.
HistoryIsSilent ==
  \A f \in Files : \A m \in Messages : pubs[f][m] > 0 => m \in fresh[f]

\* "No ERROR line is silently skipped if perception-svc is briefly down"
\* (checkpoint.go:12-13), and when the checkpoint file is lost "the affected
\* file's first read starts at 0" (checkpoint.go:22-27).
RestartSkipsNothing ==
  \A f \in Files : \A i \in 1..Len(text[f]) :
    Passed(f, i) /\ base[f] # NoEntry /\ 2 * (i - 1) >= base[f]
      => pubs[f][text[f][i]] > 0

\* No crash, truncation or fault is left to happen.
Calm ==
  /\ truncations = MaxTruncations /\ crashes = MaxCrashes /\ faults = MaxFaults

\* The line m of f is still to be read: it lies past the offset, or the file
\* was cleared and is shorter than the offset.
Ahead(f, m) ==
  /\ offset[f] # NoEntry
  /\ \E i \in 1..Len(text[f]) :
       text[f][i] = m /\ (2 * (i - 1) >= offset[f] \/ Size(f) < offset[f])

\* Every complete line ahead of the offset is published, whatever partial
\* line the file began or was left with, also in a file that was cleared,
\* unless its publish fails or the file outgrows its old offset before
\* anybody looks (watcher.go:125-152, checkpoint.go:62-79).
EventuallyPublished ==
  \A f \in Files : \A m \in Messages :
    (Calm /\ Ahead(f, m)) ~> (pubs[f][m] > 0 \/ <<f, m>> \in failed \cup skipped)
=============================================================================
