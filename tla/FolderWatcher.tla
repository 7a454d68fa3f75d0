--------------------------- MODULE FolderWatcher ---------------------------
(***************************************************************************)
(* perception-svc/watcher: a file dropped into a watched directory becomes *)
(* a stimulus.                                                             *)
(*                                                                         *)
(* Three goroutines run handleFile: Start's first scan, the loop over the  *)
(* queued Create events, and the periodic reconciliation scan.  Each reads *)
(* a file, asks the checkpoint whether its content is new, publishes it    *)
(* and marks it; only the checkpoint's own operations are under a lock.    *)
(* Meanwhile programs create, write, rename and delete files, the          *)
(* directory may not be there yet, and perception-svc may crash.           *)
(*                                                                         *)
(* A content stands for its hash, and is seen in full or not at all: half  *)
(* a file is a content of its own.                                         *)
(***************************************************************************)
EXTENDS Integers, Sequences, FiniteSets, FiniteSetsExt

CONSTANTS
  Files,      \* names in the watched directory
  TempFiles,  \* those isTempFilename accepts
  Contents,   \* non-empty contents
  Absent,     \* there is no such file
  Empty,      \* a file of no bytes
  NoEntry,    \* the checkpoint knows nothing of a file
  NoFile, NoThread,
  QueueSize,  \* maxQueuedEvents
  MaxChanges, \* bound: what is done to the files
  MaxCrashes, \* bound: crashes of perception-svc
  MaxFaults   \* bound: failed publishes and checkpoint writes

Threads == {"first", "events", "reconcile"}

ASSUME NamesAssumption ==
  /\ TempFiles \subseteq Files
  /\ Absent \notin Contents /\ Empty \notin Contents /\ NoEntry \notin Contents
  /\ Absent # Empty
  /\ NoFile \notin Files /\ NoThread \notin Threads

ASSUME BoundsAssumption ==
  /\ QueueSize \in Nat \ {0}
  /\ MaxChanges \in Nat /\ MaxCrashes \in Nat /\ MaxFaults \in Nat

VARIABLES
  dir,        \* the directory exists
  content,    \* content[f]
  watched,    \* fsnotify watches the directory
  events,     \* Watcher.events: the files created
  disk,       \* what LoadCheckpoint would make of the checkpoint file
  hash,       \* Checkpoint.data
  mu,         \* who is inside Mark
  pc,         \* pc[t]: where a goroutine is
  todo,       \* todo[t]: what is left of its directory listing
  file, data, \* handleFile's file and what it read from it
  pubs,       \* history: stimuli published
  written,    \* history: how often a content was written, as a stimulus
  overlaps,   \* history: contents found new late, or with another on its way
  changes, crashes, faults  \* what the bounds count

files      == <<dir, content>>
queue      == <<watched, events>>
checkpoint == <<disk, hash, mu>>
threads    == <<pc, todo, file, data>>
history    == <<pubs, written, overlaps>>
budgets    == <<changes, crashes, faults>>
vars == <<files, queue, checkpoint, threads, history, budgets>>

NoEntries == [f \in Files |-> NoEntry]

\* buildStimulus: the text, or the attachment, whose size and whose message ID
\* (it is made from the mtime) tell which content of the file it is.
Stimulus(f, v) == [path |-> f, of |-> v]

Stimuli == {Stimulus(f, v) : f \in Files, v \in Contents}

Init ==
  /\ dir \in BOOLEAN
  /\ content = [f \in Files |-> Absent]
  /\ watched = FALSE /\ events = <<>>
  /\ disk = NoEntries /\ hash = NoEntries /\ mu = NoThread
  /\ pc = [t \in Threads |-> "off"] /\ todo = [t \in Threads |-> {}]
  /\ file = [t \in Threads |-> NoFile] /\ data = [t \in Threads |-> Empty]
  /\ pubs = [s \in Stimuli |-> 0] /\ written = [s \in Stimuli |-> 0]
  /\ overlaps = [f \in Files |-> 0]
  /\ changes = 0 /\ crashes = 0 /\ faults = 0

Fault   == faults < MaxFaults /\ faults' = faults + 1
NoFault == UNCHANGED faults

-----------------------------------------------------------------------------
(* The programs that use the directory *)

Change == changes < MaxChanges /\ changes' = changes + 1

MakeDir ==
  /\ ~dir
  /\ dir' = TRUE
  /\ UNCHANGED <<content, queue, checkpoint, threads, history, budgets>>

\* fsEventLoop: a Create event is queued, or dropped when the queue is full.
Enqueue(f) ==
  events' = IF watched /\ Len(events) < QueueSize THEN Append(events, f) ELSE events

Create(f) ==
  /\ dir /\ content[f] = Absent
  /\ Change
  /\ content' = [content EXCEPT ![f] = Empty]
  /\ Enqueue(f)
  /\ UNCHANGED <<dir, watched, checkpoint, threads, history, crashes, faults>>

Write(f, v) ==
  /\ content[f] \notin {Absent, v}
  /\ Change
  /\ content' = [content EXCEPT ![f] = v]
  /\ written' = [written EXCEPT ![Stimulus(f, v)] = @ + 1]
  /\ UNCHANGED <<dir, queue, checkpoint, threads, pubs, overlaps, crashes, faults>>

\* A finished file gets its name; fsnotify reports a Create of that name.
Rename(f, g) ==
  /\ content[f] \in Contents /\ g # f
  /\ Change
  /\ content' = [content EXCEPT ![f] = Absent, ![g] = content[f]]
  /\ written' = [written EXCEPT ![Stimulus(g, content[f])] = @ + 1]
  /\ Enqueue(g)
  /\ UNCHANGED <<dir, watched, checkpoint, threads, pubs, overlaps, crashes, faults>>

Delete(f) ==
  /\ content[f] # Absent
  /\ Change
  /\ content' = [content EXCEPT ![f] = Absent]
  /\ UNCHANGED <<dir, queue, checkpoint, threads, history, crashes, faults>>

-----------------------------------------------------------------------------
(* handleFile *)

\* Back to the loop that called handleFile.
Return(t) ==
  /\ pc' = [pc EXCEPT ![t] = IF t = "events" THEN "wait" ELSE "scan"]
  /\ file' = [file EXCEPT ![t] = NoFile]
  /\ data' = [data EXCEPT ![t] = Empty]

\* The next file of the listing, or of the queue.
Next1(t, f) ==
  \/ /\ pc[t] = "scan" /\ f \in todo[t]
     /\ todo' = [todo EXCEPT ![t] = @ \ {f}]
     /\ UNCHANGED events
  \/ /\ t = "events" /\ pc[t] = "wait"
     /\ events # <<>> /\ f = Head(events)
     /\ events' = Tail(events)
     /\ UNCHANGED todo

\* A temporary name, a file that is gone or cannot be read, or an empty one.
Skip(t, f) ==
  /\ Next1(t, f)
  /\ f \in TempFiles \/ content[f] \in {Absent, Empty}
  /\ Return(t)
  /\ UNCHANGED <<files, watched, checkpoint, history, budgets>>

Read(t, f) ==
  /\ Next1(t, f)
  /\ f \notin TempFiles /\ content[f] \in Contents
  /\ pc' = [pc EXCEPT ![t] = "check"]
  /\ file' = [file EXCEPT ![t] = f]
  /\ data' = [data EXCEPT ![t] = content[f]]
  /\ UNCHANGED <<files, watched, checkpoint, history, budgets>>

\* A mutant: a file that has an entry is not new, whatever is in it.
IsNewByName(f, v) == hash[f] = NoEntry

\* A mutant: every file is new.
IsNewAlways(f, v) == TRUE

IsNew(f, v) == hash[f] # v

Seen(t) ==
  /\ pc[t] = "check" /\ mu = NoThread
  /\ ~IsNew(file[t], data[t])
  /\ Return(t)
  /\ UNCHANGED <<files, queue, checkpoint, todo, history, budgets>>

\* Others that have found a content of the same file new, and not marked it.
Others(t) ==
  {u \in Threads \ {t} : file[u] = file[t] /\ pc[u] \in {"publish", "mark"}}

New(t) ==
  /\ pc[t] = "check" /\ mu = NoThread
  /\ IsNew(file[t], data[t])
  /\ pc' = [pc EXCEPT ![t] = "publish"]
  /\ overlaps' = [overlaps EXCEPT ![file[t]] = @ + Cardinality(Others(t))
                    + IF content[file[t]] = data[t] THEN 0 ELSE 1]
  /\ UNCHANGED <<files, queue, checkpoint, todo, file, data, pubs, written,
                 budgets>>

CountPublished(t) ==
  pubs' = [pubs EXCEPT ![Stimulus(file[t], data[t])] = @ + 1]

Publish(t) ==
  /\ pc[t] = "publish"
  /\ CountPublished(t)
  /\ pc' = [pc EXCEPT ![t] = "mark"]
  /\ UNCHANGED <<files, queue, checkpoint, todo, file, data, written, overlaps,
                 budgets>>

\* A mutant: a failed publish is marked like a successful one.
PublishFailsMarks(t) ==
  /\ pc[t] = "publish"
  /\ Fault
  /\ CountPublished(t) \/ UNCHANGED pubs
  /\ pc' = [pc EXCEPT ![t] = "mark"]
  /\ UNCHANGED <<files, queue, checkpoint, todo, file, data, written, overlaps,
                 changes, crashes>>

\* The error may hide that the stream has stored the stimulus.
PublishFails(t) ==
  /\ pc[t] = "publish"
  /\ Fault
  /\ CountPublished(t) \/ UNCHANGED pubs
  /\ Return(t)
  /\ UNCHANGED <<files, queue, checkpoint, todo, written, overlaps, changes,
                 crashes>>

\* Checkpoint.Mark: the entry is made in memory, and os.WriteFile truncates
\* the checkpoint file, or fails and leaves it alone.
Mark(t) ==
  /\ pc[t] = "mark" /\ mu = NoThread
  /\ hash' = [hash EXCEPT ![file[t]] = data[t]]
  /\ \/ /\ mu' = t /\ disk' = NoEntries
        /\ pc' = [pc EXCEPT ![t] = "save"]
        /\ UNCHANGED <<file, data, faults>>
     \/ /\ Fault
        /\ Return(t)
        /\ UNCHANGED <<mu, disk>>
  /\ UNCHANGED <<files, queue, todo, history, changes, crashes>>

\* ... and writes it, or a part of it.  The error is only logged.
Save(t) ==
  /\ pc[t] = "save"
  /\ \/ disk' = hash /\ NoFault
     \/ UNCHANGED disk /\ Fault
  /\ mu' = NoThread
  /\ Return(t)
  /\ UNCHANGED <<files, queue, hash, todo, history, changes, crashes>>

-----------------------------------------------------------------------------
(* The goroutines *)

\* reconcileAll: os.ReadDir, which fails while the directory is missing.
List(t) ==
  /\ pc[t] = "list"
  /\ todo' = [todo EXCEPT ![t] = {f \in Files : dir /\ content[f] # Absent}]
  /\ pc' = [pc EXCEPT ![t] = "scan"]
  /\ UNCHANGED <<files, queue, checkpoint, file, data, history, budgets>>

EndScan(t) ==
  /\ pc[t] = "scan" /\ todo[t] = {}
  /\ pc' = [pc EXCEPT ![t] = IF t = "first" THEN "off" ELSE "wait"]
  /\ UNCHANGED <<files, queue, checkpoint, todo, file, data, history, budgets>>

Tick ==
  /\ pc["reconcile"] = "wait"
  /\ pc' = [pc EXCEPT !["reconcile"] = "list"]
  /\ UNCHANGED <<files, queue, checkpoint, todo, file, data, history, budgets>>

\* main: LoadCheckpoint, New and Start.  The directory is watched if it exists.
Start ==
  /\ \A t \in Threads : pc[t] = "off"
  /\ hash' = disk
  /\ watched' = dir
  /\ pc' = [t \in Threads |-> IF t = "first" THEN "list" ELSE "wait"]
  /\ UNCHANGED <<files, events, disk, mu, todo, file, data, history, budgets>>

Crash ==
  /\ pc["events"] # "off"
  /\ crashes < MaxCrashes
  /\ crashes' = crashes + 1
  /\ watched' = FALSE /\ events' = <<>>
  /\ hash' = NoEntries /\ mu' = NoThread
  /\ pc' = [t \in Threads |-> "off"] /\ todo' = [t \in Threads |-> {}]
  /\ file' = [t \in Threads |-> NoFile] /\ data' = [t \in Threads |-> Empty]
  /\ UNCHANGED <<files, disk, history, changes, faults>>

-----------------------------------------------------------------------------
HandleFile(t) ==
  \/ \E f \in Files : Skip(t, f) \/ Read(t, f)
  \/ Seen(t) \/ New(t) \/ Publish(t) \/ PublishFails(t) \/ Mark(t) \/ Save(t)

Loop(t) == HandleFile(t) \/ List(t) \/ EndScan(t)

Next ==
  \/ MakeDir
  \/ \E f \in Files :
       \/ Create(f) \/ Delete(f)
       \/ \E v \in Contents : Write(f, v)
       \/ \E g \in Files : Rename(f, g)
  \/ \E t \in Threads : Loop(t)
  \/ Tick \/ Start \/ Crash

Spec == Init /\ [][Next]_vars

\* The goroutines run and get the checkpoint's lock, the ticker ticks, and
\* the service is restarted.  Nobody owes a file.
Fairness ==
  /\ \A t \in Threads : WF_vars(Loop(t))
  /\ WF_vars(Tick)
  /\ WF_vars(Start)

FairSpec == Spec /\ Fairness

-----------------------------------------------------------------------------
(* Properties *)

Points == {"off", "wait", "list", "scan", "check", "publish", "mark", "save"}

TypeOK ==
  /\ dir \in BOOLEAN /\ watched \in BOOLEAN
  /\ content \in [Files -> Contents \cup {Absent, Empty}]
  /\ events \in Seq(Files) /\ Len(events) <= QueueSize
  /\ disk \in [Files -> Contents \cup {NoEntry}]
  /\ hash \in [Files -> Contents \cup {NoEntry}]
  /\ mu \in Threads \cup {NoThread}
  /\ pc \in [Threads -> Points]
  /\ todo \in [Threads -> SUBSET Files]
  /\ file \in [Threads -> Files \cup {NoFile}]
  /\ data \in [Threads -> Contents \cup {Empty}]
  /\ pubs \in [Stimuli -> Nat] /\ written \in [Stimuli -> Nat]
  /\ overlaps \in [Files -> Nat]
  /\ changes \in 0..MaxChanges /\ crashes \in 0..MaxCrashes
  /\ faults \in 0..MaxFaults

\* A content that the checkpoint has, in memory or on disk, has been
\* published: a failed publish leaves it unset (folderwatcher.go:214-217), and
\* no later scan would come back to it.
MarkedIsPublished ==
  \A f \in Files : \A v \in {disk[f], hash[f]} \cap Contents :
    pubs[Stimulus(f, v)] > 0

\* "So already-seen files aren't re-published" (folderwatcher.go:42-44): a
\* content is published as often as it was written, and once more only for a
\* crash, a failed publish or checkpoint write, a second goroutine that holds
\* a content of the file, or a file that changed after it was read.
RepublishedForCause ==
  \A f \in Files : \A v \in Contents :
    LET s == Stimulus(f, v)
    IN  pubs[s] <= written[s] + crashes + faults + overlaps[f]

\* A content that stays is published, and the checkpoint comes to hold its
\* hash and keeps it, though a goroutine may mark an older content after it,
\* the event may be dropped from a full queue or the directory not be watched
\* at all (folderwatcher.go:29-32, 145-147).
ContentSettles ==
  \A f \in Files \ TempFiles : \A v \in Contents :
    <>[](content[f] = v) => <>[](hash[f] = v)
=============================================================================
