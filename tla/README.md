# Soulman in TLA+

A verification development of the Soulman services (Go, `src/`): TLA+ modules
translated from the source, TLC configurations that check them on small
instances, and TLAPS proofs of the properties that matter most, for every value
of the constants.

Contents: [the system](#1-the-system), [the plan](#2-the-plan),
[the modules](#3-the-modules), [the runs](#4-the-runs),
[fairness](#5-fairness), [the proofs](#6-the-proofs),
[findings](#7-findings), [limits](#8-what-is-not-modelled).

`cd tla`, then `tlc -workers 2 -config <run>.cfg <MC module>.tla` model-checks a
run, `tlapm <module>Proofs.tla` checks the proofs of a module.

## 1. The system

Soulman is a personal agent: watchers turn events of the owner's machine and
mailbox into *stimuli*, a rules engine with an LLM turns stimuli into *action
requests*, and an action service carries them out and reports. The services talk
over NATS JetStream (streams `STIMULUS`, `ACTION_REQUEST`, `MEMORY_WRITE`), keep
their own files under a root folder, and two of them share a Postgres.

```
 perception-svc --STIMULUS--> thinking-svc --ACTION_REQUEST--> action-svc --> Discord,
       |                                                         |            Calendar,
       +------STIMULUS--> memory-svc <------MEMORY_WRITE---------+            report file
                          file log, Postgres (raw_inputs, episodes)
 projects-svc: prompts in Postgres, Claude Code sessions as child processes
 web-svc: dashboard back end over the same files;  web/: dashboard front end
```

### Inventory

| Component | State | Operations | Hard behaviour | What makes it correct |
|---|---|---|---|---|
| memory-svc intake (`natsconsumer/consumer.go`, `storage/writer.go`, `filelog.go`) | `raw_inputs.jsonl` and one rotated generation, `raw_inputs` table, JetStream's ACK state | handle a stimulus: append, insert, mark synced, ACK or NAK; replay at start | at-least-once delivery, crash between any two steps, rotation, disk errors, torn lines | an ACK implies a durable copy; a synced mark implies a row; replay stores what the log holds; nothing is redelivered for ever |
| memory-svc Postgres connection (`storage/dbholder.go`, `reconnect.go`, `dephealth`) | the held connection | tick: connect, ping, drop | the connection changes between a check and its use | a caller sees an error, never a nil connection |
| memory-svc episodes (`natsconsumer/memory_write_consumer.go`, `storage/episodes.go`) | `episodes` table | write an outcome record | redelivery | an episode per outcome record |
| projects-svc queue (`dispatch`, `httpserver`, `store`, `launcher`) | `prompts` table, session processes, one mutex | create, edit, report, dispatch | dispatch goroutines, sessions and manual edits interleave with a check-then-act over several store calls; crash after a launch | at most one prompt `CREATING_SPEC`; no unexplained second launch; the queue advances |
| action-svc school reminders (`schoolevents/store.go`, `scheduler/school.go`, `dispatch/school_event.go`) | one JSON file per event | save, run the due reminders, mark | two runners and the consumer read, change and rewrite the same file without a common lock; writes truncate first | nothing is marked that was not sent; nothing is sent twice without a cause; pending reminders go out |
| action-svc notifications (`notifybatch`, `dnd`) | batch in memory with two timers, pending file | add, flush, defer, flush the file | timer callbacks race `Add` and each other; the window ends while a message is appended; restart | no item vanishes, is doubled or stays behind in the file |
| action-svc dispatch and report (`dispatch`, `report`, `scheduler/daily.go`, `feign`, `audit`) | the day's report file | handle an action request, append an entry, send the digest | ACK before the outcome is known; append racing the digest | an entry per action, the digest of a day once |
| action-svc clients (`notify/discord.go`, `calendar`) | none | send in parts, invite | partial success | external to the models |
| perception-svc log monitor (`logmonitor`) | checkpoint file of offsets, dedup window | read appended lines, publish severe ones, advance the checkpoint | truncation and regrowth, crash between publish and checkpoint, failed publish | a severe line is published or suppressed for a reason |
| perception-svc folder watcher (`watcher`) | checkpoint of content hashes | fsnotify events, queue of 100, reconcile | three goroutines; drop at a full queue; stat, read, check, publish, mark are not atomic | each content is published, once when nothing fails |
| perception-svc system monitor (`sysmonitor`) | severity and pending count per check | poll, grace, publish on transitions | flapping, measurement errors | an alert per sustained transition |
| perception-svc Gmail watcher (`gmailwatcher`) | labels in the mailbox | list, publish, label | crash between publish and label | each mail is published at least once |
| perception-svc intake (`httpserver`, `natspublish`) | none | answer after one publish | a client that retries a post whose publish only seemed to fail | the answer reports the publish |
| thinking-svc (`natsclient`, `rules`, `llm`) | none | consume, ask the LLM, publish, always ACK | an ACK after a failure drops the stimulus; an LLM call longer than AckWait repeats it | nothing is dropped but by a handler that gave up; a repeat has a cause |
| web-svc subtitles (`subtitles`) | cached VTT files, in-flight conversions | convert once, serve many | concurrent callers, a replaced video, a deleted cache, failed or cancelled conversions | one conversion per version at a time; no stale track; no error without a cause |
| web-svc files, diary, video, proxy | files | request handlers | create racing create | not lost, not overwritten |
| dashboard, CLI, memory MCP server, scripts | none of their own | - | - | out of scope |

## 2. The plan

The modules, in the order of importance in which they were written. Each has an MC
module, at least one run and proofs (those of `SysMonitor` are in `PipelineProofs`,
after the pipeline's, whose input its alerts are).

1. `RawInputLog` with the abstract `WriteAhead`: the intake of stimuli, the only copy of
   an acknowledged message.
2. `PromptQueue` with the abstract `SpecSlot`: the queue implements "one slot,
   taken only while empty".
3. `SchoolReminders`.
4. `Notifications`.
5. `LogMonitor`: checkpointed tailing.
6. `FolderWatcher`: three goroutines around a checkpoint of content hashes, the event
   queue at its limit.
7. `SysMonitor`: severities, grace polls, alerts on transitions.
8. `Pipeline` with `Mail`, `Rules` and `Report`: stimulus, thinking, action and memory
   composed over streams that deliver at least once.
9. `Subtitles`: the shared conversion and its cache.

Left for later:

- `DailyReport`: the digest job over the report files of `Report`, with the feign gate
  and the audit log.
- `Diary` and the video failure limiter of web-svc; `Window.Active`, `nextRun` and
  `splitMessage` against reference definitions.

## 3. The modules

Each module has one action per step of the code that another goroutine, another
process or a crash can fall between; what happens under one lock without I/O is one
action. Every operation that can fail has a failing action, with the error path
the code takes. Variables marked *history* in a module are read by properties
only. Definitions under a comment "A mutant" are not part of a specification:
each is a variant of the definition it precedes with a plausible bug, kept to
show that a property notices it.

### RawInputLog and WriteAhead (memory-svc intake)

| TLA+ | Code |
|---|---|
| `copies`, `acked`, `Deliver` | JetStream's at-least-once delivery into the client's buffer |
| `cur`, `bak`, `size`, `torn`, `handle` | `FileLog`: the current file, its `.1` generation, the size limit, a line cut short, `FileLog.f` |
| `Take...`, `AppendStimulus`, `Rotate...`, `CheckConnection`, `InsertRawInput`, `MarkSynced`, `Ack` | the consumer's handler and `Writer.Write`, in their order |
| `Start`, `ScanPending`, `ReplayInsert`, `ReplayMark`, `Subscribe` | `main` and `ReplayPending` |
| `ReconnectorTick`, `DBStop`, `DBStart`, `held` | `Reconnector.tick`, Postgres, `DBHolder` |

A log file is the set of records a scan parses. A torn line (a write that fails
half-way) swallows the record written after it, which is counted in `garbled`; a
rotation over a generation with a stimulus nobody else holds is counted in
`overwritten`. A line longer than the scanner's buffer, one stimulus or several glued
together (`TooLong`), stops every scan (`Scannable`), and with it the replay: what is in
the log then is there and yet out of reach (`Blocked`), until the long line has been
rotated away. These are the three ways to lose an acknowledged stimulus that
`AckedIsDurable` names; `Safe` means in Postgres, or in a log that a replay gets through.
A failed rotation leaves a handle that no write
can use until the process restarts. Postgres is up at first; an outage may begin
before the service starts. `WriteAhead` is the abstract promise: a stimulus is
in the file before it is a row, and before its message is acknowledged. What
`ImplementsWriteAhead` maps to "logged" is what was ever written (`WrittenToLog`): the
stimuli a scan could find, and those that were overwritten or garbled since. What becomes
of a written line later is the subject of `AckedIsDurable`, not of the refinement.

### PromptQueue and SpecSlot (projects-svc)

`TryDispatchNext` is one action per store call or launch, run by goroutines
(`Callers`) under `Dispatcher.mu`. The HTTP handlers change a row and spawn such a
goroutine; the session processes (`specs`, `impls`) report through `/notify`, once
each, or die, or lose their report. Rows and sessions survive a crash of the
service. `SpecSlot` is the abstract promise: a slot given to a prompt only while it is
empty. A manual edit may set any state, `CREATING_SPEC` too, and the prompts it has put
into that state are remembered in `forced` (history). `ImplementsSlot` maps the slot to
the prompts the dispatcher has put there, `Dispatched`: those `CREATING_SPEC` and not
`forced`.

Four behaviours the properties name as exceptions: a manual edit that sets `CREATING_SPEC`,
which can make a second prompt of that state beside the dispatched one; a session whose report
arrives before `MarkCreatingSpec` of its own launch has it overwritten (`early`,
because the update does not look at the state it replaces); a lost `IMPLEMENTING`
report followed by `DONE` frees the slot without triggering a dispatch, so the queue
waits for the next event (`skipped` in `EditUnsticksQueue`); and a slot
whose session is dead stays taken until a manual edit.

### SchoolReminders (action-svc)

`file[e]` is what the event's JSON file parses to: a status per channel, `Empty`
after the truncation of `os.WriteFile`, `Corrupt` when two writers' bytes mix.
`Save` runs in the consumer goroutine; `RunOnce` in the catch-up and in the daily
loop, under one mutex that `Save` does not take. `overlaps` counts the times a save
and a mark of one event overlapped. `Begin` reads all files in one step: an event
that comes during the scan is the same as one that comes before or after it,
because deliveries come at any time. Time is a count of half days, so that
`notifyTime` and midnight alternate.

### Notifications (action-svc)

`Batcher` with both timers (a timer that has fired cannot be stopped: `Stop`
returns false and its goroutine runs), the goroutines in `Flush`, the do-not-disturb
notifier and the `Flusher`, with `pendingFileMu`. `Start` starts the Flusher's two
goroutines, each of which looks at the clock by itself: `CatchUp` asks whether the
window is active, `NextWindowEnd` for the end to wait for. The window is a flag that
begins and ends at any moment, any number of times; when it ends, a loop that waits for
the end is due, one that has not asked yet will be told of tomorrow's. If the catch-up has
looked before that moment, nobody comes for the file that day (`missed`, history).
Durations are not modelled, but that a day is longer than a flush, which allows more
interleavings than the real delays do. Only the configuration with do-not-disturb enabled is
modelled; without it the notifier is a call of Discord.

### LogMonitor (perception-svc)

One step of `processFile` per line, with the reader's buffer, the dedup map and the
checkpoint file, which is truncated before it is written. The fsnotify loop and the
reconciliation loop call `processFile` under one mutex, so the module has a single
reader that takes any file at any time. A line has two bytes so that an offset can
fall inside it: after a baseline taken in the middle of a line, or in a file that was
cleared and has grown again. `stale` records which copies of an offset (in hand, in
memory, on disk) date from before the file was cleared; `skipped` the lines a read
starts behind without anybody having read them.

### FolderWatcher (perception-svc)

| TLA+ | Code |
|---|---|
| `content`, `dir`, `Create`, `Write`, `Rename`, `Delete`, `MakeDir` | what programs do to the watched directory |
| `events`, `watched`, `Enqueue` | the fsnotify loop and `Watcher.events`, bounded by `maxQueuedEvents` |
| `hash`, `disk`, `mu`, `IsNew`, `Mark`, `Save` | `Checkpoint`: the map, its file, its mutex |
| `pc`, `todo`, `file`, `data`, `Skip`, `Read`, `Seen`, `New`, `Publish`, `PublishFails` | `handleFile` in the three goroutines |
| `List`, `EndScan`, `Tick`, `Start`, `Crash` | `reconcileAll`, the ticker, the process |

A content stands for its hash; a half-written file is a content of its own. Only the
checkpoint's own operations are under a lock, so two goroutines can find one content
new and both publish it; `overlaps` counts these occasions. `Mark` truncates the file
before it writes it. A stimulus is told apart by the content it was made of: where the
code attaches a binary or large one by its path, the stimulus still carries its size and
a message ID made from its mtime (two contents of one size written within a second would
share one, and are not modelled).

### SysMonitor (perception-svc)

One polling goroutine: `RunCheck` measures one check and leaves the severities it
found in `found`, and `publishTransition` takes them one by one: `Steady` (no
change), `Baseline` (first measurement, ok), `Wait` (pending for less than the grace
period), `Publish` and `PublishFails`. Each kind of check (`disk_space`, `memory`,
`cpu`, `service_health`, `internal_health`) has its own way to fail: some yield nothing,
some yield critical. Grace periods are counts of polls, rounded up. Three counts
(history) say how the severity of a key was found: in the last polls without a break
(`unbroken`), in the polls since it changed that found anything (`run`), and whether some
poll since found nothing of the key (`gap`). `status` is what
the status endpoint shows, `told` and `unsure` (history) what people have last been
told, and whether the sender can know it.

### Pipeline, Mail, Rules, Report

`Pipeline` composes perception-svc (the Gmail watcher, `POST /api/perceive/cli`, the
alerts of the other watchers, `school-backfill`), thinking-svc, action-svc and
memory-svc over the streams. Each stream keeps its messages for ever;
`out`, `buf` and `acked` are the state of its durable consumer, with `Deliver`, `Expire`
(no ACK within AckWait: the message may be delivered again while the first copy is
still at work) and `Ack`. `pc` says where each handler is: thinking-svc asks and publishes
and always ACKs; action-svc appends to the report with one retry, saves the events
or hands the item to the batcher, and publishes the outcome; memory-svc
inserts the episode keyed by the stream sequence. `lost` (history) names the messages
whose handler failed and gave up. `ListMatching` is the query of `config/prod.json:17`:
without the seen label, unread, in the inbox. The owner may read or archive any mail at
any moment, or mark it unread again (`OwnerActs`, `away`); its `after:` date is a
mail that is not in the model's mailbox.

| TLA+ | Code |
|---|---|
| `Poll`, `SkipMessage`, `PublishMail`, `PublishMailFails`, `AddLabel`, `RestartPerception` | `Watcher.poll` and `handleMessage`, with their failures |
| `ListMatching`, `OwnerActs` | the query a poll lists by, and what the owner of the mailbox does |
| `Backfill`, `PerceiveCLI`, `Alert` | `school-backfill`, `POST /api/perceive/cli`, the other watchers |
| `Think`, `PublishRequest`, `PublishRequestFails` | thinking-svc's consumer |
| `AppendReportEntry(Fails)`, `SaveEvent(Fails)`, `Notify`, `PublishOutcome(Fails)` | the handlers of action-svc's dispatcher |
| `WriteEpisode`, `WriteEpisodeFails`, `Outage`, `Reconnect` | memory-svc's `MEMORY_WRITE` consumer and its database |
| `Deliver`, `Expire`, `Ack`, `RestartService` | JetStream, and a service that stops and starts again |

`Mail` is what is made of a message's MIME tree (body and attachments, by the
recursion of the code, `FoundIn` a part given what was found in its children, against the
reference definition `BestText` over the list of the tree's body parts); `Rules` the
registry, the match and the handlers, with what the LLM may answer; `Report` the
report file with its separators and what a failed append leaves behind. They are
modules of definitions only. A MIME tree is a function from its nodes, numbered from
the root 1, to their parts, children after their parents (`IsTree`), and what is found in
it a recursive function on the nodes.

### Subtitles (web-svc)

A caller is one call of `VTT`, step by step: `key` (stat), `look` (done marker), the lead
of a conversion or the wait for one (`inflight`), `probe`, `ffmpeg`, `publish`
(rename), `end` and `close` (the conversion leaves the map before its channel is closed), `serve`.
A version stands for path, size and modification time, and so for the cache
directory. `Replace` changes or removes the video, `ClearCache` deletes the cache or part of it,
`Crash` restarts web-svc; `during` and `swapped` (history) remember which versions the
video had during a call, and which keys were converted from another version.

## 4. The runs

A run is named in PROJECT.json; its configuration is `<MC module>_<rest>.cfg`.

| Run | Distinct states | Bounds | What it shows |
|---|---|---|---|
| `rawlog_intake` (MCRawInputLog) | 594,019 | two stimuli, one too long to scan, one unparseable message; log of two lines; one copy, crash, outage and fault | `AckedIsDurable`, `SyncedIsStored`, the refinement of `WriteAhead`, `EventuallyAcked`, `RestartStoresPending` |
| `rawlog_rotation` (MCRawInputLog) | - | one outage, no crash, no fault | **violated:** `AckedSurvives` |
| `prompts_queue` (MCPromptQueue) | 262,936 | two prompts, two goroutines; one edit (to any state), crash and fault | the slot, one writer, launches accounted for, reports free the slot, the refinement of `SpecSlot`, the queue advances, an edit unsticks it |
| `school_reminders` (MCSchoolReminders) | 168,774 | two events of one group, two deliveries, one mishap, seven half days | `ResolvedWasSent`, `RemindersAccountedFor`, `EventuallyReminded` |
| `school_twice` (MCSchoolReminders) | - | one event, delivered twice, no mishap | **violated:** `FiresOnce` |
| `notifications_delivery` (MCNotifications) | 49,672 | two items, two timer goroutines, one crash, one fault; windows without bound | `ItemsAccountedFor`, `DeliveredOnce`, `NotStranded`, `EventuallyOut` |
| `logmonitor_tail` (MCLogMonitor) | 136,041 | one file of up to two lines, two messages; one clearing, crash and fault | `PassedIsPublished`, `PublishedOnce`, `HistoryIsSilent`, `EventuallyPublished` |
| `logmonitor_lost` (MCLogMonitor) | - | one crash, nothing else | **violated:** `RestartSkipsNothing` |
| `folder_watch` (MCFolderWatcher) | 751,340 | a name and a temporary one, two contents, a queue of one; three changes, one crash, one fault | `MarkedIsPublished`, `RepublishedForCause`, `ContentSettles` |
| `sysmonitor_alerts` (MCSysMonitor) | 182,342 | three configurations: a disk and a service, memory, a service with a dependency; grace of two or three polls; readings on both sides of a threshold; one crash, one fault | `HeldForGrace`, `StatusExplained`, `EdgeTriggered`, `LastingIsTold` |
| `pipeline_flow` (MCPipeline) | 452,054 | five scenarios of mails, posts and alerts; one backfill, one mishap; an owner who reads mails without bound | `HandedOn`, `RepeatsAccountedFor`, `SuccessIsReported`, `BodyIsBestText`, `EventuallyRecorded` |
| `subtitles_share` (MCSubtitles) | 249,995 | two callers, two versions, two troubles of any kind | `OneConversion`, `NeverStale`, `ErrorHasCause`, `EveryCallReturns` |

Why the bounds are enough for what they are meant to find. Every protocol here is
between one item and the actors that handle it; what a second item adds is the order
among items (the older prompt, the other event of a group, the other item of a batch,
the stimulus whose line is rotated away), and two show it. Races need two goroutines.
A crash bound of one lets a crash fall between any two steps with a full restart
after it; a fault bound of one lets each call fail once, at each place.
The log of `rawlog_intake` holds two lines, so that each stimulus with its synced mark
rotates, and a third and fourth line rotate twice. Seven half days in `school_reminders` cover an
event from the day before it is due to the stale cutoff. The queue of one event in
`folder_watch` overflows with the second `Create`. The grace periods of
`sysmonitor_alerts` are no multiples of the interval, so that the rounding shows. The
mishap of `pipeline_flow` is any of the crashes, failed calls, outages and expired
ACK waits of all four services. Two troubles in `subtitles_share` let a fault follow a
replacement, or a crash a deleted cache. The theorems of section 6 have none of
these bounds.

Deadlock is not checked where the modelled work is finite and the system comes to
rest: every prompt done, the clock at its end, every line or message
read, every call answered. `rawlog_intake`, `rawlog_rotation`,
`notifications_delivery`, `folder_watch` and `sysmonitor_alerts` check it.

Every property of a passing run has a mutant: a variant of one mapped definition with a
plausible bug, kept beside it, under which TLC finds the property violated. Of the type
invariants `pipeline_flow` checks that of `Pipeline`; all of them are proved.

## 5. Fairness

No run assumes that a crash, a fault, an outage or a user's action ever happens, and none
assumes they stop other than by their bound: the liveness properties start from
states in which the bounds are used up (`Calm`), are restricted to behaviours
without faults, or name the fault as an exception.

- Goroutines that can run do (weak fairness of a handler's or loop's steps): Go's
  scheduler. `RawInputLog`: `Handler`, `Startup`. `PromptQueue`: `TryDispatchNext`.
  `FolderWatcher`: each `Loop(t)`. `SysMonitor`: `RunCheck`, `PublishTransition`.
  `Pipeline`: `Watcher`, and the consumers together, which is enough because the
  work of the bounded scenarios is finite. `Subtitles`: each `VTT(c)`.
- `sync.Mutex` starves no waiter (strong fairness of `Lock`, `Begin`, `Decide`,
  `Read`): its starvation mode hands the lock over after a millisecond. The mutexes in
  `FolderWatcher` are held for one step at a time; weak fairness is enough there. In
  `LogMonitor` the strong fairness is per file: the reconciliation scan comes to
  every one.
- A failed service is started again (`Start`): the services run under a supervisor
  script.
- Tickers and timers fire: `ReconnectorTick`, `Wake`, `WakeFlusher`, `GraceFires`,
  `Tick` in `FolderWatcher` and `SchoolReminders`; the loops behind them come to ask
  for the next one (`NextWindowEnd`).
- JetStream redelivers what is not acknowledged (`Deliver`), Postgres comes back
  (`DBStart`, `Reconnect`), a window that has begun ends, days pass. No further window is
  owed to what waits in the pending file, nor an edit to the queue, nor an unread mail
  to the poll.
- A session that lives reports (`NotifyImplementing`, `NotifyDone`). Its reports may be lost
  within the fault bound. Strong fairness of the first, because the service may be
  down when it is tried.
- The tools that `Subtitles` runs end: both have timeouts.

## 6. The proofs

Eight modules of proofs establish, for every value of the constants that satisfies the
modules' named assumptions (any sets, any bounds; the assumptions say that names
differ and bounds are natural numbers):

| Theorem | States |
|---|---|
| `RawInputLogProofs` `TypeCorrect`, `AckedDurable`, `SyncedStored`, `WriteAheadRefinement` | `[]TypeOK`, `[]AckedIsDurable`, `[]SyncedIsStored`, `ImplementsWriteAhead` |
| `PromptQueueProofs` `TypeCorrect`, `OneSlot`, `SlotClean`, `OneSpecWriterHolds`, `ReportFreesSlotHolds`, `LaunchesAccountedForHolds`, `SlotRefinement` | `[]TypeOK`, `[]AtMostOneCreatingSpec`, `[]SlotHasNoError`, `[]OneSpecWriter`, `[]ReportFreesSlot`, `[]LaunchesAccountedFor`, `ImplementsSlot` |
| `SchoolRemindersProofs` `TypeCorrect`, `ResolvedWasSentHolds`, `RemindersAccountedForHolds` | `[]TypeOK`, `[]ResolvedWasSent`, `[]RemindersAccountedFor` |
| `NotificationsProofs` `TypeCorrect`, `ItemsAccountedForHolds`, `DeliveredOnceHolds`, `NotStrandedHolds` | `[]TypeOK`, `[]ItemsAccountedFor`, `[]DeliveredOnce`, `[]NotStranded` |
| `LogMonitorProofs` `TypeCorrect`, `PassedIsPublishedHolds`, `PublishedOnceHolds`, `HistoryIsSilentHolds` | `[]TypeOK` and the module's three invariants |
| `LogMonitorProofs` `RestartSkipsNothingUndisturbed` | `[]RestartSkipsNothing` for behaviours whose steps are all `Undisturbed` |
| `FolderWatcherProofs` `TypeCorrect`, `MarkedIsPublishedHolds`, `RepublishedForCauseHolds` | `[]TypeOK`, `[]MarkedIsPublished`, `[]RepublishedForCause` |
| `PipelineProofs` `PipelineTypeCorrect`, `HandedOnHolds`, `RepeatsAccountedForHolds`, `SuccessIsReportedHolds`, `BodyIsBestTextHolds` | `[]PipelineTypeOK` and the module's four other invariants |
| `PipelineProofs`, of `Mail`: `BackfillReadsTheSame` | the CLI's stimulus of a mail is the watcher's, where their two copies of the MIME walk can agree |
| `PipelineProofs`, of `SysMonitor`: `TypeCorrect`, `HeldForGraceHolds`, `StatusExplainedHolds`, `EdgeTriggeredHolds` | `[]TypeOK`, the two invariants, and the action property `EdgeTriggered` |
| `SubtitlesProofs` `TypeCorrect`, `OneConversionHolds`, `NeverStaleHolds`, `ErrorHasCauseHolds` | `[]TypeOK` and the module's three invariants |

The arguments, that is, what the inductive invariant `IInv` of each module adds to the
property and why it is needed:

*RawInputLog.* That an ACK is safe to send depends on where the handler is. From the
append on the stimulus in hand is kept (`HandKept`: in Postgres, in the log, or
lost in one of the two ways the log counts; the third, a scan that gives up, is a
matter of what else the log holds), and a handler or replay about to write a synced
mark has stored the row (`MarkAfterInsert`). A rotation is the only step that takes
lines away, and `ShiftKeeps` shows that it counts what it destroys; a synced mark can
only vanish with it, which does no harm. For the refinement, what the handler has in hand
past the append, and what a replay still has to insert, was written to the log
(`HandLogged`, `TodoLogged`); an append maps to `AppendStimulus`, an insert and an ACK to
theirs, and every other step, rotations and torn lines with it, to a stutter, because what
it takes from the files it adds to `overwritten` or `garbled` (`ShiftWritten`).

*PromptQueue.* The check and the update are several steps apart. `MutexHeld` says that only the
holder of the mutex is between them, and `SlotStaysEmpty` that nobody else fills the
slot meanwhile: reports leave it, creations do not enter it, and a prompt that an edit
puts into the state is `forced` and in the slot of nobody. Edits may set any state; the
theorems assume nothing of them. `Reports` says that a prompt with a report is past its
launch, `Counted` bounds the launches by the troubles, with one to spare while the
prompt is waiting, and `Writers` ties the live sessions to the slot as long as
there has been no trouble. The refinement maps a launch that is marked to `Take`, a report or
an edit of the holder to `Leave`, and every other step to a stutter.

*SchoolReminders.* What is written over a file marks only what was sent
(`WritesWhatWasSent`), because a runner's marks are of events it has just
reached (`MarksWhatWasSent`) and `Save` copies what it read. Nothing is said of locks: the
property holds whatever overlaps. `RemindersAccountedFor` does need them. Its account
(`Accounted`) adds, for each event and channel, to the notifications sent: one if a run is
still to send one (`Todo`), one while `Save` and a mark write the file at once or one of
them completes a longer text (`Clash`), and one if the file will say "pending" when
all writes under way are over (`Reopens`). Each of these is the first, or paid for by a
mishap or an overlap. That no other step opens an event again rests on the runs excluding
each other (`OneRuns`), and on a mark never knowing less than the file, nor `Save` more
(`NothingForgotten`).

*Notifications.* Only the holder of the lock is at the file, and what it clears is in its
hand (`Locked`); what is in the file or on its way there is within the window, or
somebody will come for it, or the end was missed (`Served`). `Copies` counts, for each item, the deliveries,
the goroutines that hold it, the batch and the file: one in all, and one more per
fault.

*LogMonitor.* Offsets in hand, in memory and on disk are sound for the file's present
text, or known to be of an earlier one (`OffsetsSound`, `FreshBehindBase`); the
reader's buffer holds the lines of the file from its position on (`Buffered`); each message that is
remembered has been published as often as new processes and faults explain
(`SeenAccountedFor`).

`RestartSkipsNothing`, which the third finding refutes, is proved for the behaviours in
which no log is cleared, no call fails and no crash comes while the checkpoint file is
truncated and not yet written (`Undisturbed`); crashes may come at any other point, any number of
them. There every offset, in hand, in memory or on disk, is the baseline or the end of a
line, and the lines between the baseline and it are published (`Complete`); and a file that
had a baseline keeps its entry (`Entries`), which is what a crash in that window takes
from it.

*FolderWatcher.* A goroutine about to mark a content has published it (`Handling`). For
`RepublishedForCause`, `Accounted` adds to the stimuli of a content those goroutines are
about to publish, and one if it is `Due`: it is the content there is, and nobody has it
or a goroutine with another one may still mark that over it. The first attempt at this proof
failed, and rightly: the model then had attached contents share one stimulus, and for two
of them the property was false, since a goroutine with the old one could mark it after the
new one had been published. In the code the size and the message ID tell the two apart,
so a stimulus now names the content it was made of.

*Pipeline.* `PTypes` places every message: what a consumer acknowledged, has out or in its
buffer is on its stream, and only messages of the right kind are on each. For `HandedOn`
a handler about to acknowledge must have done what the next stage needs (`AtHead`), also
when the message has been delivered again, or an earlier copy of it acknowledged,
meanwhile; `Lasting` says that nothing that was handed on is taken back. `EntryAtHead`
does the same for the status of an outcome, and every write to a report extends the file
by at most one block, of the request at work, and keeps it separated (`Extends`).

`RepeatsAccountedFor` is an account again, `Accounted`, for each source: the whole entries
there are, one if the source itself is still to come, and how often messages of it are
still to be handled in thinking-svc and action-svc (`Load`: those to be delivered, with
those in the buffer, of which the head counts until the handler has done its part). No
step adds to this sum but a mishap or an injection (`Balanced`, one lemma per group of
steps): a publish moves a unit from one stage to the next, a delivery from the stream to
the buffer, an ACK removes a message that may already be delivered again, and a restart
empties the buffer at the price of the one message that was at work and done. `OneRow`
takes the outcomes to the episodes.

`BodyIsBestText` needs two things. Every stimulus of a mail on the stream is the one
`BuildStimulus` makes of it (`MailsTold`), which is an invariant of the steps. And
`ExtractBodyIsBestText` says that the text in it is the reference's, for any tree: at each
node what the walk found and the list of body parts below it agree (`Agrees`), if they do
at its children. The library's induction theorems take an operator as a parameter, which
the provers cannot instantiate, so the induction is done by hand, from a least
counterexample (`Least`, `AllUpTo`): first that the recursive functions on a tree exist and
are what the operators choose (`WalkedExists`, `WalksAre`), then that they agree at every
node. `BackfillReadsTheSame` compares the
two copies of the walk in the repository by the same induction: they differ only in text
parts with a file name and in garbled bodies.

*SysMonitor.* A pending severity was found in as many polls as its count, with no other
one found between them (`Sustaining`), which without a gap were consecutive (`Unbroken`),
and the committed one is what people were told, but for a
restart or an unsure publish (`Committed`).

*Subtitles.* The callers in a conversion are those in flight (`InFlight`), waiters
wait for a conversion of their own key (`Waiting`), and what is in the cache, or in a
directory on its way there, is of the version of its key unless the video was swapped
(`Faithful`, `Present`, `NoError`).

Only model-checked: the liveness properties and leads-to of the runs, eleven temporal
formulas, because the prover has no rules for fairness and ENABLED. Every invariant and
action property of a passing run, and both refinements, are theorems.

## 7. Findings

1. **A second rotation during an outage loses acknowledged stimuli**
   (`storage/filelog.go:149`). `os.Rename` replaces the only backup generation, pending
   records included, though `writer.go:20-22` promises their replay.
   `rawlog_rotation`.
2. **A re-processed email can repeat a reminder** (`schoolevents/store.go:68`): `Save` and the
   marks share no lock, and a mark between `Save`'s read and write is lost.
   `school_twice`.
3. **A lost checkpoint skips error lines** (`logmonitor/checkpoint.go:72`), where the
   comment expects them to be read again from 0. `logmonitor_lost`. The theorem
   `RestartSkipsNothingUndisturbed` shows that this window, failed calls and cleared
   files are the only ways to lose one.

Other disagreements of the code with what its comments say, and behaviours worth a look.
No run refutes a statement of theirs: the properties name each as an exception, so that
a passing run and a theorem show that nothing else breaks the promise. Removing the
exception from the property makes TLC print the behaviour.

- *A line too long for the scanner blocks every replay* (`filelog.go:113-137`,
  `writer.go:46-62`). `writer.go:20-22` promises that a pending entry "will be replayed on
  next startup"; with a line of more than 1 MB in either generation `ScanPending` fails and
  `ReplayPending` replays nothing, the other pending stimuli included. `Blocked` in
  `AckedIsDurable`.
- *A manual edit can make a second `CREATING_SPEC` prompt.* `dispatch.go:1-6` enforces "at
  most one prompt CREATING_SPEC at a time, globally"; `updatePromptState`
  (`server.go:177-221`) accepts that state from the dashboard, while another prompt is in
  it or is about to be marked. `forced` in `AtMostOneCreatingSpec` and `ImplementsSlot`.
- *A service that starts while the window ends can strand the pending file for a day*
  (`flusher.go:55-88`). `notifier.go:32-44` and `flusher.go` take care that nothing is
  stranded "until tomorrow's flush", but the catch-up and the loop look at the clock in
  two goroutines, and the end may fall between. `missed` in `NotStranded`, `EventuallyOut`.
- *The polls of a grace period need not be consecutive.* `sysmonitor.go:93-95` and
  `366-371`, and `perception-svc/NOTES.md:32`, speak of "consecutive polls"; a poll that finds nothing of
  a key (a failed measurement, an unreachable `/health`, a dependency left out of it)
  leaves the pending count as it is. `gap` in `HeldForGrace`.
- *A mail that is read before it is published is never recorded.* The configured query
  (`config/prod.json:17`) lists unread mails in the inbox; one that its owner opens
  before the first poll, or before the poll that repeats a failed publish, does not come
  up again. `Unlisted` in `EventuallyRecorded`.
- A video that is replaced between its key and its conversion is converted under the key
  of the old version, against `subtitles.go:128-129` (`swapped` in `NeverStale`).
- An early report is overwritten by the mark of its own launch; a `DONE` after a lost
  `IMPLEMENTING` does not move the queue.
- A torn log line swallows the next record.
- An ERROR line whose publish failed is retried only when another line with the same
  message comes.
- Two goroutines of the folder watcher can publish a content twice with nothing
  failing.
- A check that is configured twice is polled, and counted, twice per interval.
- A cache directory of which only the done marker was deleted makes every later
  conversion of that version fail, because the rename finds a directory that is not
  empty.

## 8. What is not modelled

- web-svc's file, diary, video and proxy endpoints: request handlers over the file
  system. Of the video handler, only the two that call `VTT` are modelled.
- action-svc's daily digest, feign gate and audit log; the report entry and the outcome
  record of a request in `SchoolReminders` (they are in `Pipeline`).
- HTTP read endpoints, `/health` and the registry behind it, project CRUD, the
  dashboard, the CLI other than `school-backfill`, the memory MCP server and the
  scripts: no protocol state of their own.
- Discord, Google, Postgres, JetStream, ffmpeg, the file system and Claude Code are
  modelled only as the calls into them: success, failure before or after the effect,
  partial effect.
- Texts: message bodies, JSON layout, LLM prompts, time zones.
- `trustDirectory`'s rewrite of `~/.claude.json`: its competitors are processes outside
  the repository.
