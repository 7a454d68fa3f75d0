------------------------------ MODULE Pipeline ------------------------------
(***************************************************************************)
(* From a mail to an episode: perception-svc publishes stimuli,            *)
(* thinking-svc turns them into action requests, action-svc carries those  *)
(* out and publishes outcomes, memory-svc stores these as episodes.        *)
(*                                                                         *)
(* Three JetStream streams connect them, each read by a durable consumer   *)
(* with explicit ACKs: a message is delivered into the consumer's buffer,  *)
(* and delivered again when no ACK comes within AckWait, though the first  *)
(* copy may still be in the buffer or at work.  Each service handles one   *)
(* message at a time, may crash between any two steps, and starts again.   *)
(*                                                                         *)
(* Stream and consumer are named for the service that reads them.  Mail,   *)
(* Rules and Report say what is done to the data.                          *)
(***************************************************************************)
EXTENDS Rules, Report, FiniteSets

CONSTANTS
  Scenarios,   \* what comes in: [mails |-> , posts |-> , alerts |-> ]
  Days,        \* the days there are report files of
  Today,       \* the day of all that happens
  NoDay,       \* no occurred_at
  BadDate,     \* a date that does not parse
  Texts,       \* what is written: bodies, posts, what an alert says
  Trailing,    \* Trailing[t]: the newlines the text t ends in
  NoMail,
  MaxBackfills, \* bound: mails that school-backfill injects
  MaxMishaps    \* bound: crashes, failed calls, outages, expired ACK waits

Consumers == {"thinking", "action", "memory"}

\* A mail's id, a post's or an alert's names what is made of it.
ASSUME ScenariosAssumption ==
  \A sc \in Scenarios :
    /\ \A id \in DOMAIN sc.mails : sc.mails[id].id = id /\ sc.mails[id].day \in Days
    /\ \A p, q \in sc.posts : p.id = q.id => p = q
    /\ \A s \in sc.alerts :
         /\ s.occurred \in Days \cup {NoDay}
         /\ {"source", "occurred"} \subseteq DOMAIN s
         /\ \A r \in sc.alerts : r.source = s.source => r = s
         /\ s.source \notin DOMAIN sc.mails
    /\ \A p \in sc.posts :
         p.id \notin DOMAIN sc.mails /\ \A s \in sc.alerts : p.id # s.source

\* Gmail's API gives a message's MIME tree, or none.
ASSUME MailsAssumption ==
  \A sc \in Scenarios : \A id \in DOMAIN sc.mails :
    sc.mails[id].payload = NoPayload \/ IsTree(sc.mails[id].payload)

ASSUME DataAssumption ==
  /\ Today \in Days /\ NoDay \notin Days
  /\ Empty \notin Texts /\ Trailing \in [Texts -> Nat]
  /\ Extractions \subseteq Seq(Nat \cup {BadDate})
  /\ \A sc \in Scenarios : NoMail \notin DOMAIN sc.mails

ASSUME LimitsAssumption == MaxBackfills \in Nat /\ MaxMishaps \in Nat

VARIABLES
  mailbox,     \* the mails in Gmail since the date in the query, by message id
  posts,       \* requests to POST /api/perceive/cli still to come
  alerts,      \* stimuli of the other watchers still to come
  seen,        \* mails that carry the seen label
  away,        \* mails the owner has read, or taken out of the inbox
  labelled,    \* Watcher.seenLabelID is resolved
  ids,         \* poll: the listed mails still to be handled
  current,     \* handleMessage: the mail that is published and not labelled
  stream,      \* stream[c]: the messages c reads, for ever
  acked,       \* acked[c]: those c has acknowledged
  out,         \* out[c]: those delivered to c within the last AckWait
  buf,         \* buf[c]: those in c's buffer, the first one at work
  pc,          \* pc[c]: where the handler is
  request,     \* thinking-svc: the action request about to be published
  entryStatus, \* action-svc: whether the report entry was appended
  ev,          \* action-svc: the event that is next
  report,      \* report[d][important]: a file of day d
  reminders,   \* event files: <<thread, index, date>>
  episodes,    \* rows of memory-svc, in order: <<stream sequence, outcome>>
  db,          \* Postgres answers
  notified,    \* history: requests handed to the Batcher
  lost,        \* history: <<c, seq>> whose handler failed and gave up
  backfills, mishaps  \* what the bounds count

incoming == <<mailbox, posts, alerts>>
gmail    == <<seen, away, labelled, ids, current>>
nats     == <<acked, out, buf>>
local    == <<request, entryStatus, ev>>
effects  == <<report, reminders, notified>>
memory   == <<episodes, db>>
pipeline == <<incoming, gmail, stream, nats, pc, local, effects, memory, lost,
              backfills, mishaps>>

PipelineInit ==
  /\ \E sc \in Scenarios :
       mailbox = sc.mails /\ posts = sc.posts /\ alerts = sc.alerts
  /\ seen = {} /\ away = {} /\ labelled = FALSE /\ ids = {} /\ current = NoMail
  /\ stream = [c \in Consumers |-> <<>>]
  /\ acked = [c \in Consumers |-> {}] /\ out = [c \in Consumers |-> {}]
  /\ buf = [c \in Consumers |-> <<>>]
  /\ pc = [c \in Consumers |-> "idle"]
  /\ request = NoRequest /\ entryStatus = "none" /\ ev = 0
  /\ report = [d \in Days |-> [i \in BOOLEAN |-> <<>>]]
  /\ reminders = {} /\ notified = {}
  /\ episodes = <<>> /\ db = TRUE
  /\ lost = {} /\ backfills = 0 /\ mishaps = 0

\* What the watcher and school-backfill make of each mail.
Mails == UNION {Range(sc.mails) : sc \in Scenarios}
Built == [mail \in Mails |-> BuildStimulus(mail)]
BuiltBackfill == [mail \in Mails |-> BuildBackfillStimulus(mail)]

Mishap == mishaps < MaxMishaps /\ mishaps' = mishaps + 1

\* A publish, and one that fails though the stream may have the message.
PublishTo(c, msg) == stream' = [stream EXCEPT ![c] = Append(@, msg)]
PublishToFails(c, msg) == Mishap /\ (PublishTo(c, msg) \/ UNCHANGED stream)

-----------------------------------------------------------------------------
(* perception-svc *)

\* Gmail's list, for the query that is configured: unread, in the inbox, and
\* without the seen label.
ListMatching == DOMAIN mailbox \ (seen \cup away)

\* The owner reads or archives a mail, before it is published or after; or
\* marks it unread, in the inbox again.
OwnerActs ==
  /\ \E id \in DOMAIN mailbox : away' \in {away \cup {id}, away \ {id}}
  /\ UNCHANGED <<incoming, seen, labelled, ids, current, stream, nats, pc, local,
                 effects, memory, lost, backfills, mishaps>>

Poll ==
  /\ ids = {} /\ current = NoMail
  /\ labelled' = TRUE
  /\ ids' = ListMatching
  /\ UNCHANGED <<incoming, seen, away, current, stream, nats, pc, local, effects,
                 memory, lost, backfills, mishaps>>

\* A mutant: a mail that cannot be read ends the poll.
SkipMessageEnds(id) ==
  /\ id \in ids /\ current = NoMail
  /\ \/ Built[mailbox[id]] = Failed /\ UNCHANGED mishaps
     \/ Mishap
  /\ ids' = {}
  /\ UNCHANGED <<incoming, seen, away, labelled, current, stream, nats, pc, local,
                 effects, memory, lost, backfills>>

\* GetMessage fails, or the stimulus cannot be built: on to the next mail.
SkipMessage(id) ==
  /\ id \in ids /\ current = NoMail
  /\ \/ Built[mailbox[id]] = Failed /\ UNCHANGED mishaps
     \/ Mishap
  /\ ids' = ids \ {id}
  /\ UNCHANGED <<incoming, seen, away, labelled, current, stream, nats, pc, local,
                 effects, memory, lost, backfills>>

PublishMail(id) ==
  /\ id \in ids /\ current = NoMail
  /\ Built[mailbox[id]] # Failed
  /\ PublishTo("thinking", Built[mailbox[id]])
  /\ current' = id
  /\ UNCHANGED <<incoming, seen, away, labelled, ids, nats, pc, local, effects,
                 memory, lost, backfills, mishaps>>

PublishMailFails(id) ==
  /\ id \in ids /\ current = NoMail
  /\ Built[mailbox[id]] # Failed
  /\ PublishToFails("thinking", Built[mailbox[id]])
  /\ ids' = ids \ {id}
  /\ UNCHANGED <<incoming, seen, away, labelled, current, nats, pc, local, effects,
                 memory, lost, backfills>>

\* The label is set; or it is not, which is only logged.
AddLabel ==
  /\ current # NoMail
  /\ \/ seen' = seen \cup {current} /\ UNCHANGED mishaps
     \/ UNCHANGED seen /\ Mishap
  /\ ids' = ids \ {current} /\ current' = NoMail
  /\ UNCHANGED <<incoming, away, labelled, stream, nats, pc, local, effects, memory,
                 lost, backfills>>

\* perception-svc stops and starts again; no label resolved, no list.
RestartPerception ==
  /\ labelled
  /\ Mishap
  /\ labelled' = FALSE /\ ids' = {} /\ current' = NoMail
  /\ UNCHANGED <<incoming, seen, away, stream, nats, pc, local, effects, memory, lost,
                 backfills>>

\* A mutant: a missing time stays missing.
WithoutDefaults(s) == s

\* perceiveRaw: a missing time is now; a missing channel is refused before.
WithDefaults(s) == IF s.occurred = NoDay THEN [s EXCEPT !.occurred = Today] ELSE s

\* school-backfill takes a mail of the schools, labelled or not, and injects
\* it through POST /api/perceive/raw, without a label.
Backfill(id) ==
  /\ backfills < MaxBackfills
  /\ ParseFromAddress(mailbox[id].from) \in SchoolAddresses
  /\ BuiltBackfill[mailbox[id]] # Failed
  /\ PublishTo("thinking", WithDefaults(BuiltBackfill[mailbox[id]]))
  /\ backfills' = backfills + 1
  /\ UNCHANGED <<incoming, gmail, nats, pc, local, effects, memory, lost,
                 mishaps>>

\* perceiveCLI: what it accepts, and the channel it makes of the mode.
Valid(post) ==
  /\ post.text # Empty
  /\ post.mode \in {Empty, "stimulus", "note"}
  /\ post.priority \in {Empty, "low", "normal", "high", "critical"}

BuildCLIStimulus(post) ==
  [source |-> post.id, channel |-> IF post.mode = "note" THEN "cli-note" ELSE "cli",
   sender |-> "cli", text |-> post.text, attachments |-> <<>>, thread |-> Empty,
   occurred |-> Today, severity |-> Empty, backfill |-> FALSE]

\* Accepted, refused, or failed: the human runs the command again or not.
PerceiveCLI(post) ==
  /\ post \in posts
  /\ \/ Valid(post) /\ PublishTo("thinking", BuildCLIStimulus(post))
          /\ posts' = posts \ {post} /\ UNCHANGED mishaps
     \/ Valid(post) /\ PublishToFails("thinking", BuildCLIStimulus(post))
          /\ UNCHANGED posts
     \/ ~Valid(post) /\ posts' = posts \ {post} /\ UNCHANGED <<stream, mishaps>>
  /\ UNCHANGED <<mailbox, alerts, gmail, nats, pc, local, effects, memory, lost,
                 backfills>>

\* A stimulus of one of the other watchers, which have modules of their own, or
\* one that a debugging session sends to POST /api/perceive/raw.
Alert(s) ==
  /\ s \in alerts
  /\ PublishTo("thinking", WithDefaults(s))
  /\ alerts' = alerts \ {s}
  /\ UNCHANGED <<mailbox, posts, gmail, nats, pc, local, effects, memory, lost,
                 backfills, mishaps>>

-----------------------------------------------------------------------------
(* JetStream, and the consumers' buffers *)

\* The oldest message that is neither acknowledged nor out.
Deliver(c) ==
  LET due == DOMAIN stream[c] \ (acked[c] \cup out[c])
  IN  /\ \E n \in due :
           /\ \A i \in due : n <= i
           /\ out' = [out EXCEPT ![c] = @ \cup {n}]
           /\ buf' = [buf EXCEPT ![c] = Append(@, n)]
      /\ UNCHANGED <<incoming, gmail, stream, acked, pc, local, effects, memory,
                     lost, backfills, mishaps>>

\* AckWait is over: a call took longer, or the messages before it did.
Expire(c) ==
  /\ Mishap
  /\ \E n \in out[c] : out' = [out EXCEPT ![c] = @ \ {n}]
  /\ UNCHANGED <<incoming, gmail, stream, acked, buf, pc, local, effects, memory,
                 lost, backfills>>

Seq1(c) == Head(buf[c])
Message(c) == stream[c][Seq1(c)]

\* Handle the next message.
Begin(c) == pc[c] = "idle" /\ buf[c] # <<>>

Goto(c, p) == pc' = [pc EXCEPT ![c] = p]

\* Nothing tells a client whether its ACK or NAK arrived.
Ack(c) ==
  /\ pc[c] = "ack"
  /\ \/ acked' = [acked EXCEPT ![c] = @ \cup {Seq1(c)}] /\ UNCHANGED mishaps
     \/ UNCHANGED acked /\ Mishap
  /\ out' = [out EXCEPT ![c] = @ \ {Seq1(c)}]
  /\ buf' = [buf EXCEPT ![c] = Tail(@)]
  /\ Goto(c, "idle")
  /\ UNCHANGED <<incoming, gmail, stream, local, effects, memory, lost, backfills>>

\* The service stops and starts again, with an empty buffer.
RestartService(c) ==
  /\ buf[c] # <<>>
  /\ Mishap
  /\ out' = [out EXCEPT ![c] = {}] /\ buf' = [buf EXCEPT ![c] = <<>>]
  /\ Goto(c, "idle")
  /\ request' = IF c = "thinking" THEN NoRequest ELSE request
  /\ IF c = "action" THEN entryStatus' = "none" /\ ev' = 0 ELSE UNCHANGED <<entryStatus, ev>>
  /\ UNCHANGED <<incoming, gmail, stream, acked, effects, memory, lost, backfills>>

GiveUp(c) == lost' = lost \cup {<<c, Seq1(c)>>}

-----------------------------------------------------------------------------
(* thinking-svc *)

\* The rule's verdict, after the LLM's answer if the rule asks for one.
Think ==
  /\ Begin("thinking")
  /\ \E reply \in Replies(Message("thinking")) :
       LET req == Process(Message("thinking"), reply)
       IN  IF req = NoRequest THEN Goto("thinking", "ack") /\ UNCHANGED request
           ELSE Goto("thinking", "publish") /\ request' = req
  /\ UNCHANGED <<incoming, gmail, stream, nats, entryStatus, ev, effects, memory, lost,
                 backfills, mishaps>>

\* A request, with the stimulus it is of.
Request == [of |-> Seq1("thinking"), req |-> request]

PublishRequest ==
  /\ pc["thinking"] = "publish"
  /\ PublishTo("action", Request)
  /\ request' = NoRequest /\ Goto("thinking", "ack")
  /\ UNCHANGED <<incoming, gmail, nats, entryStatus, ev, effects, memory, lost,
                 backfills, mishaps>>

\* The error is logged, and the stimulus acknowledged all the same.
PublishRequestFails ==
  /\ pc["thinking"] = "publish"
  /\ PublishToFails("action", Request)
  /\ GiveUp("thinking")
  /\ request' = NoRequest /\ Goto("thinking", "ack")
  /\ UNCHANGED <<incoming, gmail, nats, entryStatus, ev, effects, memory, backfills>>

-----------------------------------------------------------------------------
(* action-svc *)

Req == Message("action").req

School == Req.hint = "process_school_event"

\* Its occurred_at parses: no stimulus gets here without one.
Day == Req.occurred

\* A mail's entry goes on after its reason or note with the text.
EntryNewlines ==
  IF Req.text \in Texts THEN Trailing[Req.text]
  ELSE IF Req.hint = "append_daily_report_entry" THEN 0 ELSE 2

Entry == [of |-> Seq1("action"), whole |-> TRUE, newlines |-> EntryNewlines]

SetReport(file) == report' = [report EXCEPT ![Day][Req.important] = file]

AtEntry == Begin("action") \/ pc["action"] = "retry"

Appended(result) ==
  /\ entryStatus' = result /\ ev' = 1
  /\ Goto("action", "effects")

AppendReportEntry ==
  /\ AtEntry
  /\ SetReport(AppendEntry(report[Day][Req.important], Entry))
  /\ Appended("success")
  /\ UNCHANGED <<incoming, gmail, stream, nats, request, reminders, notified,
                 memory, lost, backfills, mishaps>>

\* After a failure one more attempt, and after two none.
Retry ==
  IF pc["action"] = "idle" THEN Goto("action", "retry") /\ UNCHANGED <<entryStatus, ev>>
  ELSE Appended("failed")

\* The append fails, and may leave a part of the entry behind.
AppendReportEntryFails ==
  /\ AtEntry
  /\ Mishap
  /\ \E file \in PartialAppends(report[Day][Req.important], Entry) : SetReport(file)
  /\ Retry
  /\ UNCHANGED <<incoming, gmail, stream, nats, request, reminders, notified,
                 memory, lost, backfills>>

Queued(date) == date # BadDate /\ date >= Today

\* The request's next event: schoolevents.Save, or dropped when its date is
\* over or does not parse.
SaveEvent ==
  /\ pc["action"] = "effects" /\ School /\ ev <= Len(Req.events)
  /\ \/ /\ Queued(Req.events[ev])
        /\ reminders' = reminders \cup {<<Req.thread, ev, Req.events[ev]>>}
     \/ ~Queued(Req.events[ev]) /\ UNCHANGED reminders
  /\ ev' = ev + 1
  /\ UNCHANGED <<incoming, gmail, stream, nats, pc, request, entryStatus, report,
                 notified, memory, lost, backfills, mishaps>>

\* ... or not saved, which is only logged.
SaveEventFails ==
  /\ pc["action"] = "effects" /\ School /\ ev <= Len(Req.events)
  /\ Queued(Req.events[ev])
  /\ Mishap
  /\ ev' = ev + 1
  /\ lost' = lost \cup {<<"event", Seq1("action")>>}
  /\ UNCHANGED <<incoming, gmail, stream, nats, pc, request, entryStatus, effects,
                 memory, backfills>>

\* Batcher.Add for what is important, appended or not; then the outcome.
Notify ==
  /\ pc["action"] = "effects"
  /\ School => ev > Len(Req.events)
  /\ notified' = IF Req.important /\ ~School THEN notified \cup {Seq1("action")}
                                             ELSE notified
  /\ Goto("action", "publish")
  /\ UNCHANGED <<incoming, gmail, stream, nats, local, report, reminders, memory,
                 lost, backfills, mishaps>>

Outcome == [of |-> Seq1("action"), source |-> Req.source, status |-> entryStatus]

Dispatched ==
  /\ entryStatus' = "none" /\ ev' = 0
  /\ Goto("action", "ack")

PublishOutcome ==
  /\ pc["action"] = "publish"
  /\ PublishTo("memory", Outcome)
  /\ Dispatched
  /\ UNCHANGED <<incoming, gmail, nats, request, effects, memory, lost, backfills,
                 mishaps>>

\* The publish fails; or there is no publisher, for want of a stream when
\* action-svc started.
PublishOutcomeFails ==
  /\ pc["action"] = "publish"
  /\ PublishToFails("memory", Outcome)
  /\ GiveUp("action")
  /\ Dispatched
  /\ UNCHANGED <<incoming, gmail, nats, request, effects, memory, backfills>>

-----------------------------------------------------------------------------
(* memory-svc *)

\* A mutant: no unique stream sequence.
InsertAlways(n, msg) == Append(episodes, <<n, msg>>)

\* A row per stream sequence: ON CONFLICT DO NOTHING.
Insert(n, msg) ==
  IF \E row \in Range(episodes) : row[1] = n THEN episodes
  ELSE Append(episodes, <<n, msg>>)

WriteEpisode ==
  /\ Begin("memory") /\ db
  /\ episodes' = Insert(Seq1("memory"), Message("memory"))
  /\ Goto("memory", "ack")
  /\ UNCHANGED <<incoming, gmail, stream, nats, local, effects, db, lost,
                 backfills, mishaps>>

\* A mutant: a failed write is acknowledged.
WriteEpisodeFailsAck ==
  /\ Begin("memory") /\ ~db
  /\ Goto("memory", "ack")
  /\ UNCHANGED <<incoming, gmail, stream, nats, local, effects, memory, lost,
                 backfills, mishaps>>

\* NakWithDelay: the message is due again.
WriteEpisodeFails ==
  /\ Begin("memory") /\ ~db
  /\ out' = [out EXCEPT !["memory"] = @ \ {Seq1("memory")}]
  /\ buf' = [buf EXCEPT !["memory"] = Tail(@)]
  /\ UNCHANGED <<incoming, gmail, stream, acked, pc, local, effects, memory, lost,
                 backfills, mishaps>>

Outage ==
  /\ db
  /\ Mishap
  /\ db' = FALSE
  /\ UNCHANGED <<incoming, gmail, stream, nats, pc, local, effects, episodes, lost,
                 backfills>>

\* The Reconnector of RawInputLog.
Reconnect ==
  /\ ~db
  /\ db' = TRUE
  /\ UNCHANGED <<incoming, gmail, stream, nats, pc, local, effects, episodes, lost,
                 backfills, mishaps>>

-----------------------------------------------------------------------------
\* The goroutine of gmailwatcher, and what else comes in.
Watcher ==
  \/ Poll \/ AddLabel
  \/ \E id \in ids : SkipMessage(id) \/ PublishMail(id) \/ PublishMailFails(id)

Intake ==
  \/ \E id \in DOMAIN mailbox : Backfill(id)
  \/ \E post \in posts : PerceiveCLI(post)
  \/ \E s \in alerts : Alert(s)

Thinking == Think \/ PublishRequest \/ PublishRequestFails

Action ==
  \/ AppendReportEntry \/ AppendReportEntryFails
  \/ SaveEvent \/ SaveEventFails \/ Notify
  \/ PublishOutcome \/ PublishOutcomeFails

Memory == WriteEpisode \/ WriteEpisodeFails

Consume(c) ==
  \/ Deliver(c) \/ Ack(c)
  \/ c = "thinking" /\ Thinking
  \/ c = "action" /\ Action
  \/ c = "memory" /\ Memory

PipelineNext ==
  \/ Watcher \/ Intake \/ RestartPerception
  \/ \E c \in Consumers : Consume(c) \/ Expire(c) \/ RestartService(c)
  \/ Outage \/ Reconnect \/ OwnerActs

PipelineSpec == PipelineInit /\ [][PipelineNext]_pipeline

\* The poll loop goes on; what is delivered is handled; Postgres comes back.
\* Nobody owes a mishap, a command or an alert.
PipelineFairness ==
  /\ WF_pipeline(Watcher)
  /\ WF_pipeline(\E c \in Consumers : Consume(c))
  /\ WF_pipeline(Reconnect)

FairPipeline == PipelineSpec /\ PipelineFairness

-----------------------------------------------------------------------------
(* Properties *)

Sources == DOMAIN mailbox \cup {s.source : s \in Range(stream["thinking"])}

Requests == Range(stream["action"])
Outcomes == Range(stream["memory"])

PipelineTypeOK ==
  /\ seen \subseteq DOMAIN mailbox /\ away \subseteq DOMAIN mailbox
  /\ ids \subseteq DOMAIN mailbox
  /\ labelled \in BOOLEAN /\ current \in ids \cup {NoMail}
  /\ \A s \in Range(stream["thinking"]) : s.occurred \in DOMAIN report
  /\ \A c \in Consumers :
       /\ acked[c] \subseteq DOMAIN stream[c] /\ out[c] \subseteq DOMAIN stream[c]
       /\ Range(buf[c]) \subseteq DOMAIN stream[c]
       /\ pc[c] # "idle" => buf[c] # <<>>
  /\ pc \in [Consumers -> {"idle", "publish", "ack", "retry", "effects"}]
  /\ entryStatus \in {"none", "success", "failed"} /\ ev \in Nat
  /\ db \in BOOLEAN
  /\ \A o \in Outcomes : o.status \in {"success", "failed"}
  /\ backfills \in 0..MaxBackfills /\ mishaps \in 0..MaxMishaps

\* What the next stage has of a mail, a stimulus, a request and an outcome.
HasStimulus(id) == \E s \in Range(stream["thinking"]) : s.source = id

HasRequest(n) ==
  \/ Match(stream["thinking"][n]) = <<>>
  \/ <<"thinking", n>> \in lost
  \/ \E r \in Requests : r.of = n

HasOutcome(n) == <<"action", n>> \in lost \/ \E o \in Outcomes : o.of = n

HasReminders(n) ==
  LET req == stream["action"][n].req
  IN  \/ <<"event", n>> \in lost
      \/ \A i \in DOMAIN req.events :
           Queued(req.events[i]) => <<req.thread, i, req.events[i]>> \in reminders

HasNotification(n) ==
  LET req == stream["action"][n].req
  IN  req.important /\ req.events = <<>> => n \in notified

HasEpisode(n) == \E row \in Range(episodes) : row[1] = n

\* No stage acknowledges a message, and Gmail's label is not set, before the
\* next one has it -- unless the handler failed and gave up
\* (consumer.go:14-18, dispatch.go:63-66): a labelled mail has its stimulus, an
\* acknowledged stimulus its request, an acknowledged request its outcome, its
\* events and its notification, and an acknowledged outcome its episode.
HandedOn ==
  /\ \A id \in seen : HasStimulus(id)
  /\ \A n \in acked["thinking"] : HasRequest(n)
  /\ \A n \in acked["action"] : HasOutcome(n) /\ HasReminders(n) /\ HasNotification(n)
  /\ \A n \in acked["memory"] : HasEpisode(n)

WholeIn(file, source) ==
  {k \in DOMAIN file :
     file[k].whole /\ stream["action"][file[k].of].req.source = source}

WholeEntries(source) ==
  UNION {UNION {{<<d, i, k>> : k \in WholeIn(report[d][i], source)} : i \in BOOLEAN} :
           d \in DOMAIN report}

\* Delivery is at least once at every stage (gmailwatcher.go:140-142, the
\* streams' redelivery), so a mail may be in the report and among the episodes
\* more than once: but only once more for each crash, failed call or expired
\* ACK wait, and for each injection by school-backfill; and an outcome is one
\* episode however often it is delivered (episodes.go:26-28).
RepeatsAccountedFor ==
  /\ \A source \in Sources :
       /\ Cardinality(WholeEntries(source)) <= 1 + mishaps + backfills
       /\ Cardinality({i \in DOMAIN episodes : episodes[i][2].source = source})
            <= 1 + mishaps + backfills
  /\ \A i, j \in DOMAIN episodes : episodes[i][1] = episodes[j][1] => i = j

Reported(n) ==
  LET req  == stream["action"][n].req
      file == report[req.occurred][req.important]
  IN  \E k \in DOMAIN file : file[k].of = n /\ file[k].whole

\* An outcome "success" means that the whole entry is in the file of its day
\* and importance, and every file can be read: an entry follows exactly one
\* blank line (report.go:39-41), whatever text was before it and whatever part
\* a failed append has left there.
SuccessIsReported ==
  /\ \A o \in Outcomes : o.status = "success" => Reported(o.of)
  /\ \A d \in DOMAIN report, i \in BOOLEAN : WellSeparated(report[d][i])

\* "The first text/plain part found; if none exists ... the first text/html
\* part", and no part with a file name (stimulus.go:115-118, 133-137).
BodyIsBestText ==
  \A s \in Range(stream["thinking"]) :
    s.source \in DOMAIN mailbox /\ ~s.backfill =>
      s.text = BestText(mailbox[s.source].payload)

LostOf(source) ==
  \/ \E n \in DOMAIN stream["thinking"] :
       <<"thinking", n>> \in lost /\ stream["thinking"][n].source = source
  \/ \E n \in DOMAIN stream["action"] :
       <<"action", n>> \in lost /\ stream["action"][n].req.source = source

\* Gmail does not list a mail that has no stimulus yet.
Unlisted(id) == id \in away /\ ~HasStimulus(id)

\* Every mail of which a stimulus can be built becomes an episode, though a
\* mail that cannot be read lies beside it and comes up at every poll
\* (gmailwatcher.go:98-100) -- unless a handler gives up on it, or the owner
\* keeps reading or archiving it before it is published: then the configured
\* query (prod.json:17) does not list it again, also not after a failed
\* GetMessage or publish, whose retry is the next poll's.
EventuallyRecorded ==
  \A mail \in Mails :
    Built[mail] # Failed =>
      \/ []<>Unlisted(mail.id)
      \/ <>(mail \in Range(mailbox)
              => LostOf(mail.id) \/ \E row \in Range(episodes) : row[2].source = mail.id)
=============================================================================
