--------------------------- MODULE SchoolReminders ---------------------------
(***************************************************************************)
(* action-svc: reminders of school dates found in emails.                  *)
(*                                                                         *)
(* The consumer goroutine saves an event file per date it extracts         *)
(* (dispatch/school_event.go, schoolevents/store.go).  The scheduler's two *)
(* goroutines -- the catch-up at start and the daily loop -- run RunOnce   *)
(* under a mutex: read the due events, and for each group of one date and  *)
(* time send a Discord message and a Calendar invite, marking each event's *)
(* file after each (scheduler/school.go).  Save and the marks read a file, *)
(* change it and write it back, with no lock between consumer and          *)
(* scheduler; a write truncates the file first and fills it after.  An     *)
(* email may be processed again: redelivery, or a deliberate backfill.     *)
(*                                                                         *)
(* A file is the pair of channel states it parses to.  The daily report    *)
(* and the outcome record of the same request are not modelled here.       *)
(***************************************************************************)
EXTENDS Integers

CONSTANTS
  Events,       \* event ids; an email with several is several deliveries
  Date,         \* Date[e]: its day
  Slot,         \* Slot[e]: its date and time; one group per slot
  Empty,        \* no file, or one without content
  Corrupt,      \* a file that does not unmarshal
  NoEvent, Free,
  MaxTime,      \* bound: the clock; two ticks a day, notifyTime between them
  MaxDeliveries,  \* bound: emails processed, the same ones again included
  MaxMishaps    \* bound: crashes, and failed sends, invites and writes

Channels == {"discord", "calendar"}
Runners  == {"catchup", "loop"}
Threads  == Runners \cup {"dispatch"}
Contents == [Channels -> {"pending", "sent"}]

ASSUME EventsAssumption ==
  /\ Date \in [Events -> Nat]
  /\ \A e, f \in Events : Slot[e] = Slot[f] => Date[e] = Date[f]
  /\ NoEvent \notin Events
  /\ Empty # Corrupt /\ Empty \notin Contents /\ Corrupt \notin Contents
  /\ Free \notin Runners

ASSUME BoundsAssumption ==
  /\ MaxTime \in Nat /\ MaxDeliveries \in Nat /\ MaxMishaps \in Nat

VARIABLES
  file,        \* file[e]: $root/logs/school-events/<e>.json
  now,         \* the clock: day now \div 2, past notifyTime when odd
  wake,        \* the tick the daily loop waits for
  recipients,  \* the configuration names a recipient and an inviter
  up,          \* action-svc is running
  mu,          \* SchoolEventScheduler.mu: its holder, or Free
  pc,          \* pc[t]: where the goroutine t is
  ev,          \* ev[t]: the event whose file it is about to write
  rec,         \* rec[t]: what it is about to write
  job,         \* job[r]: what RunOnce has still to do
  sent,        \* history: sent[c][e] notifications of e reached channel c
  overlaps,    \* history: overlaps[e] times a Save and a mark of e overlapped
  deliveries, mishaps  \* what the bounds count

clock   == <<now, wake>>
service == <<recipients, up>>
local   == <<pc, ev, rec, job>>
budgets == <<deliveries, mishaps>>
vars == <<file, clock, service, mu, local, sent, overlaps, budgets>>

Today == now \div 2
Readable(e) == file[e] \in Contents
Fresh == [c \in Channels |-> "pending"]

NoJob == [discord |-> {}, calendar |-> {}, group |-> {}, channel |-> "discord",
          marks |-> {}]

\* nextRun: the next notifyTime strictly after t.
NextRun(t) == IF t % 2 = 1 THEN t + 2 ELSE t + 1

Init ==
  /\ file = [e \in Events |-> Empty]
  /\ now = 0 /\ wake = 0
  /\ recipients = FALSE /\ up = FALSE /\ mu = Free
  /\ pc = [t \in Threads |-> "idle"]
  /\ ev = [t \in Threads |-> NoEvent]
  /\ rec = [t \in Threads |-> Fresh]
  /\ job = [r \in Runners |-> NoJob]
  /\ sent = [c \in Channels |-> [e \in Events |-> 0]]
  /\ overlaps = [e \in Events |-> 0]
  /\ deliveries = 0 /\ mishaps = 0

-----------------------------------------------------------------------------
(* Building blocks *)

Mishap   == mishaps < MaxMishaps /\ mishaps' = mishaps + 1
NoMishap == UNCHANGED mishaps

Goto(t, l) == pc' = [pc EXCEPT ![t] = l]

\* t is between its read of e's file and the end of its write.
Rewriting(t, e) == pc[t] \in {"open", "fill"} /\ ev[t] = e

CountOverlap(e, others) ==
  overlaps' = IF \E t \in others : Rewriting(t, e)
                THEN [overlaps EXCEPT ![e] = @ + 1] ELSE overlaps

\* The write is over: the dispatcher returns, a runner takes its next mark.
Written(t) == Goto(t, IF t = "dispatch" THEN "idle" ELSE "mark")

-----------------------------------------------------------------------------
(* write: os.WriteFile truncates, then writes.  Either part may fail, and   *)
(* the caller logs it and goes on.                                          *)

Open(t) ==
  /\ pc[t] = "open"
  /\ \/ /\ file' = [file EXCEPT ![ev[t]] = Empty]
        /\ Goto(t, "fill") /\ NoMishap
     \/ UNCHANGED file /\ Written(t) /\ Mishap
  /\ UNCHANGED <<clock, service, mu, ev, rec, job, sent, overlaps, deliveries>>

\* Another goroutine may have filled the file since this one truncated it.
\* The bytes of both start at offset 0: what is left of a longer text makes
\* it unparseable.
Fill(t) ==
  /\ pc[t] = "fill"
  /\ \/ \E content \in {rec[t]} \cup (IF file[ev[t]] = Empty THEN {} ELSE {Corrupt}) :
          file' = [file EXCEPT ![ev[t]] = content]
        /\ NoMishap
     \/ UNCHANGED file /\ Mishap
  /\ Written(t)
  /\ UNCHANGED <<clock, service, mu, ev, rec, job, sent, overlaps, deliveries>>

-----------------------------------------------------------------------------
(* The consumer goroutine: dispatchSchoolEvent and schoolevents.Save *)

\* A request arrives; a date that is past is dropped.
Deliver(e) ==
  /\ up
  /\ pc["dispatch"] = "idle"
  /\ deliveries < MaxDeliveries
  /\ deliveries' = deliveries + 1
  /\ IF Date[e] < Today
       THEN UNCHANGED <<pc, ev>>
       ELSE Goto("dispatch", "read") /\ ev' = [ev EXCEPT !["dispatch"] = e]
  /\ UNCHANGED <<file, clock, service, mu, rec, job, sent, overlaps, mishaps>>

\* A mutant: what the file says of the channels is not kept.
SaveOverwrites ==
  /\ pc["dispatch"] = "read"
  /\ LET e == ev["dispatch"] IN
     /\ Goto("dispatch", "open")
     /\ rec' = [rec EXCEPT !["dispatch"] = Fresh]
     /\ CountOverlap(e, Runners)
  /\ UNCHANGED <<file, clock, service, mu, ev, job, sent, budgets>>

\* Save: keep what the existing file has resolved; a no-op when that is all.
Save ==
  /\ pc["dispatch"] = "read"
  /\ LET e == ev["dispatch"] IN
     /\ IF Readable(e) /\ \A c \in Channels : file[e][c] # "pending"
          THEN Goto("dispatch", "idle") /\ UNCHANGED rec
          ELSE /\ Goto("dispatch", "open")
               /\ rec' = [rec EXCEPT !["dispatch"] =
                            IF Readable(e) THEN file[e] ELSE Fresh]
     /\ CountOverlap(e, Runners)
  /\ UNCHANGED <<file, clock, service, mu, ev, job, sent, budgets>>

-----------------------------------------------------------------------------
(* RunOnce, by the runner r *)

\* The daily loop's timer fires.
Wake ==
  /\ up
  /\ pc["loop"] = "idle"
  /\ now >= wake
  /\ Goto("loop", "lock")
  /\ UNCHANGED <<file, clock, service, mu, ev, rec, job, sent, overlaps,
                 budgets>>

\* A mutant: overdue events are not picked up.
DueOnly(e) == Date[e] \in {Today, Today + 1}

\* Due from the day before on, until staleCutoffDays (2) past its date.
DueOrOverdue(e) == Date[e] <= Today + 1 /\ Date[e] >= Today - 2

\* RunOnce, once it holds the mutex: lists the files and keeps their state
\* as read; unreadable ones are skipped.
Scan(r) ==
  /\ LET due == {e \in Events : Readable(e) /\ DueOrOverdue(e)}
         pending(c) == {e \in due : file[e][c] = "pending"}
     IN job' = [job EXCEPT ![r] = [NoJob EXCEPT !.discord = pending("discord"),
                                               !.calendar = pending("calendar")]]
  /\ Goto(r, "group")
  /\ UNCHANGED <<file, clock, service, ev, rec, sent, overlaps, budgets>>

Begin(r) ==
  /\ pc[r] = "lock"
  /\ mu = Free
  /\ mu' = r
  /\ Scan(r)

\* The next group of events with the same date and time.
Group(r) ==
  /\ pc[r] = "group"
  /\ \E e \in job[r].discord \cup job[r].calendar :
       job' = [job EXCEPT ![r].group = {f \in Events : Slot[f] = Slot[e]},
                          ![r].channel = "discord"]
  /\ Goto(r, "notify")
  /\ UNCHANGED <<file, clock, service, mu, ev, rec, sent, overlaps, budgets>>

\* RunOnce returns; the loop computes its next run.
Done(r) ==
  /\ pc[r] = "group"
  /\ job[r].discord \cup job[r].calendar = {}
  /\ mu' = Free
  /\ Goto(r, "idle")
  /\ job' = [job EXCEPT ![r] = NoJob]
  /\ wake' = IF r = "loop" THEN NextRun(now) ELSE wake
  /\ UNCHANGED <<file, now, service, ev, rec, sent, overlaps, budgets>>

\* The events of the group pending in the channel whose turn it is.
ToNotify(r) == job[r][job[r].channel] \cap job[r].group

\* On to the invite of the same group, or to the next group.
NextChannel(r) ==
  IF job[r].channel = "discord"
    THEN /\ job' = [job EXCEPT ![r].channel = "calendar", ![r].marks = {}]
         /\ Goto(r, "notify")
    ELSE /\ job' = [job EXCEPT ![r].discord = @ \ job[r].group,
                               ![r].calendar = @ \ job[r].group,
                               ![r].marks = {}]
         /\ Goto(r, "group")

Reach(r, n) ==
  sent' = [sent EXCEPT ![job[r].channel] =
             [e \in Events |-> @[e] + IF e \in ToNotify(r) THEN n ELSE 0]]

\* Nothing is pending in this channel, or nobody would get the invite: the
\* channel stays pending.
Skip(r) ==
  /\ pc[r] = "notify"
  /\ ToNotify(r) = {} \/ (job[r].channel = "calendar" /\ ~recipients)
  /\ NextChannel(r)
  /\ UNCHANGED <<file, clock, service, mu, ev, rec, sent, overlaps, budgets>>

\* The message, or the invite, is accepted.  An attempt at Discord that
\* times out after delivering is repeated.
Notify(r) ==
  /\ pc[r] = "notify"
  /\ ToNotify(r) # {}
  /\ job[r].channel = "calendar" => recipients
  /\ \/ Reach(r, 1) /\ NoMishap
     \/ job[r].channel = "discord" /\ Reach(r, 2) /\ Mishap
  /\ job' = [job EXCEPT ![r].marks = ToNotify(r)]
  /\ Goto(r, "mark")
  /\ UNCHANGED <<file, clock, service, mu, ev, rec, overlaps, deliveries>>

\* A mutant: the events are marked although the notification failed.
NotifyFailsMarked(r) ==
  /\ pc[r] = "notify"
  /\ ToNotify(r) # {}
  /\ job[r].channel = "calendar" => recipients
  /\ Reach(r, 0) \/ Reach(r, 1)
  /\ Mishap
  /\ job' = [job EXCEPT ![r].marks = ToNotify(r)]
  /\ Goto(r, "mark")
  /\ UNCHANGED <<file, clock, service, mu, ev, rec, overlaps, deliveries>>

\* It is given up, delivered or not, and the events stay pending.
NotifyFails(r) ==
  /\ pc[r] = "notify"
  /\ ToNotify(r) # {}
  /\ job[r].channel = "calendar" => recipients
  /\ Reach(r, 0) \/ Reach(r, 1)
  /\ Mishap
  /\ NextChannel(r)
  /\ UNCHANGED <<file, clock, service, mu, ev, rec, overlaps, deliveries>>

\* MarkDiscordSent, MarkCalendarStatus: read the file again; an event whose
\* file cannot be read is passed over.
Mark(r) ==
  /\ pc[r] = "mark"
  /\ \E e \in job[r].marks :
       /\ job' = [job EXCEPT ![r].marks = @ \ {e}]
       /\ CountOverlap(e, {"dispatch"})
       /\ IF Readable(e)
            THEN /\ ev' = [ev EXCEPT ![r] = e]
                 /\ rec' = [rec EXCEPT ![r] =
                              [file[e] EXCEPT ![job[r].channel] = "sent"]]
                 /\ Goto(r, "open")
            ELSE UNCHANGED <<pc, ev, rec>>
  /\ UNCHANGED <<file, clock, service, mu, sent, budgets>>

Marked(r) ==
  /\ pc[r] = "mark"
  /\ job[r].marks = {}
  /\ NextChannel(r)
  /\ UNCHANGED <<file, clock, service, mu, ev, rec, sent, overlaps, budgets>>

RunOnce(r) ==
  \/ Begin(r) \/ Group(r) \/ Done(r)
  \/ Skip(r) \/ Notify(r) \/ NotifyFails(r) \/ Mark(r) \/ Marked(r)

-----------------------------------------------------------------------------
(* The process and the clock *)

\* Start: the catch-up runs at once; the loop waits for its first tick.
Start ==
  /\ ~up
  /\ up' = TRUE
  /\ recipients' \in BOOLEAN
  /\ wake' = NextRun(now)
  /\ Goto("catchup", "lock")
  /\ UNCHANGED <<file, now, mu, ev, rec, job, sent, overlaps, budgets>>

Crash ==
  /\ up
  /\ Mishap
  /\ up' = FALSE
  /\ mu' = Free
  /\ pc' = [t \in Threads |-> "idle"]
  /\ ev' = [t \in Threads |-> NoEvent]
  /\ rec' = [t \in Threads |-> Fresh]
  /\ job' = [r \in Runners |-> NoJob]
  /\ UNCHANGED <<file, clock, recipients, sent, overlaps, deliveries>>

\* A run takes seconds: the day does not end before it, or before the run
\* that is due.  notifyTime may come at any moment.
Tick ==
  /\ now < MaxTime
  /\ up /\ now % 2 = 1 =>
       now < wake /\ \A t \in Threads : pc[t] = "idle"
  /\ now' = now + 1
  /\ UNCHANGED <<file, wake, service, mu, local, sent, overlaps, budgets>>

-----------------------------------------------------------------------------
Next ==
  \/ \E e \in Events : Deliver(e)
  \/ Save
  \/ \E t \in Threads : Open(t) \/ Fill(t)
  \/ Wake
  \/ \E r \in Runners : RunOnce(r)
  \/ Start \/ Crash \/ Tick

Spec == Init /\ [][Next]_vars

\* Goroutines run, timers fire, the service is restarted and time passes.
\* Nothing obliges an email to come again.
Fairness ==
  /\ WF_vars(Save)
  /\ \A t \in Threads : WF_vars(Open(t) \/ Fill(t))
  /\ WF_vars(Wake)
  /\ \A r \in Runners : WF_vars(RunOnce(r) /\ pc[r] # "lock") /\ SF_vars(Begin(r))
  /\ WF_vars(Start)
  /\ WF_vars(Tick)

FairSpec == Spec /\ Fairness

-----------------------------------------------------------------------------
(* Properties *)

TypeOK ==
  /\ file \in [Events -> Contents \cup {Empty, Corrupt}]
  /\ now \in 0..MaxTime /\ wake \in 0..MaxTime + 2
  /\ recipients \in BOOLEAN /\ up \in BOOLEAN /\ mu \in Runners \cup {Free}
  /\ pc \in [Threads -> {"idle", "read", "open", "fill", "lock", "group",
                         "notify", "mark"}]
  /\ ev \in [Threads -> Events \cup {NoEvent}] /\ rec \in [Threads -> Contents]
  /\ job \in [Runners -> [discord : SUBSET Events, calendar : SUBSET Events,
                          group : SUBSET Events, channel : Channels,
                          marks : SUBSET Events]]
  /\ sent \in [Channels -> [Events -> Nat]] /\ overlaps \in [Events -> Nat]
  /\ deliveries \in 0..MaxDeliveries /\ mishaps \in 0..MaxMishaps

\* An event is never resolved in a channel it did not reach: whatever is
\* re-processed, torn or raced, no reminder is skipped (school.go:153-184,
\* store.go:67-84, 109-127).
ResolvedWasSent ==
  \A e \in Events : Readable(e) =>
    \A c \in Channels : file[e][c] = "sent" => sent[c][e] > 0

\* A channel fires again for an event only because of a crash, a failed call
\* or a Save that overlapped a mark of the same event: processing an email
\* again does not, nor does the catch-up beside the daily run
\* (store.go:46-84, school.go:42-46).
RemindersAccountedFor ==
  \A e \in Events : \A c \in Channels :
    sent[c][e] <= 1 + mishaps + overlaps[e]

\* "... never causes an already-succeeded channel to fire twice" (store.go:
\* 23-27): without crashes and failed calls every channel fires once.
FiresOnce ==
  mishaps = 0 =>
    \A e \in Events : \A c \in Channels : sent[c][e] <= 1

\* No crash or failed call is left to happen.
Calm == up /\ mishaps = MaxMishaps

\* "Better late than never" (store.go:18-21, school.go:65-68): an event that
\* is pending no later than the day after its date is still resolved, by
\* the catch-up or the next daily run, unless its file is destroyed.
EventuallyReminded ==
  \A e \in Events :
    (Calm /\ Readable(e) /\ file[e]["discord"] = "pending" /\ Today <= Date[e] + 1)
      ~> (~Readable(e) \/ file[e]["discord"] = "sent")
=============================================================================
