----------------------- MODULE SchoolRemindersProofs -----------------------
(***************************************************************************)
(* For any events, dates and bounds: no file says of an event that a       *)
(* channel is resolved which the event did not reach, and no channel fires *)
(* again for an event without a mishap or an overlap of two writes.        *)
(***************************************************************************)
EXTENDS SchoolReminders, TLAPS

\* What a goroutine is about to write says no more than what was sent.
WritesWhatWasSent ==
  \A t \in Threads : pc[t] \in {"open", "fill"} =>
    /\ ev[t] \in Events
    /\ \A c \in Channels : rec[t][c] = "sent" => sent[c][ev[t]] > 0

\* An event is marked only in a channel it has reached.
MarksWhatWasSent ==
  \A r \in Runners : pc[r] \in {"mark", "open", "fill"} =>
    \A e \in job[r].marks : sent[job[r].channel][e] > 0

\* Save has an event whose file it reads.
SavesAnEvent == pc["dispatch"] = "read" => ev["dispatch"] \in Events

\* A run of the scheduler that has its list of due events.
Running == {"group", "notify", "mark", "open", "fill"}

\* The mutex keeps the runs apart, and a service that is down does nothing.
OneRuns    == \A r \in Runners : pc[r] \in Running => mu = r
DownIsIdle == ~up => \A t \in Threads : pc[t] = "idle"

\* Who is between the read and the end of the write of e's file, and whose
\* text is longer than the one it would complete.
Saving(e)  == Rewriting("dispatch", e)
Marks(e)   == \E r \in Runners : Rewriting(r, e)
Torn(t, e) == Rewriting(t, e) /\ pc[t] = "fill" /\ file[e] # Empty

\* Save knows no more than the file, and a mark no less: what one of them or
\* the file has as sent is so in the next.
NothingForgotten ==
  \A e \in Events : \A c \in Channels :
    /\ Saving(e) /\ rec["dispatch"][c] = "sent" /\ Readable(e) => file[e][c] = "sent"
    /\ \A r \in Runners : Rewriting(r, e) =>
         /\ Readable(e) /\ file[e][c] = "sent" => rec[r][c] = "sent"
         /\ Saving(e) /\ rec["dispatch"][c] = "sent" => rec[r][c] = "sent"

\* Two writers that have both truncated the file have not filled it.
BothFilling ==
  \A e \in Events : \A r \in Runners :
    Saving(e) /\ Rewriting(r, e) /\ pc["dispatch"] = "fill" /\ pc[r] = "fill" =>
      file[e] = Empty

\* The run r still has to notify c of e, or to mark that it has.
ToCome(r, c, e) ==
  /\ pc[r] \in Running
  /\ e \in job[r][c]
  /\ \/ pc[r] = "group"
     \/ e \notin job[r].group
     \/ job[r].channel = "discord" /\ c = "calendar"
     \/ job[r].channel = c /\ pc[r] = "notify"
ToMark(r, c, e) ==
  pc[r] \in {"mark", "open", "fill"} /\ job[r].channel = c /\ e \in job[r].marks

Todo(c, e)   == \E r \in Runners : ToCome(r, c, e)
Coming(c, e) == \E r \in Runners : ToCome(r, c, e) \/ ToMark(r, c, e)

\* What e's file will say when the writes under way are over: the mark's text
\* if there is one, else what Save fills into an empty file, else the file.
Saved(e)      == Saving(e) /\ ~Torn("dispatch", e)
WillParse(e)  == Marks(e) \/ Saved(e) \/ Readable(e)
WillBeSent(c, e) ==
  \/ \E r \in Runners : Rewriting(r, e) /\ rec[r][c] = "sent"
  \/ ~Marks(e) /\ Saved(e) /\ rec["dispatch"][c] = "sent"
  \/ ~Marks(e) /\ ~Saved(e) /\ Readable(e) /\ file[e][c] = "sent"

\* Save and a mark write e's file at once, or one is completing a longer text.
Clash(e) == (Saving(e) /\ Marks(e)) \/ \E t \in Threads : Torn(t, e)

\* A later run may find e pending in c, or an email write it anew.
Reopens(c, e) == ~(WillBeSent(c, e) \/ (WillParse(e) /\ Coming(c, e)))

Count(b) == IF b THEN 1 ELSE 0

\* Every notification, sent, still to come or to be expected again, is the
\* first one or has a cause.
Accounted ==
  \A e \in Events : \A c \in Channels :
    sent[c][e] + Count(Todo(c, e)) + Count(Clash(e)) + Count(Reopens(c, e))
      <= 1 + mishaps + overlaps[e]

IInv ==
  /\ TypeOK /\ ResolvedWasSent
  /\ WritesWhatWasSent /\ MarksWhatWasSent /\ SavesAnEvent
  /\ OneRuns /\ DownIsIdle /\ NothingForgotten /\ BothFilling /\ Accounted

Labels == {"idle", "read", "open", "fill", "lock", "group", "notify", "mark"}
Jobs == [discord : SUBSET Events, calendar : SUBSET Events,
         group : SUBSET Events, channel : Channels, marks : SUBSET Events]

-----------------------------------------------------------------------------

LEMMA InitIInv == Init => IInv
<1> SUFFICES ASSUME Init PROVE IInv
  OBVIOUS
<1>1. Fresh \in Contents /\ NoJob \in Jobs
  BY DEF Fresh, Contents, NoJob, Jobs, Channels
<1>2. TypeOK
  <2>1. recipients \in BOOLEAN /\ up \in BOOLEAN
    BY DEF Init
  <2>2. QED
    BY <1>1, <2>1, BoundsAssumption DEF Init, TypeOK, Jobs
<1>3. ResolvedWasSent /\ WritesWhatWasSent /\ MarksWhatWasSent /\ SavesAnEvent
  BY EventsAssumption
  DEF Init, ResolvedWasSent, WritesWhatWasSent, MarksWhatWasSent, SavesAnEvent,
      Readable, Runners, Threads
<1>4. OneRuns /\ DownIsIdle /\ NothingForgotten /\ BothFilling
  BY DEF Init, OneRuns, DownIsIdle, NothingForgotten, BothFilling, Saving, Rewriting,
         Running, Threads
<1>5. Accounted
  <2> SUFFICES ASSUME NEW e \in Events, NEW c \in Channels
               PROVE  sent[c][e] + Count(Todo(c, e)) + Count(Clash(e)) + Count(Reopens(c, e))
                        <= 1 + mishaps + overlaps[e]
    BY DEF Accounted
  <2>1. ~Todo(c, e) /\ ~Clash(e)
    BY DEF Init, Todo, ToCome, Clash, Saving, Torn, Rewriting, Running, Threads
  <2>2. sent[c][e] = 0 /\ mishaps = 0 /\ overlaps[e] = 0
    BY DEF Init
  <2>3. QED
    BY <2>1, <2>2 DEF Count
<1>6. QED
  BY <1>2, <1>3, <1>4, <1>5 DEF IInv

LEMMA MishapType ==
  ASSUME mishaps \in 0..MaxMishaps, Mishap \/ NoMishap
  PROVE  mishaps' \in 0..MaxMishaps
  BY BoundsAssumption DEF Mishap, NoMishap

LEMMA GotoType ==
  ASSUME pc \in [Threads -> Labels], NEW t \in Threads, NEW l \in Labels, Goto(t, l)
  PROVE  pc' \in [Threads -> Labels]
  BY DEF Goto

LEMMA OverlapType ==
  ASSUME overlaps \in [Events -> Nat], NEW e, NEW others, CountOverlap(e, others)
  PROVE  overlaps' \in [Events -> Nat]
<1>1. overlaps' = overlaps \/ overlaps' = [overlaps EXCEPT ![e] = @ + 1]
  BY Zenon DEF CountOverlap
<1>2. QED
  BY <1>1

LEMMA ReachType ==
  ASSUME TypeOK, NEW r \in Runners, NEW n \in Nat, Reach(r, n)
  PROVE  /\ sent' \in [Channels -> [Events -> Nat]]
         /\ \A c \in Channels : \A e \in Events : sent'[c][e] >= sent[c][e]
         /\ n > 0 => \A e \in ToNotify(r) : sent'[job[r].channel][e] > 0
<1>1. /\ sent \in [Channels -> [Events -> Nat]] /\ job[r] \in Jobs
      /\ job[r].channel \in Channels
  BY DEF TypeOK, Jobs
<1>2. ToNotify(r) \subseteq Events
  BY <1>1 DEF ToNotify, Jobs
<1> DEFINE more == [e \in Events |-> sent[job[r].channel][e]
                                       + IF e \in ToNotify(r) THEN n ELSE 0]
<1>3. more \in [Events -> Nat] /\ sent' = [sent EXCEPT ![job[r].channel] = more]
  BY <1>1 DEF Reach
<1>4. \A e \in Events : more[e] >= sent[job[r].channel][e]
  BY <1>1
<1>5. n > 0 => \A e \in ToNotify(r) : more[e] > 0
  BY <1>1, <1>2
<1> HIDE DEF more
<1>6. QED
  BY <1>1, <1>2, <1>3, <1>4, <1>5

LEMMA NextChannelType ==
  ASSUME TypeOK, NEW r \in Runners, NextChannel(r)
  PROVE  /\ job' \in [Runners -> Jobs] /\ pc' \in [Threads -> Labels]
         /\ pc' = [pc EXCEPT ![r] = "notify"] \/ pc' = [pc EXCEPT ![r] = "group"]
         /\ \A s \in Runners \ {r} : job'[s] = job[s]
<1>1. /\ job \in [Runners -> Jobs] /\ pc \in [Threads -> Labels] /\ r \in Threads
      /\ job[r] \in Jobs
  BY DEF TypeOK, Jobs, Labels, Threads
<1>2. \/ job' = [job EXCEPT ![r] = [job[r] EXCEPT !.channel = "calendar", !.marks = {}]]
      \/ job' = [job EXCEPT ![r] = [job[r] EXCEPT !.discord = @ \ job[r].group,
                                                  !.calendar = @ \ job[r].group,
                                                  !.marks = {}]]
  BY <1>1 DEF NextChannel, Jobs
<1>3. /\ [job[r] EXCEPT !.channel = "calendar", !.marks = {}] \in Jobs
      /\ [job[r] EXCEPT !.discord = @ \ job[r].group,
                        !.calendar = @ \ job[r].group, !.marks = {}] \in Jobs
  BY <1>1 DEF Jobs, Channels
<1>4. pc' = [pc EXCEPT ![r] = "notify"] \/ pc' = [pc EXCEPT ![r] = "group"]
  BY DEF NextChannel, Goto
<1>5. job' \in [Runners -> Jobs] /\ \A s \in Runners \ {r} : job'[s] = job[s]
  BY <1>1, <1>2, <1>3
<1>6. pc' \in [Threads -> Labels]
  BY <1>1, <1>4 DEF Labels
<1>7. QED
  BY <1>4, <1>5, <1>6

\* Every step keeps the types of the variables.
LEMMA NextTypeOK == TypeOK /\ [Next]_vars => TypeOK'
<1> SUFFICES ASSUME TypeOK, [Next]_vars PROVE TypeOK'
  OBVIOUS
<1> USE BoundsAssumption DEF clock, service, local, budgets
<1>1. /\ job \in [Runners -> Jobs] /\ pc \in [Threads -> Labels]
      /\ overlaps \in [Events -> Nat] /\ mishaps \in 0..MaxMishaps
      /\ Fresh \in Contents /\ NoJob \in Jobs /\ Runners \subseteq Threads
  BY DEF TypeOK, Jobs, Labels, Fresh, Contents, NoJob, Channels, Threads
<1>2. ASSUME UNCHANGED <<file, now, recipients, up, sent, deliveries>>,
             wake' \in 0..MaxTime + 2, mu' \in Runners \cup {Free},
             pc' \in [Threads -> Labels],
             ev' \in [Threads -> Events \cup {NoEvent}],
             rec' \in [Threads -> Contents], job' \in [Runners -> Jobs],
             overlaps' \in [Events -> Nat], mishaps' \in 0..MaxMishaps
      PROVE  TypeOK'
  BY <1>2 DEF TypeOK, Jobs, Labels
<1>3. ASSUME NEW e \in Events, Deliver(e) PROVE TypeOK'
  <2>1. /\ pc' \in [Threads -> Labels] /\ ev' \in [Threads -> Events \cup {NoEvent}]
        /\ deliveries' \in 0..MaxDeliveries
    <3>1. \/ UNCHANGED <<pc, ev>>
          \/ /\ pc' = [pc EXCEPT !["dispatch"] = "read"]
             /\ ev' = [ev EXCEPT !["dispatch"] = e]
      BY <1>3, Zenon DEF Deliver, Goto
    <3>2. ev \in [Threads -> Events \cup {NoEvent}]
      BY DEF TypeOK
    <3>3. deliveries' \in 0..MaxDeliveries
      BY <1>3 DEF TypeOK, Deliver
    <3>4. QED
      BY <1>1, <3>1, <3>2, <3>3 DEF Labels
  <2>2. QED
    BY <1>3, <2>1 DEF TypeOK, Deliver, Labels
<1>4. CASE Save
  <2>1. pc' \in [Threads -> Labels]
    BY <1>1, <1>4 DEF Save, Goto, Labels
  <2>2. /\ UNCHANGED <<file, clock, service, mu, ev, job, sent, budgets>>
        /\ overlaps' \in [Events -> Nat]
    <3>1. CountOverlap(ev["dispatch"], Runners)
      BY <1>4 DEF Save
    <3>2. QED
      BY <1>1, <1>4, <3>1, OverlapType DEF Save
  <2>3. rec' \in [Threads -> Contents]
    BY <1>1, <1>4 DEF TypeOK, Save, Readable
  <2>4. QED
    BY <1>1, <1>2, <2>1, <2>2, <2>3 DEF TypeOK
<1>5. ASSUME NEW t \in Threads, Open(t) \/ Fill(t) PROVE TypeOK'
  <2>1. pc' \in [Threads -> Labels]
    BY <1>1, <1>5 DEF Open, Fill, Written, Goto, Labels
  <2>2. mishaps' \in 0..MaxMishaps
    BY <1>1, <1>5, MishapType DEF Open, Fill
  <2>3. file' \in [Events -> Contents \cup {Empty, Corrupt}]
    <3>1. file \in [Events -> Contents \cup {Empty, Corrupt}] /\ rec[t] \in Contents
      BY DEF TypeOK
    <3>2. \/ file' = file
          \/ \E content \in {Empty, Corrupt, rec[t]} :
               file' = [file EXCEPT ![ev[t]] = content]
      BY <1>5 DEF Open, Fill
    <3>3. QED
      BY <3>1, <3>2
  <2>4. UNCHANGED <<clock, service, mu, ev, rec, job, sent, overlaps, deliveries>>
    BY <1>5 DEF Open, Fill
  <2>5. QED
    BY <2>1, <2>2, <2>3, <2>4 DEF TypeOK, Labels
<1>6. CASE Wake
  BY <1>1, <1>2, <1>6 DEF TypeOK, Wake, Goto, Labels, Threads
<1>7. ASSUME NEW r \in Runners, Begin(r) PROVE TypeOK'
  <2>1. /\ pc' = [pc EXCEPT ![r] = "group"] /\ mu' = r
        /\ UNCHANGED <<file, clock, service, ev, rec, sent, overlaps, budgets>>
    BY <1>7 DEF Begin, Scan, Goto
  <2>2. \E d, c \in SUBSET Events :
          job' = [job EXCEPT ![r] = [NoJob EXCEPT !.discord = d, !.calendar = c]]
    <3> DEFINE due == {e \in Events : Readable(e) /\ DueOrOverdue(e)}
               waiting(c) == {e \in due : file[e][c] = "pending"}
    <3>1. job' = [job EXCEPT ![r] = [NoJob EXCEPT !.discord = waiting("discord"),
                                                 !.calendar = waiting("calendar")]]
      BY <1>7 DEF Begin, Scan
    <3>2. waiting("discord") \in SUBSET Events /\ waiting("calendar") \in SUBSET Events
      OBVIOUS
    <3> HIDE DEF waiting
    <3>3. QED
      BY <3>1, <3>2
  <2>3. job' \in [Runners -> Jobs]
    <3>1. PICK d \in SUBSET Events, c \in SUBSET Events :
            job' = [job EXCEPT ![r] = [NoJob EXCEPT !.discord = d, !.calendar = c]]
      BY <2>2, Zenon
    <3>2. [NoJob EXCEPT !.discord = d, !.calendar = c] \in Jobs
      BY DEF NoJob, Jobs, Channels
    <3>3. QED
      BY <1>1, <3>1, <3>2
  <2>4. QED
    BY <1>1, <1>2, <2>1, <2>3 DEF TypeOK, Labels
<1>8. ASSUME NEW r \in Runners, Group(r) PROVE TypeOK'
  <2>1. /\ pc' = [pc EXCEPT ![r] = "notify"]
        /\ UNCHANGED <<file, clock, service, mu, ev, rec, sent, overlaps, budgets>>
    BY <1>8 DEF Group, Goto
  <2>2. \E g \in SUBSET Events :
          job' = [job EXCEPT ![r] = [job[r] EXCEPT !.group = g, !.channel = "discord"]]
    <3>1. PICK e \in job[r].discord \cup job[r].calendar :
            job' = [job EXCEPT ![r].group = {f \in Events : Slot[f] = Slot[e]},
                               ![r].channel = "discord"]
      BY <1>8 DEF Group
    <3>2. {f \in Events : Slot[f] = Slot[e]} \in SUBSET Events
      OBVIOUS
    <3>3. PICK g \in SUBSET Events :
            job' = [job EXCEPT ![r].group = g, ![r].channel = "discord"]
      BY <3>1, <3>2, Zenon
    <3>4. job' = [job EXCEPT ![r] = [job[r] EXCEPT !.group = g, !.channel = "discord"]]
      BY <1>1, <3>3 DEF Jobs
    <3>5. QED
      BY <3>4
  <2>3. job' \in [Runners -> Jobs]
    <3>1. PICK g \in SUBSET Events :
            job' = [job EXCEPT ![r] = [job[r] EXCEPT !.group = g, !.channel = "discord"]]
      BY <2>2
    <3>2. [job[r] EXCEPT !.group = g, !.channel = "discord"] \in Jobs
      BY <1>1 DEF Jobs, Channels
    <3>3. QED
      BY <1>1, <3>1, <3>2
  <2>4. QED
    BY <1>1, <1>2, <2>1, <2>3 DEF TypeOK, Labels
<1>9. ASSUME NEW r \in Runners, Done(r) PROVE TypeOK'
  <2>1. wake' \in 0..MaxTime + 2
    BY <1>9 DEF TypeOK, Done, NextRun
  <2>2. QED
    BY <1>1, <1>2, <1>9, <2>1 DEF TypeOK, Done, Goto, Labels
<1>10. ASSUME NEW r \in Runners, Skip(r) \/ Marked(r) PROVE TypeOK'
  <2>1. job' \in [Runners -> Jobs] /\ pc' \in [Threads -> Labels]
    BY <1>10, NextChannelType DEF Skip, Marked
  <2>2. QED
    BY <1>1, <1>2, <1>10, <2>1 DEF TypeOK, Skip, Marked
<1>11. ASSUME NEW r \in Runners, Notify(r) PROVE TypeOK'
  <2>1. sent' \in [Channels -> [Events -> Nat]]
    BY <1>11, ReachType DEF Notify
  <2>2. mishaps' \in 0..MaxMishaps
    BY <1>1, <1>11, MishapType DEF Notify
  <2>3. ToNotify(r) \subseteq Events
    BY <1>1 DEF ToNotify, Jobs, Channels
  <2>4. job' = [job EXCEPT ![r] = [job[r] EXCEPT !.marks = ToNotify(r)]]
    BY <1>1, <1>11 DEF Notify
  <2>5. job' \in [Runners -> Jobs]
    BY <1>1, <2>3, <2>4 DEF Jobs
  <2>6. pc' \in [Threads -> Labels]
    BY <1>1, <1>11 DEF Notify, Goto, Labels
  <2>7. UNCHANGED <<file, clock, service, mu, ev, rec, overlaps, deliveries>>
    BY <1>11 DEF Notify
  <2>8. QED
    BY <2>1, <2>2, <2>5, <2>6, <2>7 DEF TypeOK, Jobs, Labels
<1>12. ASSUME NEW r \in Runners, NotifyFails(r) PROVE TypeOK'
  <2>1. sent' \in [Channels -> [Events -> Nat]]
    BY <1>12, ReachType DEF NotifyFails
  <2>2. mishaps' \in 0..MaxMishaps
    BY <1>1, <1>12, MishapType DEF NotifyFails
  <2>3. job' \in [Runners -> Jobs] /\ pc' \in [Threads -> Labels]
    BY <1>12, NextChannelType DEF NotifyFails
  <2>4. UNCHANGED <<file, clock, service, mu, ev, rec, overlaps, deliveries>>
    BY <1>12 DEF NotifyFails
  <2>5. QED
    BY <2>1, <2>2, <2>3, <2>4 DEF TypeOK, Jobs, Labels
<1>13. ASSUME NEW r \in Runners, Mark(r) PROVE TypeOK'
  <2>1. PICK e \in job[r].marks :
          /\ job' = [job EXCEPT ![r].marks = @ \ {e}]
          /\ CountOverlap(e, {"dispatch"})
          /\ IF Readable(e)
               THEN /\ ev' = [ev EXCEPT ![r] = e]
                    /\ rec' = [rec EXCEPT ![r] =
                                 [file[e] EXCEPT ![job[r].channel] = "sent"]]
                    /\ Goto(r, "open")
               ELSE UNCHANGED <<pc, ev, rec>>
    BY <1>13 DEF Mark
  <2>2. e \in Events /\ job[r] \in Jobs
    BY <1>1 DEF Jobs
  <2>3. job' \in [Runners -> Jobs]
    <3>1. job' = [job EXCEPT ![r] = [job[r] EXCEPT !.marks = @ \ {e}]]
      BY <1>1, <2>1, <2>2 DEF Jobs
    <3>2. QED
      BY <1>1, <2>2, <3>1 DEF Jobs
  <2>4. overlaps' \in [Events -> Nat]
    BY <1>1, <2>1, OverlapType
  <2>5. ev' \in [Threads -> Events \cup {NoEvent}] /\ pc' \in [Threads -> Labels]
    BY <1>1, <2>1, <2>2 DEF TypeOK, Goto, Labels
  <2>6. rec' \in [Threads -> Contents]
    <3>1. Readable(e) => [file[e] EXCEPT ![job[r].channel] = "sent"] \in Contents
      BY DEF Readable, Contents
    <3>2. rec \in [Threads -> Contents]
      BY DEF TypeOK
    <3>3. QED
      BY <2>1, <3>1, <3>2
  <2>7. UNCHANGED <<file, clock, service, mu, sent, budgets>>
    BY <1>13 DEF Mark
  <2>8. QED
    BY <1>1, <1>2, <2>3, <2>4, <2>5, <2>6, <2>7 DEF TypeOK
<1>14. CASE Start
  <2>1. /\ wake' \in 0..MaxTime + 2 /\ recipients' \in BOOLEAN /\ up' \in BOOLEAN
    BY <1>14 DEF TypeOK, Start, NextRun
  <2>2. QED
    BY <1>1, <1>14, <2>1 DEF TypeOK, Start, Goto, Labels, Threads
<1>15. CASE Crash
  <2>1. mishaps' \in 0..MaxMishaps /\ up' \in BOOLEAN
    BY <1>1, <1>15, MishapType DEF Crash
  <2>2. /\ pc' \in [Threads -> Labels] /\ rec' \in [Threads -> Contents]
        /\ ev' \in [Threads -> Events \cup {NoEvent}] /\ job' \in [Runners -> Jobs]
    BY <1>1, <1>15 DEF Crash, Labels
  <2>3. mu' = Free /\ UNCHANGED <<file, clock, recipients, sent, overlaps, deliveries>>
    BY <1>15 DEF Crash
  <2>4. QED
    BY <2>1, <2>2, <2>3 DEF TypeOK, Jobs, Labels
<1>16. CASE Tick
  BY <1>16 DEF TypeOK, Tick
<1>17. CASE UNCHANGED vars
  BY <1>17 DEF TypeOK, vars
<1>18. QED
  BY <1>3, <1>4, <1>5, <1>6, <1>7, <1>8, <1>9, <1>10, <1>11, <1>12, <1>13,
     <1>14, <1>15, <1>16, <1>17
  DEF Next, RunOnce

\* Nothing that was sent is unsent.
LEMMA SentGrows ==
  TypeOK /\ [Next]_vars =>
    \A c \in Channels : \A e \in Events :
      /\ sent[c][e] \in Nat /\ sent'[c][e] \in Nat
      /\ sent'[c][e] >= sent[c][e]
<1> SUFFICES ASSUME TypeOK, [Next]_vars
             PROVE  \A c \in Channels : \A e \in Events :
                      /\ sent[c][e] \in Nat /\ sent'[c][e] \in Nat
                      /\ sent'[c][e] >= sent[c][e]
  OBVIOUS
<1>1. sent \in [Channels -> [Events -> Nat]]
  BY DEF TypeOK
<1>2. CASE UNCHANGED sent
  BY <1>1, <1>2
<1>3. ASSUME NEW r \in Runners, Notify(r) \/ NotifyFails(r)
      PROVE  /\ sent' \in [Channels -> [Events -> Nat]]
             /\ \A c \in Channels : \A e \in Events : sent'[c][e] >= sent[c][e]
  BY <1>3, ReachType DEF Notify, NotifyFails
<1>4. UNCHANGED sent \/ \E r \in Runners : Notify(r) \/ NotifyFails(r)
  BY DEF Next, RunOnce, Deliver, Save, Open, Fill, Wake, Begin, Scan, Group, Done,
         Skip, Mark, Marked, Start, Crash, Tick, vars
<1>5. QED
  BY <1>1, <1>2, <1>3, <1>4

\* A marked file names a channel its event has reached.
LEMMA NextResolvedWasSent == IInv /\ [Next]_vars => ResolvedWasSent'
<1> SUFFICES ASSUME IInv, [Next]_vars, NEW e \in Events, NEW c \in Channels,
                    Readable(e)', file'[e][c] = "sent"
             PROVE  sent'[c][e] > 0
  BY DEF ResolvedWasSent
<1>1. TypeOK
  BY DEF IInv
<1>2. sent[c][e] \in Nat /\ sent'[c][e] \in Nat /\ sent'[c][e] >= sent[c][e]
  BY <1>1, SentGrows
<1>3. ASSUME file'[e] = file[e] PROVE sent[c][e] > 0
  BY <1>3 DEF IInv, ResolvedWasSent, Readable
<1>4. ASSUME NEW t \in Threads, Open(t) \/ Fill(t) PROVE sent[c][e] > 0
  <2>1. pc[t] \in {"open", "fill"}
        /\ \/ file' = file
           \/ \E content \in {Empty, Corrupt, rec[t]} :
                file' = [file EXCEPT ![ev[t]] = content]
    BY <1>4 DEF Open, Fill
  <2>2. ev[t] \in Events /\ (rec[t][c] = "sent" => sent[c][ev[t]] > 0)
    BY <2>1 DEF IInv, WritesWhatWasSent
  <2>3. file'[e] = file[e] \/ (e = ev[t] /\ file'[e] \in {Empty, Corrupt, rec[t]})
    BY <1>1, <2>1, <2>2 DEF TypeOK
  <2>4. file'[e] # Empty /\ file'[e] # Corrupt
    BY EventsAssumption DEF Readable
  <2>5. QED
    BY <1>3, <2>2, <2>3, <2>4
<1>5. file' = file \/ \E t \in Threads : Open(t) \/ Fill(t)
  BY DEF Next, RunOnce, Deliver, Save, Wake, Begin, Scan, Group, Done, Skip,
         Notify, NotifyFails, Mark, Marked, Start, Crash, Tick, vars
<1>6. QED
  BY <1>2, <1>3, <1>4, <1>5

\* A record to be written is what the file said, with a channel that has just
\* been reached.
LEMMA NextWritesWhatWasSent == IInv /\ [Next]_vars => WritesWhatWasSent'
<1> SUFFICES ASSUME IInv, [Next]_vars, NEW t \in Threads, pc'[t] \in {"open", "fill"}
             PROVE  /\ ev'[t] \in Events
                    /\ \A c \in Channels : rec'[t][c] = "sent" => sent'[c][ev'[t]] > 0
  BY DEF WritesWhatWasSent
<1> DEFINE Goal == /\ ev'[t] \in Events
                   /\ \A c \in Channels : rec'[t][c] = "sent" => sent[c][ev'[t]] > 0
<1>1. TypeOK
  BY DEF IInv
<1>2. Goal => /\ ev'[t] \in Events
              /\ \A c \in Channels : rec'[t][c] = "sent" => sent'[c][ev'[t]] > 0
  BY <1>1, SentGrows
<1>3. /\ pc \in [Threads -> Labels] /\ ev \in [Threads -> Events \cup {NoEvent}]
      /\ rec \in [Threads -> Contents] /\ Runners \subseteq Threads /\ "dispatch" \in Threads
  BY <1>1 DEF TypeOK, Labels, Threads
<1>4. ASSUME pc[t] \in {"open", "fill"}, ev'[t] = ev[t], rec'[t] = rec[t] PROVE Goal
  BY <1>4 DEF IInv, WritesWhatWasSent
<1> USE DEF clock, service, local, budgets
<1>5. ASSUME NEW e \in Events, Deliver(e) PROVE Goal
  <2>1. pc'[t] = pc[t] /\ ev'[t] = ev[t] /\ rec' = rec
    <3>1. UNCHANGED <<pc, ev>> \/ /\ pc' = [pc EXCEPT !["dispatch"] = "read"]
                                  /\ ev' = [ev EXCEPT !["dispatch"] = e]
      BY <1>5, Zenon DEF Deliver, Goto
    <3>2. QED
      BY <1>3, <1>5, <3>1 DEF Deliver
  <2>2. QED
    BY <1>4, <2>1
<1>6. ASSUME Save PROVE Goal
  <2>1. t # "dispatch" => pc'[t] = pc[t] /\ ev'[t] = ev[t] /\ rec'[t] = rec[t]
    BY <1>3, <1>6 DEF Save, Goto
  <2>2. CASE t = "dispatch"
    <3> DEFINE e == ev["dispatch"]
    <3>1. e \in Events /\ ev' = ev
      BY <1>6 DEF IInv, SavesAnEvent, Save
    <3>2. rec' = [rec EXCEPT !["dispatch"] = IF Readable(e) THEN file[e] ELSE Fresh]
      <4>1. \/ Goto("dispatch", "idle")
            \/ rec' = [rec EXCEPT !["dispatch"] = IF Readable(e) THEN file[e] ELSE Fresh]
        BY <1>6 DEF Save
      <4>2. QED
        BY <1>3, <2>2, <4>1 DEF Goto
    <3>3. rec'[t] = IF Readable(e) THEN file[e] ELSE Fresh
      BY <1>3, <2>2, <3>2
    <3>4. \A c \in Channels : rec'[t][c] = "sent" => sent[c][e] > 0
      BY <3>1, <3>3 DEF IInv, ResolvedWasSent, Fresh
    <3>5. QED
      BY <2>2, <3>1, <3>4
  <2>3. QED
    BY <1>4, <2>1, <2>2
<1>7. ASSUME NEW u \in Threads, Open(u) \/ Fill(u) PROVE Goal
  <2>1. /\ pc[u] \in {"open", "fill"} /\ UNCHANGED <<ev, rec>>
        /\ \A v \in Threads \ {u} : pc'[v] = pc[v]
    BY <1>3, <1>7 DEF Open, Fill, Written, Goto
  <2>2. QED
    BY <1>4, <2>1
<1>8. ASSUME NEW r \in Runners, Mark(r) PROVE Goal
  <2>1. PICK e \in job[r].marks :
          IF Readable(e)
            THEN /\ ev' = [ev EXCEPT ![r] = e]
                 /\ rec' = [rec EXCEPT ![r] =
                              [file[e] EXCEPT ![job[r].channel] = "sent"]]
                 /\ Goto(r, "open")
            ELSE UNCHANGED <<pc, ev, rec>>
    BY <1>8 DEF Mark
  <2>2. pc[r] = "mark"
    BY <1>8 DEF Mark
  <2>3. t # r => pc'[t] = pc[t] /\ ev'[t] = ev[t] /\ rec'[t] = rec[t]
    BY <1>3, <2>1 DEF Goto
  <2>4. CASE t = r
    <3>1. Readable(e)
      BY <2>1, <2>2, <2>4
    <3>2. /\ e \in Events /\ job[r].channel \in Channels
          /\ sent[job[r].channel][e] > 0
      BY <1>1, <2>2 DEF IInv, MarksWhatWasSent, TypeOK
    <3>3. ev'[t] = e /\ rec'[t] = [file[e] EXCEPT ![job[r].channel] = "sent"]
      BY <1>3, <2>1, <2>4, <3>1
    <3>4. \A c \in Channels : rec'[t][c] = "sent"
                                => c = job[r].channel \/ file[e][c] = "sent"
      BY <3>1, <3>3 DEF Readable, Contents
    <3>5. QED
      BY <3>1, <3>2, <3>3, <3>4 DEF IInv, ResolvedWasSent
  <2>5. QED
    BY <1>4, <2>3, <2>4
<1>9. ASSUME \/ Wake
             \/ \E r \in Runners :
                  Begin(r) \/ Group(r) \/ Done(r) \/ Skip(r) \/ Notify(r)
                    \/ NotifyFails(r) \/ Marked(r)
             \/ Start \/ Tick \/ UNCHANGED vars
      PROVE  Goal
  <2>1. UNCHANGED <<ev, rec>>
    BY <1>9 DEF Wake, Begin, Scan, Group, Done, Skip, Notify, NotifyFails, Marked,
                Start, Tick, vars
  <2>2. pc'[t] = pc[t]
    <3>1. ASSUME NEW u \in Threads, NEW l \in Labels \ {"open", "fill"}, Goto(u, l)
          PROVE  pc'[t] = pc[t]
      BY <1>3, <3>1 DEF Goto
    <3>2. CASE Wake \/ Start
      BY <3>1, <3>2 DEF Wake, Start, Labels, Threads, Runners
    <3>3. ASSUME NEW r \in Runners,
                 Begin(r) \/ Group(r) \/ Done(r) \/ Skip(r) \/ Notify(r)
                   \/ NotifyFails(r) \/ Marked(r)
          PROVE  pc'[t] = pc[t]
      <4>1. Goto(r, "group") \/ Goto(r, "notify") \/ Goto(r, "idle") \/ Goto(r, "mark")
        BY <3>3 DEF Begin, Scan, Group, Done, Skip, Notify, NotifyFails, Marked,
                    NextChannel
      <4>2. QED
        BY <1>3, <3>1, <4>1 DEF Labels
    <3>4. CASE Tick \/ UNCHANGED vars
      BY <3>4 DEF Tick, vars
    <3>5. QED
      BY <1>9, <3>2, <3>3, <3>4
  <2>3. QED
    BY <1>4, <2>1, <2>2
<1>10. ASSUME Crash PROVE Goal
  BY <1>10 DEF Crash
<1>11. Goal
  BY <1>5, <1>6, <1>7, <1>8, <1>9, <1>10 DEF Next, RunOnce
<1>12. QED
  BY <1>2, <1>11

\* A runner marks what it has just notified, in the channel it did.
LEMMA NextMarksWhatWasSent == IInv /\ [Next]_vars => MarksWhatWasSent'
<1> SUFFICES ASSUME IInv, [Next]_vars, NEW r \in Runners,
                    pc'[r] \in {"mark", "open", "fill"}, NEW e \in job'[r].marks
             PROVE  sent'[job'[r].channel][e] > 0
  BY DEF MarksWhatWasSent
<1> DEFINE Old == /\ pc[r] \in {"mark", "open", "fill"}
                  /\ e \in job[r].marks /\ job'[r].channel = job[r].channel
<1>1. TypeOK
  BY DEF IInv
<1>2. /\ pc \in [Threads -> Labels] /\ job \in [Runners -> Jobs]
      /\ Runners \subseteq Threads /\ "dispatch" \notin Runners
  BY <1>1 DEF TypeOK, Labels, Jobs, Threads, Runners
<1>3. Old => sent'[job'[r].channel][e] > 0
  <2>1. job[r].channel \in Channels /\ job[r].marks \subseteq Events
    BY <1>2 DEF Jobs
  <2>2. SUFFICES ASSUME Old PROVE sent'[job[r].channel][e] > 0
    OBVIOUS
  <2>3. sent[job[r].channel][e] > 0
    BY <2>2 DEF IInv, MarksWhatWasSent
  <2>4. QED
    BY <1>1, <2>1, <2>2, <2>3, SentGrows
<1> USE DEF clock, service, local, budgets
<1>4. ASSUME NEW t \in Threads, Open(t) \/ Fill(t) PROVE Old
  <2>1. /\ pc[t] \in {"open", "fill"} /\ UNCHANGED job
        /\ \A u \in Threads \ {t} : pc'[u] = pc[u]
    BY <1>2, <1>4 DEF Open, Fill, Written, Goto
  <2>2. QED
    BY <1>2, <2>1
<1>5. ASSUME NEW s \in Runners, Mark(s) PROVE Old
  <2>1. PICK f \in job[s].marks :
          /\ job' = [job EXCEPT ![s].marks = @ \ {f}]
          /\ Goto(s, "open") \/ UNCHANGED pc
    BY <1>5 DEF Mark
  <2>2. pc[s] = "mark"
    BY <1>5 DEF Mark
  <2>3. job' = [job EXCEPT ![s] = [job[s] EXCEPT !.marks = @ \ {f}]]
    BY <1>2, <2>1 DEF Jobs
  <2>4. s # r => job'[r] = job[r] /\ pc'[r] = pc[r]
    BY <1>2, <2>1, <2>3 DEF Goto
  <2>5. s = r => job'[r] = [job[r] EXCEPT !.marks = @ \ {f}]
    BY <1>2, <2>3
  <2>6. s = r => e \in job[r].marks /\ job'[r].channel = job[r].channel
    BY <1>2, <2>5 DEF Jobs
  <2>7. QED
    BY <2>2, <2>4, <2>6
<1>6. ASSUME NEW s \in Runners, Notify(s) PROVE Old \/ sent'[job'[r].channel][e] > 0
  <2>1. /\ job' = [job EXCEPT ![s] = [job[s] EXCEPT !.marks = ToNotify(s)]]
        /\ pc' = [pc EXCEPT ![s] = "mark"]
    BY <1>2, <1>6 DEF Notify, Goto, Jobs
  <2>2. s # r => job'[r] = job[r] /\ pc'[r] = pc[r]
    BY <1>2, <2>1
  <2>3. \A f \in ToNotify(s) : sent'[job[s].channel][f] > 0
    BY <1>1, <1>6, ReachType DEF Notify
  <2>4. s = r => job'[r] = [job[r] EXCEPT !.marks = ToNotify(r)]
    BY <1>2, <2>1
  <2>5. s = r => e \in ToNotify(r) /\ job'[r].channel = job[r].channel
    BY <1>2, <2>4 DEF Jobs
  <2>6. QED
    BY <2>2, <2>3, <2>5
<1>7. ASSUME NEW s \in Runners, Skip(s) \/ NotifyFails(s) \/ Marked(s) PROVE Old
  <2>1. NextChannel(s)
    BY <1>7 DEF Skip, NotifyFails, Marked
  <2>2. /\ pc' = [pc EXCEPT ![s] = "notify"] \/ pc' = [pc EXCEPT ![s] = "group"]
        /\ \A u \in Runners \ {s} : job'[u] = job[u]
    BY <1>1, <2>1, NextChannelType
  <2>3. QED
    BY <1>2, <2>2
<1>8. ASSUME NEW s \in Runners, Begin(s) \/ Group(s) \/ Done(s) PROVE Old
  <2>1. \E l \in {"group", "notify", "idle"} : pc' = [pc EXCEPT ![s] = l]
    BY <1>8 DEF Begin, Scan, Group, Done, Goto
  <2>2. s # r
    BY <1>2, <2>1
  <2>3. job'[r] = job[r]
    <3>1. CASE Begin(s) \/ Done(s)
      BY <1>2, <2>2, <3>1 DEF Begin, Scan, Done
    <3>2. CASE Group(s)
      <4>1. PICK f \in job[s].discord \cup job[s].calendar :
              job' = [job EXCEPT ![s].group = {g \in Events : Slot[g] = Slot[f]},
                                 ![s].channel = "discord"]
        BY <3>2 DEF Group
      <4>2. QED
        BY <1>2, <2>2, <4>1
    <3>3. QED
      BY <1>8, <3>1, <3>2
  <2>4. pc'[r] = pc[r]
    BY <1>2, <2>1, <2>2
  <2>5. QED
    BY <2>3, <2>4
<1>9. ASSUME \/ \E f \in Events : Deliver(f)
             \/ Save \/ Wake \/ Start \/ Tick \/ UNCHANGED vars
      PROVE  Old
  <2>1. UNCHANGED job
    BY <1>9 DEF Deliver, Save, Wake, Start, Tick, vars
  <2>2. CASE \E f \in Events : Deliver(f)
    <3>1. UNCHANGED pc \/ pc' = [pc EXCEPT !["dispatch"] = "read"]
      BY <2>2, Zenon DEF Deliver, Goto
    <3>2. QED
      BY <1>2, <2>1, <3>1
  <2>3. CASE Save
    <3>1. \E l \in {"idle", "open"} : pc' = [pc EXCEPT !["dispatch"] = l]
      BY <2>3 DEF Save, Goto
    <3>2. QED
      BY <1>2, <2>1, <3>1
  <2>4. CASE Wake \/ Start
    BY <1>2, <2>1, <2>4 DEF Wake, Start, Goto, Threads, Runners
  <2>5. CASE Tick \/ UNCHANGED vars
    BY <2>1, <2>5 DEF Tick, vars
  <2>6. QED
    BY <1>9, <2>2, <2>3, <2>4, <2>5
<1>10. ~Crash
  BY <1>2 DEF Crash
<1>11. QED
  BY <1>3, <1>4, <1>5, <1>6, <1>7, <1>8, <1>9, <1>10 DEF Next, RunOnce

\* Save is reached only with the event it was given.
LEMMA NextSavesAnEvent == IInv /\ [Next]_vars => SavesAnEvent'
<1> SUFFICES ASSUME IInv, [Next]_vars, pc'["dispatch"] = "read"
             PROVE  ev'["dispatch"] \in Events
  BY DEF SavesAnEvent
<1>1. /\ pc \in [Threads -> Labels] /\ ev \in [Threads -> Events \cup {NoEvent}]
      /\ "dispatch" \in Threads /\ "dispatch" \notin Runners
  BY DEF IInv, TypeOK, Labels, Threads, Runners
<1>2. ASSUME pc["dispatch"] = "read", ev'["dispatch"] = ev["dispatch"]
      PROVE  ev'["dispatch"] \in Events
  BY <1>2 DEF IInv, SavesAnEvent
<1> USE DEF clock, service, local, budgets
<1>3. ASSUME NEW e \in Events, Deliver(e) PROVE ev'["dispatch"] \in Events
  <2>1. UNCHANGED <<pc, ev>> \/ ev' = [ev EXCEPT !["dispatch"] = e]
    BY <1>3, Zenon DEF Deliver
  <2>2. QED
    BY <1>1, <1>2, <2>1
<1>4. ASSUME Save PROVE FALSE
  BY <1>1, <1>4 DEF Save, Goto
<1>5. ASSUME NEW t \in Threads, Open(t) \/ Fill(t) PROVE ev'["dispatch"] \in Events
  <2>1. UNCHANGED ev /\ (UNCHANGED pc \/ Written(t) \/ Goto(t, "fill"))
    BY <1>5 DEF Open, Fill
  <2>2. QED
    BY <1>1, <1>2, <2>1 DEF Written, Goto
<1>6. ASSUME NEW r \in Runners, RunOnce(r) PROVE ev'["dispatch"] \in Events
  <2>1. r # "dispatch"
    BY <1>1
  <2>2. \E l \in Labels : pc' = pc \/ pc' = [pc EXCEPT ![r] = l]
    BY <1>6 DEF RunOnce, Begin, Scan, Group, Done, Skip, Notify, NotifyFails, Marked,
                Mark, NextChannel, Goto, Labels
  <2>3. ev' = ev \/ \E f : ev' = [ev EXCEPT ![r] = f]
    BY <1>6 DEF RunOnce, Begin, Scan, Group, Done, Skip, Notify, NotifyFails, Marked, Mark
  <2>4. QED
    BY <1>1, <1>2, <2>1, <2>2, <2>3
<1>7. ASSUME Wake \/ Start \/ Tick \/ UNCHANGED vars PROVE ev'["dispatch"] \in Events
  BY <1>1, <1>2, <1>7 DEF Wake, Start, Tick, vars, Goto
<1>8. ~Crash
  BY <1>1 DEF Crash
<1>9. QED
  BY <1>3, <1>4, <1>5, <1>6, <1>7, <1>8 DEF Next

\* The mutex is free only when no run is in progress.
LEMMA NextOneRuns == TypeOK /\ OneRuns /\ [Next]_vars => OneRuns'
<1> SUFFICES ASSUME TypeOK, OneRuns, [Next]_vars PROVE OneRuns'
  OBVIOUS
<1>1. /\ pc \in [Threads -> Labels] /\ Runners \subseteq Threads
      /\ "dispatch" \in Threads /\ "dispatch" \notin Runners /\ Free \notin Runners
  BY EventsAssumption DEF TypeOK, Labels, Threads, Runners
<1>2. ASSUME UNCHANGED mu, \A r \in Runners : pc'[r] \in Running => pc[r] \in Running
      PROVE  OneRuns'
  BY <1>2 DEF OneRuns
<1> USE DEF clock, service, local, budgets
<1>3. ASSUME NEW t \in Threads, Open(t) \/ Fill(t) PROVE OneRuns'
  <2>1. /\ pc[t] \in {"open", "fill"} /\ UNCHANGED mu
        /\ \A u \in Threads \ {t} : pc'[u] = pc[u]
    BY <1>1, <1>3 DEF Open, Fill, Written, Goto
  <2>2. QED
    BY <1>1, <1>2, <2>1 DEF Running
<1>4. ASSUME NEW r \in Runners,
             Group(r) \/ Skip(r) \/ Notify(r) \/ NotifyFails(r) \/ Mark(r) \/ Marked(r)
      PROVE  OneRuns'
  <2>1. pc[r] \in Running /\ UNCHANGED mu /\ pc' = [pc EXCEPT ![r] = pc'[r]]
    BY <1>1, <1>4 DEF Group, Skip, Notify, NotifyFails, Mark, Marked, NextChannel, Goto,
                      Running
  <2>2. QED
    BY <1>1, <1>2, <2>1
<1>5. ASSUME NEW r \in Runners, Begin(r) PROVE OneRuns'
  BY <1>1, <1>5 DEF OneRuns, Begin, Scan, Goto
<1>6. ASSUME NEW r \in Runners, Done(r) PROVE OneRuns'
  <2>1. mu = r /\ pc' = [pc EXCEPT ![r] = "idle"]
    BY <1>1, <1>6 DEF OneRuns, Done, Goto, Running
  <2>2. QED
    BY <1>1, <2>1 DEF OneRuns, Running
<1>7. CASE Wake \/ Start \/ Save \/ \E e \in Events : Deliver(e)
  <2>1. /\ UNCHANGED mu
        /\ \E t \in Threads : \E l \in Labels \ Running :
             pc' = pc \/ pc' = [pc EXCEPT ![t] = l] \/ pc' = [pc EXCEPT !["dispatch"] = "open"]
    BY <1>7 DEF Wake, Start, Save, Deliver, Goto, Labels, Running, Threads, Runners
  <2>2. QED
    BY <1>1, <1>2, <2>1
<1>8. CASE Crash
  BY <1>1, <1>8 DEF Crash, OneRuns, Running
<1>9. CASE Tick \/ UNCHANGED vars
  BY <1>2, <1>9 DEF Tick, vars
<1>10. QED
  BY <1>3, <1>4, <1>5, <1>6, <1>7, <1>8, <1>9 DEF Next, RunOnce

LEMMA NextDownIsIdle == TypeOK /\ DownIsIdle /\ [Next]_vars => DownIsIdle'
<1> SUFFICES ASSUME TypeOK, DownIsIdle, [Next]_vars, ~up', NEW u \in Threads
             PROVE  pc'[u] = "idle"
  BY DEF DownIsIdle
<1>1. pc \in [Threads -> Labels] /\ Runners \subseteq Threads /\ "dispatch" \in Threads
  BY DEF TypeOK, Labels, Threads
<1>2. CASE UNCHANGED <<up, pc>>
  BY <1>2 DEF DownIsIdle
<1> USE DEF clock, service, local, budgets
<1>3. ASSUME NEW t \in Threads, pc[t] # "idle", UNCHANGED up PROVE FALSE
  BY <1>3 DEF DownIsIdle
<1>4. ASSUME NEW t \in Threads, Open(t) \/ Fill(t) PROVE FALSE
  BY <1>3, <1>4 DEF Open, Fill
<1>5. ASSUME NEW r \in Runners, RunOnce(r) PROVE FALSE
  BY <1>1, <1>3, <1>5
  DEF RunOnce, Begin, Scan, Group, Done, Skip, Notify, NotifyFails, Mark, Marked
<1>6. ~Save
  BY <1>1, <1>3 DEF Save
<1>7. ~Wake /\ ~Start /\ ~\E e \in Events : Deliver(e)
  BY DEF Wake, Start, Deliver
<1>8. CASE Crash
  BY <1>8 DEF Crash
<1>9. CASE Tick \/ UNCHANGED vars
  BY <1>2, <1>9 DEF Tick, vars
<1>10. QED
  BY <1>4, <1>5, <1>6, <1>7, <1>8, <1>9 DEF Next

\* A step that begins no write and ends none: at most it gives one up.
Quiet ==
  /\ UNCHANGED file
  /\ \A t \in Threads : pc'[t] \in {"open", "fill"} =>
       pc'[t] = pc[t] /\ ev'[t] = ev[t] /\ rec'[t] = rec[t]

\* The steps of a write: its read, by Save or by a mark, and its two parts.
SaveReads(e) ==
  /\ pc["dispatch"] = "read" /\ e \in Events /\ e = ev["dispatch"]
  /\ pc' = [pc EXCEPT !["dispatch"] = "open"]
  /\ rec' = [rec EXCEPT !["dispatch"] = IF Readable(e) THEN file[e] ELSE Fresh]
  /\ UNCHANGED <<file, mu, ev, job, sent, budgets>>
  /\ CountOverlap(e, Runners)
MarkReads(r, e) ==
  /\ pc[r] = "mark" /\ e \in job[r].marks /\ e \in Events /\ Readable(e)
  /\ job' = [job EXCEPT ![r] = [job[r] EXCEPT !.marks = @ \ {e}]]
  /\ ev' = [ev EXCEPT ![r] = e]
  /\ rec' = [rec EXCEPT ![r] = [file[e] EXCEPT ![job[r].channel] = "sent"]]
  /\ pc' = [pc EXCEPT ![r] = "open"]
  /\ UNCHANGED <<file, mu, sent, budgets>>
  /\ CountOverlap(e, {"dispatch"})
Truncates(t) ==
  /\ pc[t] = "open" /\ ev[t] \in Events
  /\ file' = [file EXCEPT ![ev[t]] = Empty]
  /\ pc' = [pc EXCEPT ![t] = "fill"]
  /\ UNCHANGED <<mu, ev, rec, job, sent, overlaps, budgets>>
Fills(t) ==
  /\ pc[t] = "fill" /\ ev[t] \in Events
  /\ \/ file' = [file EXCEPT ![ev[t]] = rec[t]]
     \/ file[ev[t]] # Empty /\ file' = [file EXCEPT ![ev[t]] = Corrupt]
  /\ pc' = [pc EXCEPT ![t] = IF t = "dispatch" THEN "idle" ELSE "mark"]
  /\ UNCHANGED <<mu, ev, rec, job, sent, overlaps, budgets>>

\* An event resolved in full is not saved; one that cannot be read, not marked.
SavesNothing(e) ==
  /\ pc["dispatch"] = "read" /\ e \in Events
  /\ pc' = [pc EXCEPT !["dispatch"] = "idle"]
  /\ UNCHANGED <<file, mu, ev, rec, job, sent, budgets>>
  /\ CountOverlap(e, Runners)
PassesOver(r, e) ==
  /\ pc[r] = "mark" /\ e \in job[r].marks /\ e \in Events /\ ~Readable(e)
  /\ job' = [job EXCEPT ![r] = [job[r] EXCEPT !.marks = @ \ {e}]]
  /\ UNCHANGED <<file, mu, pc, ev, rec, sent, budgets>>
  /\ CountOverlap(e, {"dispatch"})

\* A write that fails is over, and is paid for.
GivesUp(t) ==
  /\ pc[t] \in {"open", "fill"}
  /\ pc' = [pc EXCEPT ![t] = IF t = "dispatch" THEN "idle" ELSE "mark"]
  /\ mishaps' = mishaps + 1
  /\ UNCHANGED <<file, mu, ev, rec, job, sent, overlaps>>

LEMMA WriteSteps ==
  ASSUME IInv, NEW t \in Threads, Open(t) \/ Fill(t)
  PROVE  Truncates(t) \/ Fills(t) \/ GivesUp(t)
<1>1. ev[t] \in Events
  BY DEF IInv, WritesWhatWasSent, Open, Fill
<1>2. CASE Open(t)
  BY <1>1, <1>2 DEF Open, Truncates, GivesUp, Written, Goto, Mishap, NoMishap, budgets
<1>3. CASE Fill(t)
  <2>1. /\ pc[t] = "fill" /\ UNCHANGED <<mu, ev, rec, job, sent, overlaps, deliveries>>
        /\ pc' = [pc EXCEPT ![t] = IF t = "dispatch" THEN "idle" ELSE "mark"]
    BY <1>3, Zenon DEF Fill, Written, Goto
  <2>2. \/ UNCHANGED file /\ mishaps' = mishaps + 1
        \/ /\ UNCHANGED mishaps
           /\ \/ file' = [file EXCEPT ![ev[t]] = rec[t]]
              \/ file[ev[t]] # Empty /\ file' = [file EXCEPT ![ev[t]] = Corrupt]
    BY <1>3 DEF Fill, Mishap, NoMishap
  <2>3. QED
    BY <1>1, <2>1, <2>2 DEF Fills, GivesUp, budgets
<1>4. QED
  BY <1>2, <1>3

LEMMA SaveSteps ==
  ASSUME IInv, Save
  PROVE  \E e \in Events : SaveReads(e) \/ SavesNothing(e)
<1>1. ev["dispatch"] \in Events
  BY DEF IInv, SavesAnEvent, Save
<1>2. CASE Goto("dispatch", "idle") /\ UNCHANGED rec
  <2>1. SavesNothing(ev["dispatch"])
    BY <1>1, <1>2, Zenon DEF Save, Goto, SavesNothing
  <2>2. QED
    BY <1>1, <2>1
<1>3. ASSUME Goto("dispatch", "open"),
             rec' = [rec EXCEPT !["dispatch"] =
                       IF Readable(ev["dispatch"]) THEN file[ev["dispatch"]] ELSE Fresh]
      PROVE  SaveReads(ev["dispatch"])
  BY <1>1, <1>3, Zenon DEF Save, Goto, SaveReads
<1>4. QED
  BY <1>1, <1>2, <1>3 DEF Save

LEMMA MarkSteps ==
  ASSUME IInv, NEW r \in Runners, Mark(r)
  PROVE  \E e \in Events : MarkReads(r, e) \/ PassesOver(r, e)
<1>1. PICK e \in job[r].marks :
        /\ job' = [job EXCEPT ![r].marks = @ \ {e}]
        /\ CountOverlap(e, {"dispatch"})
        /\ IF Readable(e)
             THEN /\ ev' = [ev EXCEPT ![r] = e]
                  /\ rec' = [rec EXCEPT ![r] =
                               [file[e] EXCEPT ![job[r].channel] = "sent"]]
                  /\ Goto(r, "open")
             ELSE UNCHANGED <<pc, ev, rec>>
  BY DEF Mark
<1>2. pc[r] = "mark" /\ UNCHANGED <<file, mu, sent, budgets>>
  BY DEF Mark
<1>3. e \in Events /\ job \in [Runners -> Jobs]
  BY <1>1 DEF IInv, TypeOK, Jobs
<1>4. job' = [job EXCEPT ![r] = [job[r] EXCEPT !.marks = @ \ {e}]]
  BY <1>1, <1>3 DEF Jobs
<1>5. CASE Readable(e)
  <2>1. MarkReads(r, e)
    BY <1>1, <1>2, <1>3, <1>4, <1>5, Zenon DEF MarkReads, Goto
  <2>2. QED
    BY <1>3, <2>1
<1>6. CASE ~Readable(e)
  <2>1. PassesOver(r, e)
    BY <1>1, <1>2, <1>3, <1>4, <1>6 DEF PassesOver
  <2>2. QED
    BY <1>3, <2>1
<1>7. QED
  BY <1>5, <1>6

LEMMA StepShapes ==
  ASSUME IInv, [Next]_vars
  PROVE  \/ Quiet
         \/ \E e \in Events : SaveReads(e) \/ \E r \in Runners : MarkReads(r, e)
         \/ \E t \in Threads : Truncates(t) \/ Fills(t)
<1>1. /\ pc \in [Threads -> Labels] /\ Runners \subseteq Threads
      /\ "dispatch" \in Threads /\ "dispatch" \notin Runners
      /\ ev \in [Threads -> Events \cup {NoEvent}]
  BY DEF IInv, TypeOK, Labels, Threads, Runners
<1> USE DEF clock, service, local, budgets
<1>2. ASSUME NEW t \in Threads, Open(t) \/ Fill(t)
      PROVE  Quiet \/ Truncates(t) \/ Fills(t)
  <2>1. GivesUp(t) => Quiet
    BY <1>1 DEF GivesUp, Quiet
  <2>2. QED
    BY <1>2, <2>1, WriteSteps
<1>3. ASSUME Save PROVE Quiet \/ \E e \in Events : SaveReads(e)
  <2>1. ASSUME NEW e \in Events, SavesNothing(e) PROVE Quiet
    BY <1>1, <2>1 DEF SavesNothing, Quiet
  <2>2. QED
    BY <1>3, <2>1, SaveSteps
<1>4. ASSUME NEW r \in Runners, Mark(r)
      PROVE  Quiet \/ \E e \in Events : MarkReads(r, e)
  <2>1. ASSUME NEW e \in Events, PassesOver(r, e) PROVE Quiet
    BY <2>1 DEF PassesOver, Quiet
  <2>2. QED
    BY <1>4, <2>1, MarkSteps
<1>5. ASSUME NEW t \in Threads, NEW l \in Labels \ {"open", "fill"}, Goto(t, l),
             UNCHANGED <<file, rec>>,
             UNCHANGED ev \/ (t = "dispatch" /\ \E e : ev' = [ev EXCEPT ![t] = e])
      PROVE  Quiet
  BY <1>1, <1>5 DEF Quiet, Goto
<1>6. ASSUME NEW r \in Runners,
             Begin(r) \/ Group(r) \/ Done(r) \/ Skip(r) \/ Notify(r) \/ NotifyFails(r)
               \/ Marked(r)
      PROVE  Quiet
  <2>1. /\ Goto(r, "group") \/ Goto(r, "notify") \/ Goto(r, "idle") \/ Goto(r, "mark")
        /\ UNCHANGED <<file, ev, rec>>
    BY <1>6 DEF Begin, Scan, Group, Done, Skip, Notify, NotifyFails, Marked, NextChannel
  <2>2. QED
    BY <1>1, <1>5, <2>1 DEF Labels
<1>7. ASSUME NEW e \in Events, Deliver(e) PROVE Quiet
  <2>1. /\ UNCHANGED <<file, rec>>
        /\ \/ UNCHANGED <<pc, ev>>
           \/ Goto("dispatch", "read") /\ ev' = [ev EXCEPT !["dispatch"] = e]
    BY <1>7, Zenon DEF Deliver
  <2>2. QED
    BY <1>1, <1>5, <2>1 DEF Labels, Quiet
<1>8. ASSUME Wake \/ Start PROVE Quiet
  BY <1>1, <1>5, <1>8 DEF Wake, Start, Labels, Threads, Runners
<1>9. ASSUME Crash \/ Tick \/ UNCHANGED vars PROVE Quiet
  BY <1>9 DEF Crash, Tick, vars, Quiet
<1>10. QED
  BY <1>2, <1>3, <1>4, <1>6, <1>7, <1>8, <1>9 DEF Next, RunOnce

\* Neither Save nor a mark writes back less than there was when it read.
LEMMA NextNothingForgotten == IInv /\ [Next]_vars => NothingForgotten'
<1> SUFFICES ASSUME IInv, [Next]_vars, NEW e \in Events, NEW c \in Channels
             PROVE  /\ Saving(e)' /\ rec'["dispatch"][c] = "sent" /\ Readable(e)' =>
                         file'[e][c] = "sent"
                    /\ \A r \in Runners : Rewriting(r, e)' =>
                         /\ Readable(e)' /\ file'[e][c] = "sent" => rec'[r][c] = "sent"
                         /\ Saving(e)' /\ rec'["dispatch"][c] = "sent" => rec'[r][c] = "sent"
  BY DEF NothingForgotten
<1> DEFINE Goal == /\ Saving(e)' /\ rec'["dispatch"][c] = "sent" /\ Readable(e)' =>
                         file'[e][c] = "sent"
                   /\ \A r \in Runners : Rewriting(r, e)' =>
                        /\ Readable(e)' /\ file'[e][c] = "sent" => rec'[r][c] = "sent"
                        /\ Saving(e)' /\ rec'["dispatch"][c] = "sent" => rec'[r][c] = "sent"
<1>1. /\ pc \in [Threads -> Labels] /\ Runners \subseteq Threads
      /\ "dispatch" \in Threads /\ "dispatch" \notin Runners
      /\ ev \in [Threads -> Events \cup {NoEvent}] /\ rec \in [Threads -> Contents]
      /\ file \in [Events -> Contents \cup {Empty, Corrupt}]
      /\ Empty \notin Contents /\ Corrupt \notin Contents
  BY EventsAssumption DEF IInv, TypeOK, Labels, Threads, Runners
<1>2. /\ Saving(e) /\ rec["dispatch"][c] = "sent" /\ Readable(e) => file[e][c] = "sent"
      /\ \A r \in Runners : Rewriting(r, e) =>
           /\ Readable(e) /\ file[e][c] = "sent" => rec[r][c] = "sent"
           /\ Saving(e) /\ rec["dispatch"][c] = "sent" => rec[r][c] = "sent"
  BY DEF IInv, NothingForgotten
<1>3. ASSUME Quiet PROVE Goal
  <2>1. /\ file' = file
        /\ \A t \in Threads : Rewriting(t, e)' => Rewriting(t, e) /\ rec'[t] = rec[t]
    BY <1>3 DEF Quiet, Rewriting
  <2>2. QED
    BY <1>1, <1>2, <2>1 DEF Saving, Readable
<1>4. ASSUME NEW f \in Events, SaveReads(f) PROVE Goal
  <2>1. /\ UNCHANGED file /\ \A r \in Runners : rec'[r] = rec[r]
        /\ \A r \in Runners : Rewriting(r, e)' <=> Rewriting(r, e)
        /\ Saving(e)' <=> e = f
        /\ rec'["dispatch"] = IF Readable(f) THEN file[f] ELSE Fresh
    BY <1>1, <1>4 DEF SaveReads, Rewriting, Saving
  <2>2. Fresh[c] # "sent"
    BY DEF Fresh
  <2>3. CASE e = f
    BY <1>1, <1>2, <2>1, <2>2, <2>3 DEF Readable
  <2>4. CASE e # f
    BY <1>1, <1>2, <2>1, <2>4 DEF Readable
  <2>5. QED
    BY <2>3, <2>4
<1>5. ASSUME NEW f \in Events, NEW s \in Runners, MarkReads(s, f) PROVE Goal
  <2>1. /\ UNCHANGED file /\ \A t \in Threads \ {s} : rec'[t] = rec[t]
        /\ \A t \in Threads \ {s} : Rewriting(t, e)' <=> Rewriting(t, e)
        /\ Rewriting(s, e)' <=> e = f
        /\ rec'[s] = [file[f] EXCEPT ![job[s].channel] = "sent"]
    BY <1>1, <1>5 DEF MarkReads, Rewriting
  <2>2. Readable(f)
    BY <1>5 DEF MarkReads
  <2>3. file[f][c] = "sent" => rec'[s][c] = "sent"
    BY <2>1, <2>2 DEF Readable, Contents
  <2>4. /\ Saving(e)' <=> Saving(e)
        /\ rec'["dispatch"] = rec["dispatch"] /\ (Readable(e)' <=> Readable(e))
    BY <1>1, <2>1 DEF Saving, Readable
  <2>5. \A r \in Runners \ {s} :
          rec'[r] = rec[r] /\ (Rewriting(r, e)' <=> Rewriting(r, e))
    BY <1>1, <2>1
  <2>6. QED
    BY <1>2, <2>1, <2>2, <2>3, <2>4, <2>5
<1>6. ASSUME NEW t \in Threads, Truncates(t) PROVE Goal
  <2>1. /\ UNCHANGED rec
        /\ \A u \in Threads : Rewriting(u, e)' <=> Rewriting(u, e)
        /\ file'[e] = IF e = ev[t] THEN Empty ELSE file[e]
    BY <1>1, <1>6 DEF Truncates, Rewriting
  <2>2. Readable(e)' => file'[e] = file[e] /\ Readable(e)
    BY <1>1, <2>1 DEF Readable
  <2>3. QED
    BY <1>1, <1>2, <2>1, <2>2 DEF Saving
<1>7. ASSUME NEW t \in Threads, Fills(t) PROVE Goal
  <2>1. /\ UNCHANGED rec /\ ~Rewriting(t, e)'
        /\ \A u \in Threads \ {t} : Rewriting(u, e)' <=> Rewriting(u, e)
        /\ e # ev[t] => file'[e] = file[e]
        /\ e = ev[t] => file'[e] \in {rec[t], Corrupt}
    BY <1>1, <1>7 DEF Fills, Rewriting
  <2>2. CASE e # ev[t]
    BY <1>1, <1>2, <2>1, <2>2 DEF Saving, Readable
  <2>3. CASE e = ev[t]
    <3>1. Rewriting(t, e) /\ (Readable(e)' => file'[e] = rec[t])
      BY <1>1, <1>7, <2>1, <2>3 DEF Fills, Rewriting, Readable
    <3>2. CASE t = "dispatch"
      BY <1>1, <1>2, <2>1, <3>1, <3>2 DEF Saving
    <3>3. CASE t \in Runners
      <4>1. \A r \in Runners : ~Rewriting(r, e)'
        <5>1. mu = t /\ \A r \in Runners : Rewriting(r, e) => mu = r
          BY <1>7, <3>1, <3>3 DEF IInv, OneRuns, Running, Rewriting
        <5>2. QED
          BY <1>1, <2>1, <5>1
      <4>2. QED
        BY <1>1, <1>2, <2>1, <3>1, <3>3, <4>1 DEF Saving
    <3>4. QED
      BY <3>2, <3>3 DEF Threads
  <2>4. QED
    BY <2>2, <2>3
<1>8. QED
  BY <1>3, <1>4, <1>5, <1>6, <1>7, StepShapes

LEMMA NextBothFilling == IInv /\ [Next]_vars => BothFilling'
<1> SUFFICES ASSUME IInv, [Next]_vars, NEW e \in Events, NEW r \in Runners,
                    Saving(e)', Rewriting(r, e)', pc'["dispatch"] = "fill", pc'[r] = "fill"
             PROVE  file'[e] = Empty
  BY DEF BothFilling
<1>1. /\ pc \in [Threads -> Labels] /\ Runners \subseteq Threads
      /\ "dispatch" \in Threads /\ "dispatch" \notin Runners
      /\ ev \in [Threads -> Events \cup {NoEvent}]
      /\ file \in [Events -> Contents \cup {Empty, Corrupt}]
  BY DEF IInv, TypeOK, Labels, Threads, Runners
<1>2. ASSUME UNCHANGED <<file>>, \A t \in {"dispatch", r} :
               pc'[t] = pc[t] /\ ev'[t] = ev[t]
      PROVE  file'[e] = Empty
  BY <1>1, <1>2 DEF IInv, BothFilling, Saving, Rewriting
<1>3. CASE Quiet
  BY <1>1, <1>2, <1>3 DEF Quiet
<1>4. ASSUME NEW f \in Events, SaveReads(f) \/ \E s \in Runners : MarkReads(s, f)
      PROVE  file'[e] = Empty
  <2>1. CASE SaveReads(f)
    BY <1>1, <2>1 DEF SaveReads
  <2>2. ASSUME NEW s \in Runners, MarkReads(s, f) PROVE file'[e] = Empty
    <3>1. s # r /\ UNCHANGED file
      BY <1>1, <2>2 DEF MarkReads
    <3>2. QED
      BY <1>1, <1>2, <2>2, <3>1 DEF MarkReads
  <2>3. QED
    BY <1>4, <2>1, <2>2
<1>5. ASSUME NEW t \in Threads, Truncates(t) PROVE file'[e] = Empty
  <2>1. CASE e = ev[t]
    BY <1>1, <1>5, <2>1 DEF Truncates
  <2>2. CASE e # ev[t]
    <3>1. t # "dispatch" /\ t # r
      BY <1>1, <1>5, <2>2 DEF Truncates, Saving, Rewriting
    <3>2. file'[e] = file[e] /\ UNCHANGED ev
          /\ \A u \in {"dispatch", r} : pc'[u] = pc[u]
      BY <1>1, <1>5, <2>2, <3>1 DEF Truncates
    <3>3. QED
      BY <1>1, <3>2 DEF IInv, BothFilling, Saving, Rewriting
  <2>3. QED
    BY <2>1, <2>2
<1>6. ASSUME NEW t \in Threads, Fills(t) PROVE file'[e] = Empty
  <2>1. t # "dispatch" /\ t # r
    BY <1>1, <1>6 DEF Fills
  <2>2. t \in Runners /\ mu = t /\ pc[r] = "fill"
    BY <1>1, <1>6, <2>1 DEF Fills, Threads, IInv, OneRuns, Running
  <2>3. mu = r
    BY <2>2 DEF IInv, OneRuns, Running
  <2>4. QED
    BY <2>1, <2>2, <2>3
<1>7. QED
  BY <1>3, <1>4, <1>5, <1>6, StepShapes

\* What depends on the writes of e's file alone.
LEMMA SameWrites ==
  ASSUME NEW e \in Events, NEW c \in Channels, file'[e] = file[e],
         \A t \in Threads : Rewriting(t, e) \/ Rewriting(t, e)' =>
           pc'[t] = pc[t] /\ ev'[t] = ev[t] /\ rec'[t] = rec[t]
  PROVE  /\ Clash(e)' <=> Clash(e)
         /\ WillParse(e)' <=> WillParse(e)
         /\ WillBeSent(c, e)' <=> WillBeSent(c, e)
<1>1. Runners \subseteq Threads /\ "dispatch" \in Threads
  BY DEF Threads
<1>2. \A t \in Threads :
        /\ Rewriting(t, e)' <=> Rewriting(t, e)
        /\ Rewriting(t, e) => rec'[t] = rec[t]
        /\ Torn(t, e)' <=> Torn(t, e)
  BY DEF Rewriting, Torn
<1>3. /\ Saving(e)' <=> Saving(e)
      /\ Marks(e)' <=> Marks(e)
      /\ Saved(e)' <=> Saved(e)
      /\ Readable(e)' <=> Readable(e)
  BY <1>1, <1>2 DEF Saving, Marks, Saved, Readable
<1>4. Saved(e) => Rewriting("dispatch", e)
  BY DEF Saved, Saving
<1>5. QED
  BY <1>1, <1>2, <1>3, <1>4 DEF Clash, WillParse, WillBeSent

\* What depends on the runs alone.
LEMMA SameRuns ==
  ASSUME NEW e \in Events, NEW c \in Channels,
         \A r \in Runners :
           \/ {pc[r], pc'[r]} \cap Running = {}
           \/ /\ job'[r] = job[r]
              /\ pc'[r] = pc[r] \/ {pc[r], pc'[r]} \subseteq {"mark", "open", "fill"}
  PROVE  (Todo(c, e)' <=> Todo(c, e)) /\ (Coming(c, e)' <=> Coming(c, e))
<1>1. \A r \in Runners :
        /\ ToCome(r, c, e)' <=> ToCome(r, c, e)
        /\ ToMark(r, c, e)' <=> ToMark(r, c, e)
  BY DEF ToCome, ToMark, Running
<1>2. QED
  BY <1>1 DEF Todo, Coming

\* While r runs, nothing is to come from the other run.
LEMMA RunOf ==
  ASSUME OneRuns, OneRuns', NEW r \in Runners, pc[r] \in Running, pc'[r] \in Running,
         NEW e \in Events, NEW c \in Channels
  PROVE  /\ Todo(c, e) <=> ToCome(r, c, e)
         /\ Todo(c, e)' <=> ToCome(r, c, e)'
         /\ Coming(c, e) <=> ToCome(r, c, e) \/ ToMark(r, c, e)
         /\ Coming(c, e)' <=> ToCome(r, c, e)' \/ ToMark(r, c, e)'
         /\ Marks(e) <=> Rewriting(r, e)
         /\ Marks(e)' <=> Rewriting(r, e)'
<1>1. \A s \in Runners \ {r} : pc[s] \notin Running /\ pc'[s] \notin Running
  BY DEF OneRuns
<1>2. \A s \in Runners \ {r} :
        /\ ~ToCome(s, c, e) /\ ~ToCome(s, c, e)'
        /\ ~ToMark(s, c, e) /\ ~ToMark(s, c, e)'
        /\ ~Rewriting(s, e) /\ ~Rewriting(s, e)'
  BY <1>1 DEF ToCome, ToMark, Rewriting, Running
<1>3. QED
  BY <1>2 DEF Todo, Coming, Marks

\* A run goes on to the invite of its group, or leaves the group behind.
LEMMA NextChannelJob ==
  ASSUME TypeOK, NEW r \in Runners, NextChannel(r), pc[r] \in {"notify", "mark"},
         NEW e \in Events, NEW c \in Channels
  PROVE  /\ ToCome(r, c, e)' => ToCome(r, c, e)
         /\ ~ToMark(r, c, e)'
         /\ ToCome(r, c, e) /\ ~ToCome(r, c, e)' => c = job[r].channel /\ e \in ToNotify(r)
         /\ c = job[r].channel => ~(e \in ToNotify(r) /\ ToCome(r, c, e)')
<1>1. /\ pc \in [Threads -> Labels] /\ job \in [Runners -> Jobs] /\ job[r] \in Jobs
      /\ r \in Threads /\ c \in {"discord", "calendar"}
  BY DEF TypeOK, Labels, Jobs, Threads, Channels
<1>2. CASE job[r].channel = "discord"
  <2>1. /\ job' = [job EXCEPT ![r] = [job[r] EXCEPT !.channel = "calendar", !.marks = {}]]
        /\ pc' = [pc EXCEPT ![r] = "notify"]
    BY <1>1, <1>2 DEF NextChannel, Goto, Jobs
  <2>2. /\ job'[r].discord = job[r].discord /\ job'[r].calendar = job[r].calendar
        /\ job'[r].group = job[r].group /\ job'[r].channel = "calendar"
        /\ pc'[r] = "notify"
    BY <1>1, <2>1 DEF Jobs
  <2>3. CASE c = "discord"
    BY <1>1, <1>2, <2>2, <2>3 DEF ToCome, ToMark, ToNotify, Running
  <2>4. CASE c = "calendar"
    BY <1>1, <1>2, <2>2, <2>4 DEF ToCome, ToMark, ToNotify, Running
  <2>5. QED
    BY <1>1, <2>3, <2>4
<1>3. CASE job[r].channel # "discord"
  <2>1. /\ job' = [job EXCEPT ![r] = [job[r] EXCEPT !.discord = @ \ job[r].group,
                                                    !.calendar = @ \ job[r].group,
                                                    !.marks = {}]]
        /\ pc' = [pc EXCEPT ![r] = "group"]
    BY <1>1, <1>3 DEF NextChannel, Goto, Jobs
  <2>2. /\ job'[r].discord = job[r].discord \ job[r].group
        /\ job'[r].calendar = job[r].calendar \ job[r].group
        /\ pc'[r] = "group" /\ job[r].channel = "calendar"
    BY <1>1, <1>3, <2>1 DEF Jobs, Channels
  <2>3. CASE c = "discord"
    BY <1>1, <2>2, <2>3 DEF ToCome, ToMark, ToNotify, Running
  <2>4. CASE c = "calendar"
    BY <1>1, <2>2, <2>4 DEF ToCome, ToMark, ToNotify, Running
  <2>5. QED
    BY <1>1, <2>3, <2>4
<1>4. QED
  BY <1>2, <1>3

\* A step that leaves the writes alone and takes from what is to come.
LEMMA NoMoreToCome ==
  ASSUME NEW e \in Events, NEW c \in Channels,
         Clash(e)' <=> Clash(e), WillParse(e)' <=> WillParse(e),
         WillBeSent(c, e)' <=> WillBeSent(c, e),
         Todo(c, e)' => Todo(c, e), Coming(c, e) /\ ~Coming(c, e)' => Todo(c, e) /\ ~Todo(c, e)'
  PROVE  Count(Todo(c, e)') + Count(Clash(e)') + Count(Reopens(c, e)')
           <= Count(Todo(c, e)) + Count(Clash(e)) + Count(Reopens(c, e))
  BY DEF Count, Reopens

LEMMA OverlapCounts ==
  ASSUME overlaps \in [Events -> Nat], NEW f \in Events, NEW others, CountOverlap(f, others),
         NEW e \in Events
  PROVE  /\ overlaps'[e] >= overlaps[e]
         /\ e = f /\ (\E t \in others : Rewriting(t, e)) => overlaps'[e] = overlaps[e] + 1
<1>1. CASE \E t \in others : Rewriting(t, f)
  <2>1. overlaps' = [overlaps EXCEPT ![f] = @ + 1]
    BY <1>1, Zenon DEF CountOverlap
  <2>2. QED
    BY <2>1
<1>2. CASE ~\E t \in others : Rewriting(t, f)
  <2>1. overlaps' = overlaps
    BY <1>2, Zenon DEF CountOverlap
  <2>2. QED
    BY <1>2, <2>1
<1>3. QED
  BY <1>1, <1>2

\* The parts of a write of e's file: what they do to the balance.
LEMMA SaveReadsBalance ==
  ASSUME IInv, NEW e \in Events, NEW c \in Channels, SaveReads(e)
  PROVE  /\ Clash(e)' => Clash(e) \/ \E r \in Runners : Rewriting(r, e)
         /\ Reopens(c, e)' => Reopens(c, e)
         /\ Todo(c, e)' <=> Todo(c, e)
<1>1. /\ pc \in [Threads -> Labels] /\ Runners \subseteq Threads
      /\ "dispatch" \in Threads /\ "dispatch" \notin Runners
      /\ ev \in [Threads -> Events \cup {NoEvent}] /\ rec \in [Threads -> Contents]
      /\ Threads = Runners \cup {"dispatch"}
  BY DEF IInv, TypeOK, Labels, Threads, Runners
<1>2. /\ ~Saving(e) /\ Saving(e)' /\ pc'["dispatch"] = "open"
      /\ rec'["dispatch"] = IF Readable(e) THEN file[e] ELSE Fresh
      /\ UNCHANGED <<file, ev, job>>
      /\ \A r \in Runners : pc'[r] = pc[r] /\ rec'[r] = rec[r]
  BY <1>1 DEF SaveReads, Saving, Rewriting
<1>3. (Todo(c, e)' <=> Todo(c, e)) /\ (Coming(c, e)' <=> Coming(c, e))
  BY <1>2, SameRuns
<1>4. /\ \A r \in Runners : Rewriting(r, e)' <=> Rewriting(r, e)
      /\ Marks(e)' <=> Marks(e)
      /\ Readable(e)' <=> Readable(e)
      /\ ~Saved(e) /\ Saved(e)'
  BY <1>2 DEF Rewriting, Marks, Readable, Saved, Torn
<1>5. WillBeSent(c, e) => WillBeSent(c, e)'
  BY <1>2, <1>4 DEF WillBeSent
<1>6. WillParse(e)'
  BY <1>4 DEF WillParse
<1>7. Clash(e)' => Marks(e)
  BY <1>1, <1>2, <1>4 DEF Clash, Torn, Marks, Rewriting
<1>8. QED
  BY <1>3, <1>5, <1>6, <1>7 DEF Reopens, Marks

LEMMA MarkReadsBalance ==
  ASSUME IInv, NEW e \in Events, NEW c \in Channels, NEW r \in Runners, MarkReads(r, e),
         OneRuns'
  PROVE  /\ Clash(e)' => Clash(e) \/ Rewriting("dispatch", e)
         /\ Reopens(c, e)' => Reopens(c, e)
<1>1. /\ pc \in [Threads -> Labels] /\ Runners \subseteq Threads
      /\ "dispatch" \in Threads /\ "dispatch" \notin Runners
      /\ ev \in [Threads -> Events \cup {NoEvent}] /\ rec \in [Threads -> Contents]
      /\ Threads = Runners \cup {"dispatch"} /\ job \in [Runners -> Jobs]
  BY DEF IInv, TypeOK, Labels, Threads, Runners, Jobs
<1>2. /\ pc[r] = "mark" /\ pc'[r] = "open" /\ ev'[r] = e /\ Readable(e)
      /\ rec'[r] = [file[e] EXCEPT ![job[r].channel] = "sent"]
      /\ job'[r] = [job[r] EXCEPT !.marks = @ \ {e}]
      /\ \A t \in Threads \ {r} : pc'[t] = pc[t] /\ ev'[t] = ev[t] /\ rec'[t] = rec[t]
      /\ file' = file
  BY <1>1 DEF MarkReads
<1>3. /\ Rewriting(r, e)' /\ Marks(e)' /\ ~Torn(r, e)'
      /\ \A s \in Runners : ~Rewriting(s, e)
      /\ \A s \in Runners \ {r} : ~Rewriting(s, e)'
      /\ Saving(e)' <=> Saving(e)
  <2>1. \A s \in Runners \ {r} : pc[s] \notin Running /\ pc'[s] \notin Running
    BY <1>1, <1>2 DEF IInv, OneRuns, Running
  <2>2. QED
    BY <1>1, <1>2, <2>1 DEF Rewriting, Marks, Torn, Saving, Running
<1>4. Clash(e)' => Saving(e)
  BY <1>1, <1>3 DEF Clash, Torn, Saving
<1>5. file[e][c] = "sent" \/ c = job[r].channel => WillBeSent(c, e)'
  <2>1. file[e] \in Contents
    BY <1>2 DEF Readable
  <2>2. ASSUME file[e][c] = "sent" \/ c = job[r].channel PROVE rec'[r][c] = "sent"
    BY <1>2, <2>1, <2>2 DEF Contents
  <2>3. QED
    BY <1>3, <2>2 DEF WillBeSent
<1>6. WillBeSent(c, e) => file[e][c] = "sent"
  <2>1. Saving(e) /\ rec["dispatch"][c] = "sent" => file[e][c] = "sent"
    BY <1>2 DEF IInv, NothingForgotten
  <2>2. QED
    BY <1>3, <2>1 DEF WillBeSent, Saved
<1>7. c # job[r].channel => (Coming(c, e)' <=> Coming(c, e))
  <2>1. OneRuns /\ OneRuns' /\ pc[r] \in Running /\ pc'[r] \in Running
    BY <1>2 DEF IInv, Running
  <2>2. c # job[r].channel => (ToMark(r, c, e)' <=> ToMark(r, c, e))
    BY <1>1, <1>2 DEF ToMark, Jobs
  <2>3. ToCome(r, c, e)' <=> ToCome(r, c, e)
    BY <1>1, <1>2 DEF ToCome, Jobs, Running, Channels
  <2>4. QED
    BY <2>1, <2>2, <2>3, RunOf
<1>8. WillParse(e)'
  BY <1>3 DEF WillParse
<1>9. QED
  BY <1>4, <1>5, <1>6, <1>7, <1>8 DEF Reopens, Saving

LEMMA TruncatesBalance ==
  ASSUME IInv, NEW t \in Threads, Truncates(t), NEW e \in Events, e = ev[t],
         NEW c \in Channels
  PROVE  /\ Clash(e)' => Clash(e)
         /\ Reopens(c, e)' => Reopens(c, e)
<1>1. /\ pc \in [Threads -> Labels] /\ Runners \subseteq Threads
      /\ "dispatch" \in Threads /\ "dispatch" \notin Runners
      /\ file \in [Events -> Contents \cup {Empty, Corrupt}]
      /\ Threads = Runners \cup {"dispatch"}
  BY DEF IInv, TypeOK, Labels, Threads, Runners
<1>2. /\ pc[t] = "open" /\ pc'[t] = "fill" /\ UNCHANGED <<ev, rec, job>>
      /\ \A u \in Threads \ {t} : pc'[u] = pc[u]
      /\ file'[e] = Empty
  BY <1>1 DEF Truncates
<1>3. /\ \A u \in Threads : Rewriting(u, e)' <=> Rewriting(u, e)
      /\ \A u \in Threads : ~Torn(u, e)'
      /\ Rewriting(t, e) /\ ~Torn(t, e)
  BY <1>2 DEF Rewriting, Torn
<1>4. /\ Saving(e)' <=> Saving(e)
      /\ Marks(e)' <=> Marks(e)
      /\ Saved(e)' <=> Saving(e)
      /\ Marks(e) \/ (Saved(e) /\ Saving(e))
  BY <1>1, <1>3 DEF Saving, Marks, Saved
<1>5. Clash(e)' => Clash(e)
  BY <1>3, <1>4 DEF Clash
<1>6. WillParse(e)'
  BY <1>4 DEF WillParse
<1>7. WillBeSent(c, e)' <=> WillBeSent(c, e)
  BY <1>1, <1>2, <1>3, <1>4 DEF WillBeSent
<1>8. Coming(c, e)' <=> Coming(c, e)
  BY <1>1, <1>2, SameRuns
<1>9. QED
  BY <1>5, <1>6, <1>7, <1>8 DEF Reopens

LEMMA FillsBalance ==
  ASSUME IInv, NEW t \in Threads, Fills(t), NEW e \in Events, e = ev[t],
         NEW c \in Channels
  PROVE  Count(Clash(e)') + Count(Reopens(c, e)') <= Count(Clash(e)) + Count(Reopens(c, e))
<1>1. /\ pc \in [Threads -> Labels] /\ Runners \subseteq Threads
      /\ "dispatch" \in Threads /\ "dispatch" \notin Runners
      /\ file \in [Events -> Contents \cup {Empty, Corrupt}]
      /\ rec \in [Threads -> Contents]
      /\ Threads = Runners \cup {"dispatch"}
      /\ Empty \notin Contents /\ Corrupt \notin Contents /\ Empty # Corrupt
  BY EventsAssumption DEF IInv, TypeOK, Labels, Threads, Runners
<1>2. /\ pc[t] = "fill" /\ UNCHANGED <<ev, rec, job>>
      /\ pc'[t] = IF t = "dispatch" THEN "idle" ELSE "mark"
      /\ \A u \in Threads \ {t} : pc'[u] = pc[u]
      /\ file'[e] = rec[t] \/ (file[e] # Empty /\ file'[e] = Corrupt)
  BY <1>1 DEF Fills
<1>3. /\ \A u \in Threads \ {t} : Rewriting(u, e)' <=> Rewriting(u, e)
      /\ Rewriting(t, e) /\ ~Rewriting(t, e)'
      /\ file'[e] # Empty /\ (Torn(t, e) <=> file[e] # Empty)
      /\ Readable(e)' <=> file'[e] = rec[t]
  BY <1>1, <1>2 DEF Rewriting, Torn, Readable
<1>4. Coming(c, e)' <=> Coming(c, e)
  BY <1>1, <1>2, SameRuns
<1>5. CASE t = "dispatch"
  <2>1. Saving(e) /\ ~Saving(e)' /\ ~Saved(e)' /\ (Marks(e)' <=> Marks(e))
    BY <1>1, <1>3, <1>5 DEF Saving, Marks, Saved
  <2>2. CASE ~Marks(e)
    <3>1. ~Clash(e)'
      BY <1>1, <1>3, <1>5, <2>1, <2>2 DEF Clash, Torn, Marks
    <3>2. CASE file[e] # Empty
      <4>1. Clash(e)
        BY <1>3, <3>2 DEF Clash
      <4>2. QED
        BY <3>1, <4>1 DEF Count
    <3>3. CASE file[e] = Empty
      <4>1. Saved(e) /\ file'[e] = rec["dispatch"] /\ Readable(e)'
        BY <1>2, <1>3, <1>5, <2>1, <3>3 DEF Saved
      <4>2. WillBeSent(c, e)' <=> WillBeSent(c, e)
        BY <1>1, <1>3, <1>5, <2>1, <2>2, <4>1 DEF WillBeSent, Marks
      <4>3. WillParse(e) /\ WillParse(e)'
        BY <4>1 DEF WillParse
      <4>4. QED
        BY <1>4, <3>1, <4>2, <4>3 DEF Count, Reopens
    <3>4. QED
      BY <3>2, <3>3
  <2>3. CASE Marks(e)
    <3>1. Clash(e)
      BY <2>1, <2>3 DEF Clash
    <3>2. WillParse(e) /\ WillParse(e)'
      BY <2>1, <2>3 DEF WillParse
    <3>3. WillBeSent(c, e)' <=> WillBeSent(c, e)
      BY <1>1, <1>2, <1>3, <1>5, <2>1, <2>3 DEF WillBeSent
    <3>4. QED
      BY <1>4, <3>1, <3>2, <3>3 DEF Count, Reopens
  <2>4. QED
    BY <2>2, <2>3
<1>6. CASE t \in Runners
  <2>1. \A s \in Runners \ {t} : ~Rewriting(s, e)
    BY <1>2, <1>6 DEF IInv, OneRuns, Running, Rewriting
  <2>2. /\ Marks(e) /\ ~Marks(e)' /\ (Saving(e)' <=> Saving(e))
        /\ \A s \in Runners : ~Rewriting(s, e)'
    BY <1>1, <1>3, <1>6, <2>1 DEF Marks, Saving
  <2>3. WillParse(e) /\ (WillBeSent(c, e) <=> rec[t][c] = "sent")
    BY <1>3, <1>6, <2>1, <2>2 DEF WillParse, WillBeSent
  <2>4. Clash(e)' <=> Torn("dispatch", e)'
    BY <1>1, <1>6, <2>2 DEF Clash, Torn
  <2>5. CASE Saving(e) /\ pc["dispatch"] = "open"
    <3>1. Clash(e) /\ ~Clash(e)'
      BY <1>1, <1>2, <1>6, <2>2, <2>4, <2>5 DEF Clash, Torn
    <3>2. QED
      BY <3>1 DEF Count
  <2>6. CASE Saving(e) /\ pc["dispatch"] # "open"
    <3>1. pc["dispatch"] = "fill" /\ file[e] = Empty
      BY <1>2, <1>3, <1>6, <2>6 DEF IInv, BothFilling, Saving, Rewriting
    <3>2. Clash(e) /\ Readable(e)' /\ file'[e] = rec[t]
      BY <1>2, <1>3, <2>2, <2>6, <3>1 DEF Clash
    <3>3. ~Saved(e)'
      <4>1. Torn("dispatch", e)'
        BY <1>1, <1>2, <1>3, <1>6, <2>6, <3>1 DEF Torn, Saving
      <4>2. QED
        BY <4>1 DEF Saved
    <3>4. WillParse(e)' /\ (WillBeSent(c, e)' <=> rec[t][c] = "sent")
      BY <2>2, <3>2, <3>3 DEF WillParse, WillBeSent
    <3>5. QED
      BY <1>4, <2>3, <3>2, <3>4 DEF Count, Reopens
  <2>7. CASE ~Saving(e)
    <3>1. ~Clash(e)'
      BY <1>1, <1>6, <2>2, <2>4, <2>7 DEF Torn, Saving
    <3>2. CASE file[e] # Empty
      <4>1. Clash(e)
        BY <1>3, <3>2 DEF Clash
      <4>2. QED
        BY <3>1, <4>1 DEF Count
    <3>3. CASE file[e] = Empty
      <4>1. Readable(e)' /\ file'[e] = rec[t] /\ ~Saved(e)'
        BY <1>2, <1>3, <2>2, <2>7, <3>3 DEF Saved
      <4>2. WillParse(e)' /\ (WillBeSent(c, e)' <=> rec[t][c] = "sent")
        BY <2>2, <4>1 DEF WillParse, WillBeSent
      <4>3. QED
        BY <1>4, <2>3, <3>1, <4>2 DEF Count, Reopens
    <3>4. QED
      BY <3>2, <3>3
  <2>8. QED
    BY <2>5, <2>6, <2>7
<1>7. QED
  BY <1>1, <1>5, <1>6

\* A step adds to what is sent, to come or expected again only what it pays for.
LEMMA NextAccounted == IInv /\ [Next]_vars => Accounted'
<1> SUFFICES ASSUME IInv, [Next]_vars, NEW e \in Events, NEW c \in Channels
             PROVE  sent'[c][e] + Count(Todo(c, e)') + Count(Clash(e)')
                      + Count(Reopens(c, e)') <= 1 + mishaps' + overlaps'[e]
  BY DEF Accounted, Count
<1> DEFINE T == Count(Todo(c, e))
           K == Count(Clash(e))
           U == Count(Reopens(c, e))
           T1 == Count(Todo(c, e)')
           K1 == Count(Clash(e)')
           U1 == Count(Reopens(c, e)')
           Goal == sent'[c][e] + T1 + K1 + U1 <= 1 + mishaps' + overlaps'[e]
<1>1. /\ T \in 0..1 /\ K \in 0..1 /\ U \in 0..1
      /\ T1 \in 0..1 /\ K1 \in 0..1 /\ U1 \in 0..1
  BY DEF Count
<1>2. /\ sent[c][e] \in Nat /\ mishaps \in Nat /\ overlaps[e] \in Nat
      /\ sent'[c][e] \in Nat /\ mishaps' \in Nat /\ overlaps'[e] \in Nat
  <2>1. TypeOK /\ TypeOK'
    BY NextTypeOK DEF IInv
  <2>2. QED
    BY <2>1, BoundsAssumption DEF TypeOK
<1>3. sent[c][e] + T + K + U <= 1 + mishaps + overlaps[e]
  BY DEF IInv, Accounted
<1>4. /\ pc \in [Threads -> Labels] /\ Runners \subseteq Threads
      /\ "dispatch" \in Threads /\ "dispatch" \notin Runners
      /\ ev \in [Threads -> Events \cup {NoEvent}] /\ rec \in [Threads -> Contents]
      /\ file \in [Events -> Contents \cup {Empty, Corrupt}]
      /\ job \in [Runners -> Jobs] /\ overlaps \in [Events -> Nat]
      /\ sent \in [Channels -> [Events -> Nat]]
  BY DEF IInv, TypeOK, Labels, Threads, Runners, Jobs
<1>5. TypeOK /\ OneRuns /\ OneRuns'
  BY NextOneRuns DEF IInv
<1>6. ASSUME Clash(e)' <=> Clash(e), WillParse(e)' <=> WillParse(e),
             WillBeSent(c, e)' <=> WillBeSent(c, e),
             Todo(c, e)' => Todo(c, e),
             Coming(c, e) /\ ~Coming(c, e)' => Todo(c, e) /\ ~Todo(c, e)'
      PROVE  T1 + K1 + U1 <= T + K + U
  BY <1>6, NoMoreToCome
<1>7. ASSUME Clash(e)' => Clash(e), Todo(c, e)' <=> Todo(c, e) PROVE K1 <= K /\ T1 = T
  BY <1>7 DEF Count
<1>8. ASSUME Reopens(c, e)' => Reopens(c, e) PROVE U1 <= U
  BY <1>8 DEF Count
<1> HIDE DEF T, K, U, T1, K1, U1
<1>9. ASSUME T1 + K1 + U1 <= T + K + U, UNCHANGED <<sent, mishaps>>,
             overlaps'[e] >= overlaps[e]
      PROVE  Goal
  BY <1>1, <1>2, <1>3, <1>9
<1> USE DEF clock, service, local, budgets
\* Nothing is written, and nothing is done for the runs.
<1>10. ASSUME UNCHANGED <<file, ev, rec, job, sent, mishaps>>, overlaps'[e] >= overlaps[e],
              \A t \in Threads : \/ pc'[t] = pc[t]
                                 \/ {pc[t], pc'[t]} \cap Running = {}
       PROVE  Goal
  <2>1. \A t \in Threads : pc[t] \in {"open", "fill"} \/ pc'[t] \in {"open", "fill"} =>
          pc'[t] = pc[t]
    BY <1>10 DEF Running
  <2>2. /\ Clash(e)' <=> Clash(e)
        /\ WillParse(e)' <=> WillParse(e)
        /\ WillBeSent(c, e)' <=> WillBeSent(c, e)
    BY <1>10, <2>1, SameWrites DEF Rewriting
  <2>3. (Todo(c, e)' <=> Todo(c, e)) /\ (Coming(c, e)' <=> Coming(c, e))
    BY <1>4, <1>10, SameRuns
  <2>4. QED
    BY <1>6, <1>9, <1>10, <2>2, <2>3
<1>11. ASSUME NEW f \in Events, Deliver(f) PROVE Goal
  <2>1. UNCHANGED <<file, rec, job, sent, mishaps, overlaps>> /\ pc["dispatch"] = "idle"
    BY <1>11 DEF Deliver
  <2>2. CASE UNCHANGED <<pc, ev>>
    BY <1>2, <1>10, <2>1, <2>2
  <2>3. CASE Goto("dispatch", "read") /\ ev' = [ev EXCEPT !["dispatch"] = f]
    <3>1. \A t \in Threads : Rewriting(t, e) \/ Rewriting(t, e)' =>
            pc'[t] = pc[t] /\ ev'[t] = ev[t] /\ rec'[t] = rec[t]
      BY <1>4, <2>1, <2>3 DEF Goto, Rewriting
    <3>2. /\ Clash(e)' <=> Clash(e)
          /\ WillParse(e)' <=> WillParse(e)
          /\ WillBeSent(c, e)' <=> WillBeSent(c, e)
      BY <2>1, <3>1, SameWrites
    <3>3. \A r \in Runners : pc'[r] = pc[r]
      BY <1>4, <2>3 DEF Goto
    <3>4. (Todo(c, e)' <=> Todo(c, e)) /\ (Coming(c, e)' <=> Coming(c, e))
      BY <2>1, <3>3, SameRuns
    <3>5. QED
      BY <1>2, <1>6, <1>9, <2>1, <3>2, <3>4
  <2>4. QED
    BY <1>11, <2>2, <2>3, Zenon DEF Deliver
<1>12. ASSUME Wake \/ Start \/ Tick \/ UNCHANGED vars PROVE Goal
  <2>1. UNCHANGED <<file, ev, rec, job, sent, mishaps, overlaps>>
    BY <1>12 DEF Wake, Start, Tick, vars
  <2>2. \A t \in Threads : pc'[t] = pc[t] \/ {pc[t], pc'[t]} \cap Running = {}
    <3>1. CASE Wake
      BY <1>4, <3>1 DEF Wake, Goto, Running
    <3>2. CASE Start
      BY <1>4, <3>2 DEF Start, Goto, Running, IInv, DownIsIdle
    <3>3. CASE Tick \/ UNCHANGED vars
      BY <3>3 DEF Tick, vars
    <3>4. QED
      BY <1>12, <3>1, <3>2, <3>3
  <2>3. QED
    BY <1>2, <1>10, <2>1, <2>2
<1>13. ASSUME NEW f \in Events, SavesNothing(f) PROVE Goal
  <2>1. overlaps'[e] >= overlaps[e]
    BY <1>4, <1>13, OverlapCounts DEF SavesNothing
  <2>2. \A t \in Threads : pc'[t] = pc[t] \/ {pc[t], pc'[t]} \cap Running = {}
    BY <1>4, <1>13 DEF SavesNothing, Running
  <2>3. QED
    BY <1>10, <1>13, <2>1, <2>2 DEF SavesNothing
\* A goroutine writes the file of another event.
<1>14. ASSUME NEW t \in Threads, NEW f \in Events, f # e,
              \/ SaveReads(f) /\ t = "dispatch"
              \/ Truncates(t) /\ ev[t] = f
              \/ Fills(t) /\ ev[t] = f
       PROVE  Goal
  <2>1. \A u \in Threads \ {t} :
          pc'[u] = pc[u] /\ ev'[u] = ev[u] /\ rec'[u] = rec[u]
    BY <1>4, <1>14 DEF SaveReads, Truncates, Fills
  <2>2. ~Rewriting(t, e) /\ ~Rewriting(t, e)'
    BY <1>4, <1>14 DEF SaveReads, Truncates, Fills, Rewriting
  <2>3. file'[e] = file[e] /\ UNCHANGED <<job, sent, mishaps>>
    BY <1>4, <1>14 DEF SaveReads, Truncates, Fills
  <2>4. overlaps'[e] >= overlaps[e]
    BY <1>2, <1>4, <1>14, OverlapCounts DEF SaveReads, Truncates, Fills
  <2>5. /\ Clash(e)' <=> Clash(e)
        /\ WillParse(e)' <=> WillParse(e)
        /\ WillBeSent(c, e)' <=> WillBeSent(c, e)
    BY <2>1, <2>2, <2>3, SameWrites
  <2>6. (Todo(c, e)' <=> Todo(c, e)) /\ (Coming(c, e)' <=> Coming(c, e))
    <3>1. \A r \in Runners :
            pc'[r] = pc[r] \/ {pc[r], pc'[r]} \subseteq {"mark", "open", "fill"}
      BY <1>4, <1>14, <2>1 DEF SaveReads, Truncates, Fills
    <3>2. QED
      BY <2>3, <3>1, SameRuns
  <2>7. QED
    BY <1>6, <1>9, <2>3, <2>4, <2>5, <2>6
<1>15. ASSUME SaveReads(e) PROVE Goal
  <2>1. /\ Clash(e)' => Clash(e) \/ \E r \in Runners : Rewriting(r, e)
        /\ Reopens(c, e)' => Reopens(c, e)
        /\ Todo(c, e)' <=> Todo(c, e)
    BY <1>15, SaveReadsBalance
  <2>2. /\ overlaps'[e] >= overlaps[e]
        /\ (\E r \in Runners : Rewriting(r, e)) => overlaps'[e] = overlaps[e] + 1
    BY <1>4, <1>15, OverlapCounts DEF SaveReads
  <2>3. U1 <= U /\ T1 = T /\ UNCHANGED <<sent, mishaps>>
    BY <1>8, <1>15, <2>1 DEF SaveReads, T, T1, Count
  <2>4. CASE \E r \in Runners : Rewriting(r, e)
    BY <1>1, <1>2, <1>3, <2>2, <2>3, <2>4
  <2>5. CASE ~\E r \in Runners : Rewriting(r, e)
    BY <1>1, <1>2, <1>7, <1>9, <2>1, <2>2, <2>3, <2>5
  <2>6. QED
    BY <2>4, <2>5
<1>16. ASSUME NEW t \in Threads, Truncates(t) \/ Fills(t), ev[t] = e PROVE Goal
  <2>1. UNCHANGED <<sent, mishaps, overlaps, job>>
    BY <1>16 DEF Truncates, Fills
  <2>2. \A r \in Runners :
          pc'[r] = pc[r] \/ {pc[r], pc'[r]} \subseteq {"mark", "open", "fill"}
    BY <1>4, <1>16 DEF Truncates, Fills
  <2>3. T1 = T
    BY <2>1, <2>2, SameRuns DEF T, T1, Count
  <2>4. K1 + U1 <= K + U
    <3>1. CASE Truncates(t)
      BY <1>1, <1>7, <1>8, <1>16, <2>1, <2>2, <3>1, SameRuns, TruncatesBalance
    <3>2. CASE Fills(t)
      BY <1>16, <3>2, FillsBalance DEF K, K1, U, U1
    <3>3. QED
      BY <1>16, <3>1, <3>2
  <2>5. QED
    BY <1>1, <1>2, <1>9, <2>1, <2>3, <2>4
<1>17. ASSUME NEW t \in Threads, GivesUp(t) PROVE Goal
  <2>1. /\ UNCHANGED <<file, ev, rec, job, sent, overlaps>> /\ mishaps' = mishaps + 1
        /\ \A u \in Threads : Rewriting(u, e)' => Rewriting(u, e) /\ pc'[u] = pc[u]
    BY <1>4, <1>17 DEF GivesUp, Rewriting
  <2>2. \A r \in Runners :
          pc'[r] = pc[r] \/ {pc[r], pc'[r]} \subseteq {"mark", "open", "fill"}
    BY <1>4, <1>17 DEF GivesUp
  <2>3. Todo(c, e)' <=> Todo(c, e)
    BY <2>1, <2>2, SameRuns
  <2>4. Clash(e)' => Clash(e)
    <3>1. /\ Saving(e)' => Saving(e)
          /\ Marks(e)' => Marks(e)
          /\ \A u \in Threads : Torn(u, e)' => Torn(u, e)
      BY <1>4, <2>1 DEF Saving, Marks, Torn
    <3>2. QED
      BY <3>1 DEF Clash
  <2>5. K1 <= K /\ T1 = T
    BY <1>7, <2>3, <2>4
  <2>6. QED
    BY <1>1, <1>2, <1>3, <2>1, <2>5
<1>18. ASSUME NEW t \in Threads, Open(t) \/ Fill(t) PROVE Goal
  <2>1. ev[t] \in Events
    BY <1>18 DEF IInv, WritesWhatWasSent, Open, Fill
  <2>2. QED
    BY <1>14, <1>16, <1>17, <1>18, <2>1, WriteSteps
<1>19. ASSUME Save PROVE Goal
  BY <1>4, <1>13, <1>14, <1>15, <1>19, SaveSteps
\* A run takes a step that is no write.
<1>20. ASSUME NEW r \in Runners, UNCHANGED <<file, ev, rec>>,
              \A t \in Threads \ {r} : pc'[t] = pc[t],
              {pc[r], pc'[r]} \cap {"open", "fill"} = {}
       PROVE  /\ Clash(e)' <=> Clash(e)
              /\ WillParse(e)' <=> WillParse(e)
              /\ WillBeSent(c, e)' <=> WillBeSent(c, e)
  <2>1. \A t \in Threads : Rewriting(t, e) \/ Rewriting(t, e)' => pc'[t] = pc[t]
    BY <1>20 DEF Rewriting
  <2>2. QED
    BY <1>20, <2>1, SameWrites
<1>21. ASSUME NEW r \in Runners, Begin(r) PROVE Goal
  <2>1. /\ pc[r] = "lock" /\ mu = Free /\ pc' = [pc EXCEPT ![r] = "group"] /\ mu' = r
        /\ UNCHANGED <<file, ev, rec, sent, mishaps, overlaps>>
    BY <1>21 DEF Begin, Scan, Goto
  <2>2. /\ Clash(e)' <=> Clash(e)
        /\ WillParse(e)' <=> WillParse(e)
        /\ WillBeSent(c, e)' <=> WillBeSent(c, e)
    BY <1>4, <1>20, <2>1
  <2>3. \A s \in Runners : pc[s] \notin Running
    BY <2>1, EventsAssumption DEF IInv, OneRuns
  <2>4. ~Todo(c, e) /\ ~Coming(c, e) /\ ~Marks(e)
    BY <2>3 DEF Todo, Coming, ToCome, ToMark, Marks, Rewriting, Running
  <2>5. CASE ~Todo(c, e)'
    BY <1>2, <1>6, <1>9, <2>1, <2>2, <2>4, <2>5
  <2>6. CASE Todo(c, e)'
    <3>1. e \in job'[r][c]
      <4>1. \A s \in Runners \ {r} : pc'[s] \notin Running
        BY <1>4, <2>1, <2>3
      <4>2. QED
        BY <2>6, <4>1 DEF Todo, ToCome
    <3>2. Readable(e) /\ file[e][c] = "pending"
      <4> DEFINE due == {f \in Events : Readable(f) /\ DueOrOverdue(f)}
                 waiting(d) == {f \in due : file[f][d] = "pending"}
      <4>1. job' = [job EXCEPT ![r] = [NoJob EXCEPT !.discord = waiting("discord"),
                                                   !.calendar = waiting("calendar")]]
        BY <1>21 DEF Begin, Scan
      <4> HIDE DEF waiting
      <4>2. /\ job'[r].discord = waiting("discord")
            /\ job'[r].calendar = waiting("calendar")
        BY <1>4, <4>1 DEF NoJob
      <4>3. e \in waiting(c)
        BY <3>1, <4>2 DEF Channels
      <4>4. QED
        BY <4>3 DEF waiting
    <3>3. ~WillBeSent(c, e)
      <4>1. Saving(e) => rec["dispatch"][c] # "sent"
        BY <3>2 DEF IInv, NothingForgotten
      <4>2. QED
        BY <2>4, <3>2, <4>1 DEF WillBeSent, Marks, Saved
    <3>4. Reopens(c, e)
      BY <2>4, <3>3 DEF Reopens
    <3>5. ~Reopens(c, e)'
      <4>1. WillParse(e)' /\ Coming(c, e)'
        BY <2>2, <2>6, <3>2 DEF WillParse, Coming, Todo
      <4>2. QED
        BY <4>1 DEF Reopens
    <3>6. T = 0 /\ U = 1 /\ U1 = 0 /\ K1 = K
      BY <2>2, <2>4, <3>4, <3>5 DEF T, U, U1, K, K1, Count
    <3>7. QED
      BY <1>1, <1>2, <1>9, <2>1, <3>6
  <2>7. QED
    BY <2>5, <2>6
<1>22. ASSUME NEW r \in Runners, Group(r) PROVE Goal
  <2>1. /\ pc[r] = "group" /\ pc' = [pc EXCEPT ![r] = "notify"]
        /\ UNCHANGED <<file, ev, rec, sent, mishaps, overlaps>>
    BY <1>22 DEF Group, Goto
  <2>2. /\ job'[r].discord = job[r].discord /\ job'[r].calendar = job[r].calendar
        /\ job'[r].channel = "discord"
    <3>1. PICK f \in job[r].discord \cup job[r].calendar :
            job' = [job EXCEPT ![r].group = {g \in Events : Slot[g] = Slot[f]},
                               ![r].channel = "discord"]
      BY <1>22 DEF Group
    <3> DEFINE g == {h \in Events : Slot[h] = Slot[f]}
    <3>2. job' = [job EXCEPT ![r] = [job[r] EXCEPT !.group = g, !.channel = "discord"]]
      BY <1>4, <3>1 DEF Jobs
    <3> HIDE DEF g
    <3>3. QED
      BY <1>4, <3>2 DEF Jobs
  <2>3. /\ ToCome(r, c, e)' <=> ToCome(r, c, e)
        /\ ~ToMark(r, c, e) /\ ~ToMark(r, c, e)'
    <3>1. pc'[r] = "notify"
      BY <1>4, <2>1
    <3>2. CASE c = "discord"
      BY <2>1, <2>2, <3>1, <3>2 DEF ToCome, ToMark, Running
    <3>3. CASE c = "calendar"
      BY <2>1, <2>2, <3>1, <3>3 DEF ToCome, ToMark, Running
    <3>4. QED
      BY <3>2, <3>3 DEF Channels
  <2>4. (Todo(c, e)' <=> Todo(c, e)) /\ (Coming(c, e)' <=> Coming(c, e))
    <3>1. pc[r] \in Running /\ pc'[r] \in Running
      BY <1>4, <2>1 DEF Running
    <3>2. QED
      BY <1>5, <2>3, <3>1, RunOf
  <2>5. QED
    BY <1>2, <1>4, <1>6, <1>9, <1>20, <2>1, <2>4
<1>23. ASSUME NEW r \in Runners, Done(r) PROVE Goal
  <2>1. /\ pc[r] = "group" /\ pc' = [pc EXCEPT ![r] = "idle"]
        /\ job[r].discord \cup job[r].calendar = {}
        /\ UNCHANGED <<file, ev, rec, sent, mishaps, overlaps>>
    BY <1>23 DEF Done, Goto
  <2>2. ~ToCome(r, c, e) /\ ~ToMark(r, c, e)
    BY <2>1 DEF ToCome, ToMark, Channels
  <2>3. \A s \in Runners \ {r} : pc[s] \notin Running
    BY <1>5, <2>1 DEF OneRuns, Running
  <2>4. ~Coming(c, e) /\ ~Todo(c, e)'
    <3>1. \A s \in Runners \ {r} : ~ToCome(s, c, e) /\ ~ToMark(s, c, e)
      BY <2>3 DEF ToCome, ToMark, Running
    <3>2. \A s \in Runners : pc'[s] \notin Running
      BY <1>4, <2>1, <2>3 DEF Running
    <3>3. QED
      BY <2>2, <3>1, <3>2 DEF Coming, Todo, ToCome
  <2>5. QED
    BY <1>2, <1>4, <1>6, <1>9, <1>20, <2>1, <2>4
<1>24. ASSUME NEW r \in Runners, NextChannel(r), pc[r] \in {"notify", "mark"},
              UNCHANGED <<file, ev, rec>>
       PROVE  /\ Clash(e)' <=> Clash(e)
              /\ WillParse(e)' <=> WillParse(e)
              /\ WillBeSent(c, e)' <=> WillBeSent(c, e)
              /\ Todo(c, e) <=> ToCome(r, c, e)
              /\ Todo(c, e)' <=> ToCome(r, c, e)'
              /\ Coming(c, e) <=> ToCome(r, c, e) \/ ToMark(r, c, e)
              /\ Coming(c, e)' <=> ToCome(r, c, e)' \/ ToMark(r, c, e)'
  <2>1. pc' = [pc EXCEPT ![r] = "notify"] \/ pc' = [pc EXCEPT ![r] = "group"]
    BY <1>5, <1>24, NextChannelType
  <2>2. /\ pc[r] \in Running /\ pc'[r] \in Running
        /\ {pc[r], pc'[r]} \cap {"open", "fill"} = {}
        /\ \A t \in Threads \ {r} : pc'[t] = pc[t]
    BY <1>4, <1>24, <2>1 DEF Running
  <2>3. QED
    BY <1>5, <1>20, <1>24, <2>2, RunOf
<1>25. ASSUME NEW r \in Runners, Skip(r) \/ Marked(r) PROVE Goal
  <2>1. /\ NextChannel(r) /\ pc[r] \in {"notify", "mark"}
        /\ UNCHANGED <<file, ev, rec, sent, mishaps, overlaps>>
        /\ pc[r] = "mark" => job[r].marks = {}
    BY <1>25 DEF Skip, Marked
  <2>2. ~ToMark(r, c, e)
    BY <2>1 DEF ToMark
  <2>3. ToCome(r, c, e)' => ToCome(r, c, e)
    BY <1>5, <2>1, NextChannelJob
  <2>4. Todo(c, e)' => Todo(c, e)
    BY <1>24, <2>1, <2>3
  <2>5. Coming(c, e) /\ ~Coming(c, e)' => Todo(c, e) /\ ~Todo(c, e)'
    BY <1>24, <2>1, <2>2
  <2>6. QED
    BY <1>2, <1>6, <1>9, <1>24, <2>1, <2>4, <2>5
\* What the channel of this turn reaches, it had still to reach.
<1>26. ASSUME NEW r \in Runners, NEW n \in Nat, Reach(r, n), pc[r] = "notify"
       PROVE  /\ c = job[r].channel /\ e \in ToNotify(r) =>
                   sent'[c][e] = sent[c][e] + n /\ ToCome(r, c, e)
              /\ ~(c = job[r].channel /\ e \in ToNotify(r)) => sent'[c][e] = sent[c][e]
  <2>1. job[r].channel \in Channels
    BY <1>4 DEF Jobs
  <2>2. sent' = [sent EXCEPT ![job[r].channel] =
                   [f \in Events |-> sent[job[r].channel][f]
                                       + IF f \in ToNotify(r) THEN n ELSE 0]]
    BY <1>4, <1>26, <2>1 DEF Reach
  <2>3. sent'[c][e] = IF c = job[r].channel
                        THEN sent[c][e] + IF e \in ToNotify(r) THEN n ELSE 0
                        ELSE sent[c][e]
    BY <1>4, <2>1, <2>2
  <2>4. c = job[r].channel /\ e \in ToNotify(r) => ToCome(r, c, e)
    BY <1>26 DEF ToNotify, ToCome, Running
  <2>5. QED
    BY <1>2, <2>3, <2>4
<1>27. ASSUME NEW r \in Runners, NotifyFails(r) PROVE Goal
  <2>1. /\ NextChannel(r) /\ pc[r] = "notify" /\ mishaps' = mishaps + 1
        /\ UNCHANGED <<file, ev, rec, overlaps>>
        /\ \E n \in {0, 1} : Reach(r, n)
    BY <1>27 DEF NotifyFails, Mishap
  <2>2. /\ Clash(e)' <=> Clash(e)
        /\ Todo(c, e) <=> ToCome(r, c, e)
        /\ Todo(c, e)' <=> ToCome(r, c, e)'
    BY <1>24, <2>1
  <2>3. /\ ToCome(r, c, e)' => ToCome(r, c, e)
        /\ c = job[r].channel => ~(e \in ToNotify(r) /\ ToCome(r, c, e)')
    BY <1>5, <2>1, NextChannelJob
  <2>4. sent'[c][e] + T1 <= sent[c][e] + T
    <3>1. PICK n \in {0, 1} : Reach(r, n)
      BY <2>1
    <3>2. CASE c = job[r].channel /\ e \in ToNotify(r)
      <4>1. T = 1 /\ T1 = 0
        BY <1>26, <2>1, <2>2, <2>3, <3>1, <3>2 DEF T, T1, Count
      <4>2. QED
        BY <1>2, <1>26, <2>1, <3>1, <3>2, <4>1
    <3>3. CASE ~(c = job[r].channel /\ e \in ToNotify(r))
      <4>1. T1 <= T
        BY <2>2, <2>3 DEF T, T1, Count
      <4>2. QED
        BY <1>1, <1>2, <1>26, <2>1, <3>1, <3>3, <4>1
    <3>4. QED
      BY <3>2, <3>3
  <2>5. K1 = K
    BY <2>2 DEF K, K1, Count
  <2>6. QED
    BY <1>1, <1>2, <1>3, <2>1, <2>4, <2>5
<1>28. ASSUME NEW r \in Runners, Notify(r) PROVE Goal
  <2>1. /\ pc[r] = "notify" /\ pc' = [pc EXCEPT ![r] = "mark"]
        /\ job' = [job EXCEPT ![r] = [job[r] EXCEPT !.marks = ToNotify(r)]]
        /\ UNCHANGED <<file, ev, rec, overlaps>>
    BY <1>4, <1>28 DEF Notify, Goto, Jobs
  <2>2. \/ Reach(r, 1) /\ mishaps' = mishaps
        \/ Reach(r, 2) /\ mishaps' = mishaps + 1
    BY <1>28 DEF Notify, Mishap, NoMishap
  <2>3. /\ pc'[r] = "mark" /\ job'[r] = [job[r] EXCEPT !.marks = ToNotify(r)]
        /\ pc[r] \in Running /\ pc'[r] \in Running
    BY <1>4, <2>1 DEF Running
  <2>4. /\ ~ToMark(r, c, e)
        /\ ToMark(r, c, e)' <=> c = job[r].channel /\ e \in ToNotify(r)
    BY <1>4, <2>1, <2>3 DEF ToMark, Jobs
  <2>5. /\ c = job[r].channel /\ e \in ToNotify(r) => ~ToCome(r, c, e)'
        /\ ~(c = job[r].channel /\ e \in ToNotify(r)) =>
             (ToCome(r, c, e)' <=> ToCome(r, c, e))
    <3>1. /\ job'[r].discord = job[r].discord /\ job'[r].calendar = job[r].calendar
          /\ job'[r].group = job[r].group /\ job'[r].channel = job[r].channel
          /\ job[r].channel \in {"discord", "calendar"}
      BY <1>4, <2>3 DEF Jobs, Channels
    <3>2. CASE c = "discord"
      BY <2>1, <2>3, <3>1, <3>2 DEF ToCome, ToNotify
    <3>3. CASE c = "calendar"
      BY <2>1, <2>3, <3>1, <3>3 DEF ToCome, ToNotify
    <3>4. QED
      BY <3>2, <3>3 DEF Channels
  <2>6. /\ Todo(c, e) <=> ToCome(r, c, e)
        /\ Todo(c, e)' <=> ToCome(r, c, e)'
        /\ Coming(c, e) <=> ToCome(r, c, e) \/ ToMark(r, c, e)
        /\ Coming(c, e)' <=> ToCome(r, c, e)' \/ ToMark(r, c, e)'
    BY <1>5, <2>3, RunOf
  <2>7. /\ Clash(e)' <=> Clash(e)
        /\ WillParse(e)' <=> WillParse(e)
        /\ WillBeSent(c, e)' <=> WillBeSent(c, e)
    BY <1>4, <1>20, <2>1
  <2>8. CASE c = job[r].channel /\ e \in ToNotify(r)
    <3>1. ToCome(r, c, e) /\ sent'[c][e] + mishaps <= sent[c][e] + 1 + mishaps'
      BY <1>2, <1>26, <2>1, <2>2, <2>8
    <3>2. T = 1 /\ T1 = 0
      BY <2>5, <2>6, <2>8, <3>1 DEF T, T1, Count
    <3>3. Coming(c, e) /\ Coming(c, e)'
      BY <2>4, <2>6, <2>8, <3>1
    <3>4. K1 = K /\ U1 = U
      BY <2>7, <3>3 DEF K, K1, U, U1, Count, Reopens
    <3>5. QED
      BY <1>1, <1>2, <1>3, <2>1, <3>1, <3>2, <3>4
  <2>9. CASE ~(c = job[r].channel /\ e \in ToNotify(r))
    <3>1. sent'[c][e] = sent[c][e] /\ mishaps' >= mishaps
      BY <1>2, <1>26, <2>1, <2>2, <2>9
    <3>2. T1 + K1 + U1 <= T + K + U
      BY <1>6, <2>4, <2>5, <2>6, <2>7, <2>9
    <3>3. QED
      BY <1>1, <1>2, <1>3, <2>1, <3>1, <3>2
  <2>10. QED
    BY <2>8, <2>9
<1>29. ASSUME NEW r \in Runners, NEW f \in Events, MarkReads(r, f) \/ PassesOver(r, f)
       PROVE  /\ Todo(c, e)' <=> Todo(c, e)
              /\ f # e \/ c # job[r].channel => (Coming(c, e)' <=> Coming(c, e))
  <2>1. /\ pc[r] = "mark" /\ pc'[r] \in {"mark", "open"}
        /\ job'[r] = [job[r] EXCEPT !.marks = @ \ {f}]
    BY <1>4, <1>29 DEF MarkReads, PassesOver
  <2>2. pc[r] \in Running /\ pc'[r] \in Running
    BY <2>1 DEF Running
  <2>3. f # e \/ c # job[r].channel => (ToMark(r, c, e)' <=> ToMark(r, c, e))
    BY <1>4, <2>1 DEF ToMark, Jobs
  <2>4. ToCome(r, c, e)' <=> ToCome(r, c, e)
    BY <1>4, <2>1 DEF ToCome, Jobs, Running, Channels
  <2>5. QED
    BY <1>5, <2>2, <2>3, <2>4, RunOf
<1>30. ASSUME NEW r \in Runners, NEW f \in Events, f # e,
              MarkReads(r, f) \/ PassesOver(r, f)
       PROVE  Goal
  <2>1. /\ pc[r] = "mark" /\ UNCHANGED <<file, sent, mishaps>>
        /\ \A t \in Threads \ {r} : pc'[t] = pc[t] /\ ev'[t] = ev[t] /\ rec'[t] = rec[t]
        /\ pc'[r] \in {"open", "fill"} => ev'[r] = f
    BY <1>4, <1>30 DEF MarkReads, PassesOver
  <2>2. \A t \in Threads : Rewriting(t, e) \/ Rewriting(t, e)' =>
          pc'[t] = pc[t] /\ ev'[t] = ev[t] /\ rec'[t] = rec[t]
    BY <1>30, <2>1 DEF Rewriting
  <2>3. /\ Clash(e)' <=> Clash(e)
        /\ WillParse(e)' <=> WillParse(e)
        /\ WillBeSent(c, e)' <=> WillBeSent(c, e)
    BY <2>1, <2>2, SameWrites
  <2>4. overlaps'[e] >= overlaps[e]
    BY <1>4, <1>30, OverlapCounts DEF MarkReads, PassesOver
  <2>5. QED
    BY <1>6, <1>9, <1>29, <1>30, <2>1, <2>3, <2>4
<1>31. ASSUME NEW r \in Runners, MarkReads(r, e) PROVE Goal
  <2>1. /\ Clash(e)' => Clash(e) \/ Rewriting("dispatch", e)
        /\ Reopens(c, e)' => Reopens(c, e)
    BY <1>5, <1>31, MarkReadsBalance
  <2>2. /\ overlaps'[e] >= overlaps[e]
        /\ Rewriting("dispatch", e) => overlaps'[e] = overlaps[e] + 1
    BY <1>4, <1>31, OverlapCounts DEF MarkReads
  <2>3. U1 <= U /\ T1 = T /\ UNCHANGED <<sent, mishaps>>
    BY <1>8, <1>29, <1>31, <2>1 DEF MarkReads, T, T1, Count
  <2>4. CASE Rewriting("dispatch", e)
    BY <1>1, <1>2, <1>3, <2>2, <2>3, <2>4
  <2>5. CASE ~Rewriting("dispatch", e)
    BY <1>1, <1>2, <1>7, <1>9, <1>29, <1>31, <2>1, <2>2, <2>3, <2>5
  <2>6. QED
    BY <2>4, <2>5
<1>32. ASSUME NEW r \in Runners, PassesOver(r, e) PROVE Goal
  <2>1. /\ pc[r] = "mark" /\ ~Readable(e) /\ UNCHANGED <<file, pc, ev, rec, sent, mishaps>>
    BY <1>32 DEF PassesOver
  <2>2. /\ Clash(e)' <=> Clash(e)
        /\ WillParse(e)' <=> WillParse(e)
        /\ WillBeSent(c, e)' <=> WillBeSent(c, e)
    BY <2>1, SameWrites
  <2>3. /\ overlaps'[e] >= overlaps[e]
        /\ Saving(e) => overlaps'[e] = overlaps[e] + 1
    BY <1>4, <1>32, OverlapCounts DEF PassesOver, Saving
  <2>4. T1 = T /\ K1 = K
    BY <1>29, <1>32, <2>2 DEF T, T1, K, K1, Count
  <2>5. CASE Saving(e)
    BY <1>1, <1>2, <1>3, <2>1, <2>3, <2>4, <2>5
  <2>6. CASE ~Saving(e)
    <3>1. ~Marks(e)
      <4>1. \A s \in Runners \ {r} : pc[s] \notin Running
        BY <1>5, <2>1 DEF OneRuns, Running
      <4>2. QED
        BY <2>1, <4>1 DEF Marks, Rewriting, Running
    <3>2. Reopens(c, e)
      BY <2>1, <2>6, <3>1 DEF Reopens, WillBeSent, WillParse, Saved, Marks
    <3>3. U1 <= U
      BY <1>8, <3>2
    <3>4. QED
      BY <1>1, <1>9, <2>1, <2>3, <2>4, <3>3
  <2>7. QED
    BY <2>5, <2>6
<1>33. ASSUME NEW r \in Runners, Mark(r) PROVE Goal
  BY <1>30, <1>31, <1>32, <1>33, MarkSteps
<1>34. ASSUME Crash PROVE Goal
  <2>1. /\ mishaps' = mishaps + 1 /\ UNCHANGED <<file, sent, overlaps>>
        /\ \A t \in Threads : pc'[t] = "idle"
    BY <1>34 DEF Crash, Mishap
  <2>2. ~Todo(c, e)' /\ ~Clash(e)'
    BY <1>4, <2>1 DEF Todo, ToCome, Clash, Saving, Torn, Rewriting, Running
  <2>3. T1 = 0 /\ K1 = 0
    BY <2>2 DEF T1, K1, Count
  <2>4. QED
    BY <1>1, <1>2, <1>3, <2>1, <2>3
<1>35. QED
  <2>1. Goal
    BY <1>11, <1>12, <1>18, <1>19, <1>21, <1>22, <1>23, <1>25, <1>27, <1>28, <1>33, <1>34
    DEF Next, RunOnce
  <2>2. QED
    BY <2>1 DEF T1, K1, U1

LEMMA NextIInv == IInv /\ [Next]_vars => IInv'
  BY NextTypeOK, NextResolvedWasSent, NextWritesWhatWasSent, NextMarksWhatWasSent,
     NextSavesAnEvent, NextOneRuns, NextDownIsIdle, NextNothingForgotten,
     NextBothFilling, NextAccounted
  DEF IInv

-----------------------------------------------------------------------------

\* The variables keep their types (school.go, store.go, school_event.go).
THEOREM TypeCorrect == Spec => []TypeOK
<1>1. IInv => TypeOK
  BY DEF IInv
<1>2. QED
  BY InitIInv, NextIInv, <1>1, PTL DEF Spec

\* No channel of an event is marked resolved that the event has not reached,
\* with any number of emails, crashes, failures, torn writes and overlaps of
\* consumer and scheduler (school.go:153-184, store.go:67-84, 109-127).
THEOREM ResolvedWasSentHolds == Spec => []ResolvedWasSent
<1>1. IInv => ResolvedWasSent
  BY DEF IInv
<1>2. QED
  BY InitIInv, NextIInv, <1>1, PTL DEF Spec

\* However often an email is processed, and whatever the catch-up, the daily run
\* and Save do to one another: a channel fires again for an event only after a
\* mishap or an overlap of two writes (store.go:46-84, school.go:42-46).
THEOREM RemindersAccountedForHolds == Spec => []RemindersAccountedFor
<1>1. IInv => RemindersAccountedFor
  <2> SUFFICES ASSUME IInv, NEW e \in Events, NEW c \in Channels
               PROVE  sent[c][e] <= 1 + mishaps + overlaps[e]
    BY DEF RemindersAccountedFor
  <2>1. sent[c][e] \in Nat /\ mishaps \in Nat /\ overlaps[e] \in Nat
    BY BoundsAssumption DEF IInv, TypeOK
  <2>2. /\ Count(Todo(c, e)) \in 0..1 /\ Count(Clash(e)) \in 0..1
        /\ Count(Reopens(c, e)) \in 0..1
    BY DEF Count
  <2>3. QED
    BY <2>1, <2>2 DEF IInv, Accounted
<1>2. QED
  BY InitIInv, NextIInv, <1>1, PTL DEF Spec

=============================================================================
