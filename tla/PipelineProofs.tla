--------------------------- MODULE PipelineProofs ---------------------------
(***************************************************************************)
(* From mail to episode, for any scenarios and bounds: what is             *)
(* acknowledged was handed on, what was recorded twice had a cause, and a  *)
(* success is in the report.                                               *)
(*                                                                         *)
(* At the end, the system monitor, whose alerts are among what comes in.   *)
(* For any checks, thresholds, intervals and grace periods: an alert has   *)
(* lasted as long as it should, is about a change, and agrees with the     *)
(* status that is shown.                                                   *)
(***************************************************************************)
EXTENDS Pipeline, SysMonitor, FiniteSetTheorems, WellFoundedInduction, TLAPS

(* What the streams carry *)

Dates == Nat \cup {BadDate}
Hints == {"append_daily_report_entry", "triage_gmail_email", "process_school_event"}

Stimuli ==
  ({Built[m] : m \in Mails} \ {Failed})
    \cup {WithDefaults(BuiltBackfill[m]) : m \in {n \in Mails : BuiltBackfill[n] # Failed}}
    \cup {BuildCLIStimulus(p) : p \in UNION {sc.posts : sc \in Scenarios}}
    \cup {WithDefaults(s) : s \in UNION {sc.alerts : sc \in Scenarios}}

Names == {s.source : s \in Stimuli}

\* Events come with a school request only, which is important if it has some.
Asked ==
  {ActionRequest(s, "process_school_event", e # <<>>, e) : s \in Stimuli, e \in Seq(Dates)}
    \cup {ActionRequest(s, h, i, <<>>) :
            s \in Stimuli, h \in Hints \ {"process_school_event"}, i \in BOOLEAN}

Msgs(c) ==
  CASE c = "thinking" -> Stimuli
    [] c = "action"   -> [of : Nat, req : Asked]
    [] c = "memory"   -> [of : Nat, source : Names, status : {"success", "failed"}]

Blocks == [of : Nat, whole : BOOLEAN, newlines : Nat]

-----------------------------------------------------------------------------
(* Where everything is *)

Scenario ==
  \E sc \in Scenarios :
    mailbox = sc.mails /\ posts \subseteq sc.posts /\ alerts \subseteq sc.alerts

Streams ==
  /\ stream \in [Consumers -> Seq(UNION {Msgs(c) : c \in Consumers})]
  /\ \A c \in Consumers : stream[c] \in Seq(Msgs(c))

\* What is out is in the buffer.
Buffers ==
  /\ acked \in [Consumers -> SUBSET Nat] /\ out \in [Consumers -> SUBSET Nat]
  /\ buf \in [Consumers -> Seq(Nat)]
  /\ \A c \in Consumers :
       /\ acked[c] \subseteq DOMAIN stream[c] /\ out[c] \subseteq Range(buf[c])
       /\ Range(buf[c]) \subseteq DOMAIN stream[c]

Handlers ==
  /\ pc \in [Consumers -> {"idle", "publish", "ack", "retry", "effects"}]
  /\ \A c \in Consumers : pc[c] # "idle" => buf[c] # <<>>
  /\ pc["thinking"] = "publish" =>
       request \in Asked /\ request.source = Message("thinking").source
  /\ pc["action"] \in {"effects", "publish"} => entryStatus \in {"success", "failed"}
  /\ entryStatus \in {"none", "success", "failed"} /\ ev \in Nat

Watching ==
  /\ seen \subseteq DOMAIN mailbox /\ away \subseteq DOMAIN mailbox
  /\ ids \subseteq DOMAIN mailbox \ seen
  /\ labelled \in BOOLEAN /\ current \in ids \cup {NoMail}
  /\ backfills \in 0..MaxBackfills /\ mishaps \in 0..MaxMishaps

\* What is in the reports and among the episodes is of messages there are.
Kept ==
  /\ report \in [Days -> [BOOLEAN -> Seq(Blocks)]]
  /\ \A d \in Days, i \in BOOLEAN : \A k \in DOMAIN report[d][i] :
       report[d][i][k].of \in DOMAIN stream["action"]
  /\ \A n \in DOMAIN stream["memory"] :
       stream["memory"][n].of \in DOMAIN stream["action"]
  /\ episodes \in Seq(Nat \X Msgs("memory")) /\ db \in BOOLEAN
  /\ \A i \in DOMAIN episodes :
       /\ episodes[i][1] \in DOMAIN stream["memory"]
       /\ episodes[i][2] = stream["memory"][episodes[i][1]]

PTypes == Scenario /\ Streams /\ Buffers /\ Handlers /\ Watching /\ Kept

-----------------------------------------------------------------------------
(* The handler's progress with the message at the head of its buffer *)

HasRemindersBefore(n, j) ==
  LET req == stream["action"][n].req
  IN  \/ <<"event", n>> \in lost
      \/ \A i \in DOMAIN req.events :
           i < j => (Queued(req.events[i]) => <<req.thread, i, req.events[i]>> \in reminders)

AtHead ==
  /\ current # NoMail => HasStimulus(current)
  /\ pc["thinking"] = "ack" => HasRequest(Seq1("thinking"))
  /\ pc["action"] = "effects" => HasRemindersBefore(Seq1("action"), ev)
  /\ pc["action"] \in {"publish", "ack"} =>
       HasReminders(Seq1("action")) /\ HasNotification(Seq1("action"))
  /\ pc["action"] = "ack" => HasOutcome(Seq1("action"))
  /\ pc["memory"] = "ack" => HasEpisode(Seq1("memory"))

EntryAtHead ==
  pc["action"] \in {"effects", "publish"} /\ entryStatus = "success"
    => Reported(Seq1("action"))

-----------------------------------------------------------------------------
(* What may still come of the source x *)

\* The messages to c that are of x.
SourceOf(c, msg) == IF c = "action" THEN msg.req.source ELSE msg.source

Of(c, x) == {n \in DOMAIN stream[c] : SourceOf(c, stream[c][n]) = x}

\* Where a buffer b has a message of S from the place m on: from 2 on when the
\* handler is past what counts with the head.
Places(b, S, m) == {k \in DOMAIN b : b[k] \in S /\ m <= k}

\* How often a message of S is still to be handled, when those of gone are not
\* delivered again: those to be delivered, and those in the buffer.
Weight(S, gone, b, m) ==
  Cardinality(S \ gone) + Cardinality(Places(b, S, m))

Load(c, S, m) == Weight(S, acked[c] \cup out[c], buf[c], m)

From(labels, c) == IF pc[c] \in labels THEN 2 ELSE 1

\* x itself is still to be published.
ToCome(x) ==
  \/ x \in DOMAIN mailbox \ seen /\ x # current
  \/ \E p \in posts : p.id = x
  \/ \E s \in alerts : s.source = x

\* How often x is still to be thought about, entered in a report, and told.
ToThink(x) == Load("thinking", Of("thinking", x), From({"ack"}, "thinking"))
ToEnter(x) == Load("action", Of("action", x), From({"effects", "publish", "ack"}, "action"))
ToTell(x)  == Load("action", Of("action", x), From({"ack"}, "action"))

Upstream(x) == (IF ToCome(x) THEN 1 ELSE 0) + ToThink(x)

Entries(x)  == Cardinality(WholeEntries(x)) + Upstream(x) + ToEnter(x)
Tellings(x) == Cardinality(Of("memory", x)) + Upstream(x) + ToTell(x)

Accounted ==
  \A x :
    /\ IsFiniteSet(WholeEntries(x))
    /\ Entries(x) <= 1 + mishaps + backfills
    /\ Tellings(x) <= 1 + mishaps + backfills

OneRow == \A i, j \in DOMAIN episodes : episodes[i][1] = episodes[j][1] => i = j

PInv ==
  /\ PTypes /\ HandedOn /\ AtHead
  /\ SuccessIsReported /\ EntryAtHead
  /\ Accounted /\ OneRow

-----------------------------------------------------------------------------
(* The data *)

LEMMA StimulusTypes ==
  ASSUME NEW s \in Stimuli
  PROVE  s.occurred \in Days
<1>1. CASE s \in {Built[m] : m \in Mails} \ {Failed}
  <2>1. PICK m \in Mails : s = BuildStimulus(m) /\ s # Failed
    BY <1>1 DEF Built
  <2>2. PICK sc \in Scenarios : \E id \in DOMAIN sc.mails : m = sc.mails[id]
    BY <2>1 DEF Mails, Range
  <2>3. m.day \in Days
    BY <2>2, ScenariosAssumption
  <2>4. s.occurred = m.day
    BY <2>1 DEF BuildStimulus, GmailStimulus
  <2>5. QED
    BY <2>3, <2>4
<1>2. ASSUME NEW m \in Mails, BuiltBackfill[m] # Failed, s = WithDefaults(BuiltBackfill[m])
      PROVE  s.occurred \in Days
  <2>2. PICK sc \in Scenarios : \E id \in DOMAIN sc.mails : m = sc.mails[id]
    BY DEF Mails, Range
  <2>3. m.day \in Days /\ m.day # NoDay
    BY <2>2, ScenariosAssumption, DataAssumption
  <2>4. BuiltBackfill[m].occurred = m.day
    BY <1>2 DEF BuiltBackfill, BuildBackfillStimulus, GmailStimulus
  <2>5. QED
    BY <1>2, <2>3, <2>4 DEF WithDefaults
<1>3. ASSUME NEW p, s = BuildCLIStimulus(p) PROVE s.occurred \in Days
  BY <1>3, DataAssumption DEF BuildCLIStimulus
<1>4. ASSUME NEW sc \in Scenarios, NEW a \in sc.alerts, s = WithDefaults(a)
      PROVE  s.occurred \in Days
  BY <1>4, ScenariosAssumption, DataAssumption DEF WithDefaults
<1>5. QED
  BY <1>1, <1>2, <1>3, <1>4 DEF Stimuli

\* What is published keeps the name of what it is made of.
LEMMA PublishedAs ==
  /\ \A sc \in Scenarios : \A id \in DOMAIN sc.mails :
       LET m == sc.mails[id]
       IN  /\ m \in Mails
           /\ Built[m] # Failed => Built[m] \in Stimuli /\ Built[m].source = id
           /\ BuiltBackfill[m] # Failed =>
                /\ WithDefaults(BuiltBackfill[m]) \in Stimuli
                /\ WithDefaults(BuiltBackfill[m]).source = id
  /\ \A sc \in Scenarios : \A p \in sc.posts :
       BuildCLIStimulus(p) \in Stimuli /\ BuildCLIStimulus(p).source = p.id
  /\ \A sc \in Scenarios : \A s \in sc.alerts :
       WithDefaults(s) \in Stimuli /\ WithDefaults(s).source = s.source
<1>1. ASSUME NEW sc \in Scenarios, NEW id \in DOMAIN sc.mails, NEW m, m = sc.mails[id]
      PROVE  /\ m \in Mails
             /\ Built[m] # Failed => Built[m] \in Stimuli /\ Built[m].source = id
             /\ BuiltBackfill[m] # Failed =>
                  /\ WithDefaults(BuiltBackfill[m]) \in Stimuli
                  /\ WithDefaults(BuiltBackfill[m]).source = id
  <2>1. m \in Mails
    BY <1>1 DEF Mails, Range
  <2>2. m.id = id
    BY <1>1, ScenariosAssumption
  <2>3. Built[m] # Failed => Built[m] \in Stimuli /\ Built[m].source = id
    BY <2>1, <2>2 DEF Stimuli, Built, BuildStimulus, GmailStimulus
  <2>4. ASSUME BuiltBackfill[m] # Failed
        PROVE  /\ WithDefaults(BuiltBackfill[m]) \in Stimuli
               /\ WithDefaults(BuiltBackfill[m]).source = id
    <3>1. WithDefaults(BuiltBackfill[m]) \in Stimuli
      BY <2>1, <2>4 DEF Stimuli
    <3>2. WithDefaults(BuiltBackfill[m]).source = id
      BY <2>1, <2>2, <2>4
      DEF BuiltBackfill, BuildBackfillStimulus, GmailStimulus, WithDefaults
    <3>3. QED
      BY <3>1, <3>2
  <2>5. QED
    BY <2>1, <2>3, <2>4
<1>2. ASSUME NEW sc \in Scenarios, NEW p \in sc.posts
      PROVE  BuildCLIStimulus(p) \in Stimuli /\ BuildCLIStimulus(p).source = p.id
  <2>1. BuildCLIStimulus(p) \in Stimuli
    BY DEF Stimuli
  <2>2. BuildCLIStimulus(p).source = p.id
    BY DEF BuildCLIStimulus
  <2>3. QED
    BY <2>1, <2>2
<1>3. ASSUME NEW sc \in Scenarios, NEW s \in sc.alerts
      PROVE  WithDefaults(s) \in Stimuli /\ WithDefaults(s).source = s.source
  <2>1. WithDefaults(s) \in Stimuli
    BY DEF Stimuli
  <2>2. WithDefaults(s).source = s.source
    BY ScenariosAssumption DEF WithDefaults
  <2>3. QED
    BY <2>1, <2>2
<1>4. QED
  BY <1>1, <1>2, <1>3

LEMMA AskedTypes ==
  ASSUME NEW r \in Asked
  PROVE  /\ r.occurred \in Days /\ r.important \in BOOLEAN /\ r.events \in Seq(Dates)
         /\ r.source \in Names
         /\ r.hint = "process_school_event" => (r.important <=> r.events # <<>>)
         /\ r.hint # "process_school_event" => r.events = <<>>
<1>1. CASE r \in {ActionRequest(s, "process_school_event", e # <<>>, e) :
                    s \in Stimuli, e \in Seq(Dates)}
  <2>1. PICK s \in Stimuli, e \in Seq(Dates) :
          r = ActionRequest(s, "process_school_event", e # <<>>, e)
    BY <1>1
  <2>2. /\ r.occurred = s.occurred /\ r.important = (e # <<>>) /\ r.events = e
        /\ r.source = s.source /\ r.hint = "process_school_event"
    BY <2>1 DEF ActionRequest
  <2>3. QED
    BY <2>2, StimulusTypes DEF Names
<1>2. CASE r \in {ActionRequest(s, h, i, <<>>) :
                    s \in Stimuli, h \in Hints \ {"process_school_event"}, i \in BOOLEAN}
  <2>1. PICK s \in Stimuli, h \in Hints \ {"process_school_event"}, i \in BOOLEAN :
          r = ActionRequest(s, h, i, <<>>)
    BY <1>2
  <2>2. /\ r.occurred = s.occurred /\ r.important = i /\ r.events = <<>>
        /\ r.source = s.source /\ r.hint = h
    BY <2>1 DEF ActionRequest
  <2>3. <<>> \in Seq(Dates)
    OBVIOUS
  <2>4. QED
    BY <2>2, <2>3, StimulusTypes DEF Names
<1>3. QED
  BY <1>1, <1>2 DEF Asked

\* The first rule that matches, and what becomes of the stimulus.
LEMMA Processed ==
  ASSUME NEW s \in Stimuli, NEW reply \in Replies(s)
  PROVE  IF Process(s, reply) = NoRequest THEN Match(s) = <<>>
         ELSE Process(s, reply) \in Asked /\ Process(s, reply).source = s.source
<1> DEFINE matching == {i \in DOMAIN Registry : Matches(Registry[i], s)}
           first == CHOOSE i \in matching : \A j \in matching : i <= j
<1>1. CASE Match(s) = <<>>
  BY <1>1 DEF Process
<1>2. CASE Match(s) # <<>>
  <2>1. matching # {} /\ Match(s) = <<Registry[first]>>
    BY <1>2 DEF Match
  <2>2. DOMAIN Registry = 1..6
    BY DEF Registry
  <2>3. \E i \in matching : \A j \in matching : i <= j
    <3> HIDE DEF matching
    <3>1. matching \subseteq {1, 2, 3, 4, 5, 6}
      BY <2>2 DEF matching
    <3>2. CASE 1 \in matching
      BY <3>1, <3>2
    <3>3. CASE 1 \notin matching /\ 2 \in matching
      BY <3>1, <3>3
    <3>4. CASE {1, 2} \cap matching = {} /\ 3 \in matching
      BY <3>1, <3>4
    <3>5. CASE {1, 2, 3} \cap matching = {} /\ 4 \in matching
      BY <3>1, <3>5
    <3>6. CASE {1, 2, 3, 4} \cap matching = {} /\ 5 \in matching
      BY <3>1, <3>6
    <3>7. CASE matching = {6}
      BY <3>7
    <3>8. QED
      BY <2>1, <3>1, <3>2, <3>3, <3>4, <3>5, <3>6, <3>7
  <2>4. first \in 1..6
    <3>1. first \in matching
      BY <2>3
    <3>2. QED
      BY <2>2, <3>1
  <2>5. Match(s)[1] \in {"school-email", "error-report", "gmail-triage", "cli-note",
                         "system-monitor", "log-error"}
    <3> HIDE DEF first
    <3>1. Registry[first] \in {"school-email", "error-report", "gmail-triage", "cli-note",
                               "system-monitor", "log-error"}
      BY <2>4 DEF Registry
    <3>2. QED
      BY <2>1, <3>1
  <2> HIDE DEF first, matching
  <2>6. Match(s) = <<Match(s)[1]>>
    BY <2>1
  <2>7. ASSUME NEW h \in Hints \ {"process_school_event"}, NEW i \in BOOLEAN,
               Process(s, reply) = ActionRequest(s, h, i, <<>>)
        PROVE  Process(s, reply) \in Asked /\ Process(s, reply).source = s.source
    BY <2>7 DEF Asked, ActionRequest
  <2>8. CASE Match(s)[1] = "school-email"
    <3> DEFINE events == ExtractSchoolEvents(reply)
    <3>1. Match(s) = <<"school-email">>
      BY <2>6, <2>8
    <3>2. reply \in Extractions \cup {Unavailable}
      BY <3>1 DEF Replies
    <3>3. events \in Seq(Dates)
      BY <3>2, DataAssumption DEF ExtractSchoolEvents, Dates
    <3>4. Process(s, reply) = ActionRequest(s, "process_school_event", events # <<>>, events)
      BY <1>2, <2>8 DEF Process, HandleSchoolEmail
    <3> HIDE DEF events
    <3>5. Process(s, reply) \in Asked
      BY <3>3, <3>4 DEF Asked
    <3>6. Process(s, reply).source = s.source /\ Process(s, reply).hint # "none"
      BY <3>4 DEF ActionRequest
    <3>7. QED
      BY <3>5, <3>6 DEF NoRequest
  <2>9. CASE Match(s)[1] = "gmail-triage"
    <3>1. Match(s) = <<"gmail-triage">>
      BY <2>6, <2>9
    <3>2. reply \in BOOLEAN \cup {Unavailable}
      BY <3>1 DEF Replies
    <3>3. ClassifyImportance(reply) \in BOOLEAN
      BY <3>2 DEF ClassifyImportance
    <3>4. Process(s, reply) =
            ActionRequest(s, "triage_gmail_email", ClassifyImportance(reply), <<>>)
      BY <1>2, <2>9 DEF Process, HandleGmailTriage
    <3>5. QED
      BY <2>7, <3>3, <3>4 DEF Hints, NoRequest, ActionRequest
  <2>10. CASE Match(s)[1] \in {"error-report", "cli-note", "system-monitor", "log-error"}
    <3> DEFINE important == IF Match(s)[1] = "system-monitor"
                            THEN SystemMonitorImportant(s) ELSE TRUE
    <3>1. important \in BOOLEAN
      <4>1. CASE Match(s)[1] = "system-monitor" /\ s.severity \in {"critical", "ok"}
        BY <4>1 DEF SystemMonitorImportant
      <4>2. CASE Match(s)[1] = "system-monitor" /\ s.severity \notin {"critical", "ok"}
        BY <4>2 DEF SystemMonitorImportant
      <4>3. CASE Match(s)[1] # "system-monitor"
        BY <4>3
      <4>4. QED
        BY <4>1, <4>2, <4>3
    <3>2. Process(s, reply) =
            ActionRequest(s, "append_daily_report_entry", important, <<>>)
      <4>1. CASE Match(s)[1] = "system-monitor"
        BY <1>2, <4>1 DEF Process, HandleSystemMonitor, ReportEntry
      <4>2. CASE Match(s)[1] \in {"error-report", "cli-note", "log-error"}
        BY <1>2, <4>2
        DEF Process, HandleErrorReport, HandleCLINote, HandleLogError, ReportEntry
      <4>3. QED
        BY <2>10, <4>1, <4>2
    <3> HIDE DEF important
    <3>3. QED
      BY <2>7, <3>1, <3>2 DEF Hints, NoRequest, ActionRequest
  <2>11. QED
    BY <2>5, <2>8, <2>9, <2>10
<1>3. QED
  BY <1>1, <1>2

-----------------------------------------------------------------------------
(* Counting in a buffer *)

LEMMA UpToFinite ==
  ASSUME NEW n \in Nat
  PROVE  IsFiniteSet(1..n)
BY FS_Interval

LEMMA PlacesTypes ==
  ASSUME NEW b \in Seq(Nat), NEW S, NEW m \in {1, 2}
  PROVE  /\ Places(b, S, m) \subseteq 1..Len(b)
         /\ IsFiniteSet(Places(b, S, m)) /\ Cardinality(Places(b, S, m)) \in Nat
<1>1. Places(b, S, m) \subseteq 1..Len(b) /\ Len(b) \in Nat
  BY DEF Places
<1>2. IsFiniteSet(1..Len(b))
  BY <1>1, UpToFinite
<1>3. QED
  BY <1>1, <1>2, FS_Subset, FS_CardinalityType

LEMMA PlacesAppend ==
  ASSUME NEW b \in Seq(Nat), NEW n \in Nat, NEW S, NEW m \in {1, 2}, m = 2 => b # <<>>
  PROVE  Cardinality(Places(Append(b, n), S, m)) =
           Cardinality(Places(b, S, m)) + (IF n \in S THEN 1 ELSE 0)
<1> DEFINE old == Places(b, S, m)
           new == Places(Append(b, n), S, m)
           l == Len(b) + 1
<1>1. /\ Len(b) \in Nat /\ DOMAIN b = 1..Len(b) /\ m = 2 => Len(b) # 0
      /\ DOMAIN Append(b, n) = 1..l /\ Append(b, n)[l] = n
      /\ \A k \in 1..Len(b) : Append(b, n)[k] = b[k]
  OBVIOUS
<1>2. IsFiniteSet(old) /\ l \notin old /\ Cardinality(old) \in Nat
  <2>1. old \subseteq 1..Len(b)
    BY <1>1 DEF Places
  <2>2. QED
    BY <1>1, <2>1, PlacesTypes
<1>3. CASE n \in S
  <2>1. new = old \cup {l}
    BY <1>1, <1>3 DEF Places
  <2> HIDE DEF new, old, l
  <2>2. Cardinality(new) = Cardinality(old) + 1
    BY <1>2, <2>1, FS_AddElement
  <2>3. QED
    BY <1>3, <2>2 DEF new, old
<1>4. CASE n \notin S
  <2>1. new = old
    BY <1>1, <1>4 DEF Places
  <2>2. QED
    BY <1>2, <1>4, <2>1
<1>5. QED
  BY <1>3, <1>4

LEMMA PlacesTail ==
  ASSUME NEW b \in Seq(Nat), b # <<>>, NEW S
  PROVE  Cardinality(Places(Tail(b), S, 1)) = Cardinality(Places(b, S, 2))
<1> DEFINE T == Places(Tail(b), S, 1)
           U == Places(b, S, 2)
           f == [k \in T |-> k + 1]
<1>1. /\ Len(b) \in Nat \ {0} /\ DOMAIN b = 1..Len(b)
      /\ Tail(b) \in Seq(Nat) /\ DOMAIN Tail(b) = 1..(Len(b) - 1)
      /\ \A k \in 1..(Len(b) - 1) : Tail(b)[k] = b[k + 1]
  OBVIOUS
<1>2. \A k \in T : k \in Nat /\ k + 1 \in U
  BY <1>1 DEF Places
<1>3. \A k \in U : k - 1 \in T /\ k - 1 \in Nat /\ k = (k - 1) + 1
  BY <1>1 DEF Places
<1> HIDE DEF T, U
<1>4. f \in Bijection(T, U)
  BY <1>2, <1>3 DEF Bijection, Injection, Surjection, IsInjective
<1>5. ExistsBijection(T, U)
  BY <1>4 DEF ExistsBijection
<1>6. IsFiniteSet(T)
  BY <1>1, PlacesTypes DEF T
<1>7. Cardinality(T) = Cardinality(U)
  BY <1>5, <1>6, FS_Bijection
<1>8. QED
  BY <1>7 DEF T, U

LEMMA PlacesHead ==
  ASSUME NEW b \in Seq(Nat), b # <<>>, NEW S
  PROVE  Cardinality(Places(b, S, 1)) =
           Cardinality(Places(b, S, 2)) + (IF Head(b) \in S THEN 1 ELSE 0)
<1> DEFINE T == Places(b, S, 1)
           U == Places(b, S, 2)
<1>1. U = T \ {1} /\ (1 \in T <=> Head(b) \in S)
  BY DEF Places
<1>2. IsFiniteSet(T) /\ Cardinality(T) \in Nat
  BY PlacesTypes
<1> HIDE DEF T, U
<1>3. Cardinality(U) = IF 1 \in T THEN Cardinality(T) - 1 ELSE Cardinality(T)
  BY <1>1, <1>2, FS_RemoveElement
<1>4. QED
  BY <1>1, <1>2, <1>3 DEF T, U

\* What is in the buffer has a place there.
LEMMA PlacesCover ==
  ASSUME NEW b \in Seq(Nat), NEW S, NEW T \in SUBSET S, T \subseteq Range(b)
  PROVE  IsFiniteSet(T) /\ Cardinality(T) <= Cardinality(Places(b, S, 1))
<1> DEFINE f == [k \in Places(b, T, 1) |-> b[k]]
<1>1. f \in Surjection(Places(b, T, 1), T)
  BY DEF Surjection, Places, Range
<1>2. Places(b, T, 1) \subseteq Places(b, S, 1)
  BY DEF Places
<1>3. IsFiniteSet(T) /\ Cardinality(T) <= Cardinality(Places(b, T, 1))
  BY <1>1, PlacesTypes, FS_Surjection
<1>4. Cardinality(Places(b, T, 1)) <= Cardinality(Places(b, S, 1))
  BY <1>2, PlacesTypes, FS_Subset
<1>5. QED
  BY <1>3, <1>4, PlacesTypes, FS_CardinalityType

LEMMA WeightType ==
  ASSUME NEW S, IsFiniteSet(S), NEW gone, NEW b \in Seq(Nat), NEW m \in {1, 2}
  PROVE  /\ Weight(S, gone, b, m) \in Nat
         /\ IsFiniteSet(S \ gone) /\ Cardinality(S \ gone) \in Nat
         /\ Cardinality(Places(b, S, m)) \in Nat
<1>1. IsFiniteSet(S \ gone) /\ Cardinality(S \ gone) \in Nat
  BY FS_Subset, FS_CardinalityType
<1>2. Cardinality(Places(b, S, m)) \in Nat
  BY PlacesTypes
<1>3. QED
  BY <1>1, <1>2 DEF Weight

\* What is delivered moves from the stream to the buffer.
LEMMA WeightDeliver ==
  ASSUME NEW S, IsFiniteSet(S), NEW gone, NEW b \in Seq(Nat), NEW m \in {1, 2},
         m = 2 => b # <<>>, NEW n \in Nat, n \notin gone
  PROVE  Weight(S, gone \cup {n}, Append(b, n), m) = Weight(S, gone, b, m)
<1> DEFINE due  == S \ gone
           left == S \ (gone \cup {n})
<1>1. left = due \ {n} /\ (n \in S <=> n \in due)
  OBVIOUS
<1>2. IsFiniteSet(due) /\ Cardinality(due) \in Nat
  BY FS_Subset, FS_CardinalityType
<1>3. /\ Weight(S, gone, b, m) = Cardinality(due) + Cardinality(Places(b, S, m))
      /\ Weight(S, gone \cup {n}, Append(b, n), m) =
           Cardinality(left) + Cardinality(Places(Append(b, n), S, m))
  BY DEF Weight
<1> HIDE DEF due, left
<1>4. Cardinality(left) = IF n \in due THEN Cardinality(due) - 1 ELSE Cardinality(due)
  BY <1>1, <1>2, FS_RemoveElement
<1>5. Cardinality(Places(b, S, m)) \in Nat
  BY PlacesTypes
<1>6. QED
  BY <1>1, <1>2, <1>3, <1>4, <1>5, PlacesAppend

\* One message more that is to be delivered.
LEMMA WeightAgain ==
  ASSUME NEW S, IsFiniteSet(S), NEW gone, NEW b \in Seq(Nat), NEW m \in {1, 2},
         NEW n, NEW left, gone \ {n} \subseteq left
  PROVE  Weight(S, left, b, m) <= Weight(S, gone, b, m) + 1
<1> DEFINE due == S \ gone
           new == S \ left
<1>1. new \subseteq due \cup {n}
  OBVIOUS
<1>2. IsFiniteSet(due) /\ Cardinality(due) \in Nat /\ Cardinality(new) \in Nat
  BY FS_Subset, FS_CardinalityType
<1>3. /\ Weight(S, gone, b, m) = Cardinality(due) + Cardinality(Places(b, S, m))
      /\ Weight(S, left, b, m) = Cardinality(new) + Cardinality(Places(b, S, m))
  BY DEF Weight
<1> HIDE DEF due, new
<1>4. /\ IsFiniteSet(due \cup {n})
      /\ Cardinality(due \cup {n}) = IF n \in due THEN Cardinality(due) ELSE Cardinality(due) + 1
  BY <1>2, FS_AddElement
<1>5. Cardinality(new) <= Cardinality(due \cup {n})
  BY <1>1, <1>4, FS_Subset
<1>6. Cardinality(Places(b, S, m)) \in Nat
  BY PlacesTypes
<1>7. QED
  BY <1>2, <1>3, <1>4, <1>5, <1>6

\* The head leaves the buffer when its handler is past what counts.
LEMMA WeightAck ==
  ASSUME NEW S, IsFiniteSet(S), NEW gone, NEW b \in Seq(Nat), b # <<>>,
         NEW left, gone \subseteq left
  PROVE  Weight(S, left, Tail(b), 1) <= Weight(S, gone, b, 2)
<1> DEFINE due == S \ gone
           new == S \ left
<1>1. new \subseteq due
  OBVIOUS
<1>2. IsFiniteSet(due) /\ Cardinality(due) \in Nat /\ Cardinality(new) \in Nat
  BY FS_Subset, FS_CardinalityType
<1>3. /\ Weight(S, gone, b, 2) = Cardinality(due) + Cardinality(Places(b, S, 2))
      /\ Weight(S, left, Tail(b), 1) =
           Cardinality(new) + Cardinality(Places(Tail(b), S, 1))
  BY DEF Weight
<1> HIDE DEF due, new
<1>4. Cardinality(new) <= Cardinality(due)
  BY <1>1, <1>2, FS_Subset
<1>5. Cardinality(Places(b, S, 2)) \in Nat
  BY PlacesTypes
<1>6. QED
  BY <1>2, <1>3, <1>4, <1>5, PlacesTail

\* The handler gets past what counts, with the head.
LEMMA WeightHead ==
  ASSUME NEW S, IsFiniteSet(S), NEW gone, NEW b \in Seq(Nat), b # <<>>
  PROVE  Weight(S, gone, b, 1) =
           Weight(S, gone, b, 2) + (IF Head(b) \in S THEN 1 ELSE 0)
<1>1. /\ Cardinality(S \ gone) \in Nat /\ Cardinality(Places(b, S, 2)) \in Nat
      /\ Cardinality(Places(b, S, 1)) \in Nat
  BY WeightType
<1>2. QED
  BY <1>1, PlacesHead DEF Weight

\* The buffer is lost: what was in it is delivered again, and only the head may
\* have been counted.
LEMMA WeightRestart ==
  ASSUME NEW S, IsFiniteSet(S), NEW kept, NEW gone, NEW b \in Seq(Nat),
         NEW m \in {1, 2}, gone \subseteq Range(b)
  PROVE  Weight(S, kept, <<>>, 1) <= Weight(S, kept \cup gone, b, m) + 1
<1> DEFINE due   == S \ (kept \cup gone)
           again == S \cap gone
           new   == S \ kept
<1>1. new \subseteq due \cup again /\ again \in SUBSET S /\ again \subseteq Range(b)
  OBVIOUS
<1>2. IsFiniteSet(due) /\ Cardinality(due) \in Nat /\ Cardinality(new) \in Nat
  BY FS_Subset, FS_CardinalityType
<1>3. /\ Weight(S, kept \cup gone, b, m) =
           Cardinality(due) + Cardinality(Places(b, S, m))
      /\ Weight(S, kept, <<>>, 1) =
           Cardinality(new) + Cardinality(Places(<<>>, S, 1))
  BY DEF Weight
<1> HIDE DEF due, again, new
<1>4. /\ IsFiniteSet(again) /\ Cardinality(again) \in Nat
      /\ Cardinality(again) <= Cardinality(Places(b, S, 1))
  BY <1>1, PlacesCover, FS_CardinalityType
<1>5. Cardinality(new) <= Cardinality(due) + Cardinality(again)
  <2>1. /\ IsFiniteSet(due \cup again) /\ Cardinality(due \cap again) \in Nat
        /\ Cardinality(due \cup again) =
             Cardinality(due) + Cardinality(again) - Cardinality(due \cap again)
    BY <1>2, <1>4, FS_Union, FS_Subset, FS_CardinalityType
  <2>2. Cardinality(new) <= Cardinality(due \cup again)
    BY <1>1, <2>1, FS_Subset
  <2>3. QED
    BY <1>2, <1>4, <2>1, <2>2
<1>6. Cardinality(Places(b, S, 1)) <= Cardinality(Places(b, S, m)) + 1
  <2>1. CASE m = 2 /\ b = <<>>
    <3>1. Places(b, S, 1) = {}
      BY <2>1 DEF Places
    <3>2. QED
      BY <3>1, FS_EmptySet, PlacesTypes
  <2>2. CASE m = 2 /\ b # <<>>
    <3>1. Places(b, S, m) = Places(b, S, 2) /\ Cardinality(Places(b, S, 2)) \in Nat
      BY <2>2, PlacesTypes
    <3>2. QED
      BY <2>2, <3>1, PlacesHead
  <2>3. CASE m = 1
    <3>1. Places(b, S, m) = Places(b, S, 1) /\ Cardinality(Places(b, S, 1)) \in Nat
      BY <2>3, PlacesTypes
    <3>2. QED
      BY <3>1
  <2>4. QED
    BY <2>1, <2>2, <2>3
<1>7. Cardinality(Places(<<>>, S, 1)) = 0
  <2>1. Places(<<>>, S, 1) = {}
    BY DEF Places
  <2>2. QED
    BY <2>1, FS_EmptySet
<1>8. Cardinality(Places(b, S, 1)) \in Nat /\ Cardinality(Places(b, S, m)) \in Nat
  BY PlacesTypes
<1>9. QED
  BY <1>2, <1>3, <1>4, <1>5, <1>6, <1>7, <1>8

\* One message more in the stream.
LEMMA WeightPublish ==
  ASSUME NEW S, IsFiniteSet(S), NEW gone, NEW b \in Seq(Nat), NEW m \in {1, 2},
         NEW n, n \notin S, n \notin gone, n \notin Range(b)
  PROVE  Weight(S \cup {n}, gone, b, m) = Weight(S, gone, b, m) + 1
<1> DEFINE due == S \ gone
           new == (S \cup {n}) \ gone
<1>1. new = due \cup {n} /\ n \notin due
  OBVIOUS
<1>2. IsFiniteSet(due) /\ Cardinality(due) \in Nat
  BY FS_Subset, FS_CardinalityType
<1>3. Places(b, S \cup {n}, m) = Places(b, S, m)
  BY DEF Places, Range
<1>4. /\ Weight(S, gone, b, m) = Cardinality(due) + Cardinality(Places(b, S, m))
      /\ Weight(S \cup {n}, gone, b, m) =
           Cardinality(new) + Cardinality(Places(b, S, m))
  BY <1>3 DEF Weight
<1> HIDE DEF due, new
<1>5. Cardinality(new) = Cardinality(due) + 1
  BY <1>1, <1>2, FS_AddElement
<1>6. Cardinality(Places(b, S, m)) \in Nat
  BY PlacesTypes
<1>7. QED
  BY <1>2, <1>4, <1>5, <1>6

-----------------------------------------------------------------------------
(* Writing to a report *)

\* The file f has what was in file, and at most one block more, of n.
Extends(file, f, n) ==
  /\ f \in Seq(Blocks) /\ Len(f) \in {Len(file), Len(file) + 1}
  /\ \A k \in 1..Len(file) : f[k].of = file[k].of /\ f[k].whole = file[k].whole
  /\ Len(f) = Len(file) + 1 => f[Len(f)].of = n
  /\ WellSeparated(file) => WellSeparated(f)

LEMMA SeparatedIsTwo == \A n \in Nat : Separated(n) = 2 /\ Truncated(n) \in Nat
  BY DEF Separated, Truncated

LEMMA SetNewlinesExtends ==
  ASSUME NEW file \in Seq(Blocks), NEW n \in Nat, NEW j
  PROVE  /\ Extends(file, SetNewlines(file, n), j)
         /\ Len(SetNewlines(file, n)) = Len(file)
         /\ file # <<>> => SetNewlines(file, n)[Len(file)].newlines = n
<1>1. CASE file = <<>>
  BY <1>1 DEF SetNewlines, Extends
<1>2. CASE file # <<>>
  <2> DEFINE l == Len(file)
             f == SetNewlines(file, n)
             last == [file[l] EXCEPT !.newlines = n]
  <2>1. l \in Nat \ {0} /\ file[l] \in Blocks /\ DOMAIN file = 1..l
    BY <1>2
  <2>2. last \in Blocks /\ last.of = file[l].of /\ last.whole = file[l].whole /\ last.newlines = n
    BY <2>1 DEF Blocks
  <2>3. f = [file EXCEPT ![l] = last]
    BY <1>2 DEF SetNewlines
  <2> HIDE DEF last, f
  <2>4. f \in Seq(Blocks) /\ Len(f) = l
    BY <2>1, <2>2, <2>3
  <2>5. f[l] = last /\ \A k \in 1..l : k # l => f[k] = file[k]
    <3>1. l \in DOMAIN file
      BY <2>1
    <3> HIDE DEF l
    <3>2. QED
      BY <2>1, <2>3, <3>1
  <2>6. \A k \in 1..l : f[k].of = file[k].of /\ f[k].whole = file[k].whole
    BY <2>2, <2>5
  <2> HIDE DEF l
  <2>7. \A k \in 1..(l - 1) : k \in 1..l /\ k # l
    BY <2>1
  <2>8. WellSeparated(file) => WellSeparated(f)
    BY <2>4, <2>5, <2>7 DEF WellSeparated, l
  <2>9. Len(f) = Len(file) /\ f[Len(file)].newlines = n
    BY <2>2, <2>4, <2>5 DEF l
  <2>10. l # l + 1
    BY <2>1
  <2>11. Extends(file, f, j)
    BY <2>4, <2>6, <2>8, <2>10 DEF Extends, l
  <2>12. QED
    BY <2>9, <2>11 DEF f
<1>3. QED
  BY <1>1, <1>2

\* Whatever the file ends in, a blank line comes before the new entry.
LEMMA AppendEntryExtends ==
  ASSUME NEW file \in Seq(Blocks), NEW entry \in Blocks
  PROVE  /\ Extends(file, AppendEntry(file, entry), entry.of)
         /\ Len(AppendEntry(file, entry)) = Len(file) + 1
         /\ AppendEntry(file, entry)[Len(file) + 1] = entry
<1> DEFINE n == Newlines(file)
           g == SetNewlines(file, Separated(n))
           f == AppendEntry(file, entry)
           l == Len(file)
<1>1. l \in Nat /\ (file # <<>> => l # 0)
  OBVIOUS
<1>2. n \in Nat
  <2>1. CASE file = <<>>
    BY <2>1 DEF Newlines
  <2>2. CASE file # <<>>
    <3>1. file[l] \in Blocks
      BY <1>1, <2>2
    <3>2. QED
      BY <2>2, <3>1 DEF Newlines, Last, Blocks
  <2>3. QED
    BY <2>1, <2>2
<1>3. Separated(n) = 2
  BY <1>2, SeparatedIsTwo
<1>4. /\ Extends(file, g, entry.of) /\ Len(g) = l
      /\ file # <<>> => g[l].newlines = 2
  BY <1>3, SetNewlinesExtends
<1>5. f = Append(g, entry) /\ g \in Seq(Blocks)
  BY <1>4 DEF AppendEntry, Extends
<1> HIDE DEF f, g, n
<1>6. /\ f \in Seq(Blocks) /\ Len(f) = l + 1 /\ f[l + 1] = entry
      /\ \A k \in 1..l : f[k] = g[k]
  BY <1>1, <1>4, <1>5
<1>7. \A k \in 1..l : f[k].of = file[k].of /\ f[k].whole = file[k].whole
  BY <1>4, <1>6 DEF Extends
<1>8. ASSUME WellSeparated(file) PROVE WellSeparated(f)
  <2>1. \A k \in 1..(l - 1) : g[k].newlines = 2
    BY <1>4, <1>8 DEF Extends, WellSeparated
  <2>2. \A k \in 1..l : k \in 1..(l - 1) \/ (k = l /\ file # <<>>)
    BY <1>1
  <2>3. \A k \in 1..l : f[k].newlines = 2
    BY <1>4, <1>6, <2>1, <2>2
  <2>4. QED
    BY <1>1, <1>6, <2>3 DEF WellSeparated
<1>9. QED
  BY <1>1, <1>6, <1>7, <1>8 DEF Extends, f

\* A failed append leaves no whole entry more.
LEMMA PartialAppendExtends ==
  ASSUME NEW file \in Seq(Blocks), NEW entry \in Blocks,
         NEW f \in PartialAppends(file, entry)
  PROVE  /\ Extends(file, f, entry.of)
         /\ Len(f) = Len(file) + 1 => ~f[Len(f)].whole
<1>1. CASE f = file
  BY <1>1 DEF Extends
<1>2. ASSUME NEW n \in Truncated(Newlines(file))..2, f = SetNewlines(file, n)
      PROVE  Extends(file, f, entry.of) /\ Len(f) = Len(file)
  <2>1. n \in Nat
    <3>1. Newlines(file) \in Nat
      <4>1. CASE file = <<>>
        BY <4>1 DEF Newlines
      <4>2. CASE file # <<>>
        <5>1. file[Len(file)] \in Blocks
          BY <4>2
        <5>2. QED
          BY <4>2, <5>1 DEF Newlines, Last, Blocks
      <4>3. QED
        BY <4>1, <4>2
    <3>2. QED
      BY <3>1, SeparatedIsTwo
  <2>2. QED
    BY <1>2, <2>1, SetNewlinesExtends
<1>3. ASSUME NEW n \in 0..1,
             f = AppendEntry(file, [entry EXCEPT !.whole = FALSE, !.newlines = n])
      PROVE  /\ Extends(file, f, entry.of)
             /\ Len(f) = Len(file) + 1 => ~f[Len(f)].whole
  <2> DEFINE part == [entry EXCEPT !.whole = FALSE, !.newlines = n]
  <2>1. part.of = entry.of /\ part.whole = FALSE /\ part.newlines = n
    BY DEF Blocks
  <2>2. part = [of |-> entry.of, whole |-> FALSE, newlines |-> n] /\ n \in Nat /\ entry.of \in Nat
    <3>1. entry = [of |-> entry.of, whole |-> entry.whole, newlines |-> entry.newlines]
      BY DEF Blocks
    <3>2. part = [[of |-> entry.of, whole |-> entry.whole, newlines |-> entry.newlines]
                     EXCEPT !.whole = FALSE, !.newlines = n]
      BY <3>1, Zenon
    <3>3. n \in Nat /\ entry.of \in Nat
      BY DEF Blocks
    <3> HIDE DEF part
    <3>4. QED
      BY <3>2, <3>3
  <2>3. part \in Blocks
    BY <2>2 DEF Blocks
  <2> HIDE DEF part
  <2>4. f = AppendEntry(file, part)
    BY <1>3 DEF part
  <2>5. QED
    BY <2>1, <2>3, <2>4, AppendEntryExtends
<1>4. QED
  BY <1>1, <1>2, <1>3 DEF PartialAppends

-----------------------------------------------------------------------------
(* Nothing that was written is taken back *)

StreamStep ==
  \/ UNCHANGED stream
  \/ \E c \in Consumers : \E msg \in Msgs(c) : PublishTo(c, msg)

StreamsGrow ==
  \A c \in Consumers :
    /\ Len(stream[c]) <= Len(stream'[c])
    /\ \A n \in DOMAIN stream[c] : n \in DOMAIN stream'[c] /\ stream'[c][n] = stream[c][n]

LEMMA MessageTypes ==
  /\ Msgs("thinking") = Stimuli
  /\ Msgs("action") = [of : Nat, req : Asked]
  /\ Msgs("memory") = [of : Nat, source : Names, status : {"success", "failed"}]
  BY DEF Msgs

\* One message more, the others where they were.
LEMMA OneMessageMore ==
  ASSUME Streams, NEW c \in Consumers, NEW msg \in Msgs(c), PublishTo(c, msg)
  PROVE  /\ Streams'
         /\ stream'[c] = Append(stream[c], msg)
         /\ Len(stream'[c]) = Len(stream[c]) + 1 /\ Len(stream[c]) \in Nat
         /\ DOMAIN stream[c] = 1..Len(stream[c])
         /\ DOMAIN stream'[c] = 1..(Len(stream[c]) + 1)
         /\ stream'[c][Len(stream[c]) + 1] = msg
         /\ \A n \in DOMAIN stream[c] : stream'[c][n] = stream[c][n]
         /\ \A d \in Consumers \ {c} : stream'[d] = stream[d]
<1> DEFINE All == UNION {Msgs(d) : d \in Consumers}
           s == stream[c]
<1>1. stream' = [stream EXCEPT ![c] = Append(s, msg)]
  BY DEF PublishTo
<1>2. stream \in [Consumers -> Seq(All)] /\ s \in Seq(Msgs(c)) /\ s \in Seq(All) /\ msg \in All
  BY DEF Streams
<1> HIDE DEF All
<1>3. \A d \in Consumers \ {c} : stream'[d] = stream[d]
  BY <1>1, <1>2
<1>4. stream'[c] = Append(s, msg)
  BY <1>1, <1>2
<1> HIDE DEF s
<1>5. Append(s, msg) \in Seq(Msgs(c)) /\ Append(s, msg) \in Seq(All)
  BY <1>2
<1>6. stream' \in [Consumers -> Seq(All)]
  BY <1>1, <1>2, <1>5
<1>7. \A d \in Consumers : stream'[d] \in Seq(Msgs(d))
  BY <1>3, <1>4, <1>5 DEF Streams
<1>8. Streams'
  BY <1>6, <1>7 DEF Streams, All
<1>9. /\ Len(Append(s, msg)) = Len(s) + 1 /\ Len(s) \in Nat
      /\ DOMAIN s = 1..Len(s) /\ DOMAIN Append(s, msg) = 1..(Len(s) + 1)
      /\ Append(s, msg)[Len(s) + 1] = msg
      /\ \A n \in DOMAIN s : Append(s, msg)[n] = s[n]
  BY <1>2
<1>10. QED
  BY <1>3, <1>4, <1>8, <1>9 DEF s

LEMMA StreamsStay ==
  ASSUME Streams, StreamStep
  PROVE  Streams' /\ StreamsGrow
<1>0. \A c \in Consumers : Len(stream[c]) \in Nat /\ DOMAIN stream[c] = 1..Len(stream[c])
  BY DEF Streams
<1>1. CASE UNCHANGED stream
  <2>1. Streams'
    BY <1>1 DEF Streams
  <2>2. QED
    BY <1>0, <1>1, <2>1 DEF StreamsGrow
<1>2. ASSUME NEW c \in Consumers, NEW msg \in Msgs(c), PublishTo(c, msg)
      PROVE  Streams' /\ StreamsGrow
  <2>1. ASSUME NEW d \in Consumers
        PROVE  /\ Len(stream[d]) <= Len(stream'[d])
               /\ \A n \in DOMAIN stream[d] :
                    n \in DOMAIN stream'[d] /\ stream'[d][n] = stream[d][n]
    <3>1. CASE d = c
      BY <1>2, <3>1, OneMessageMore
    <3>2. CASE d # c
      BY <1>0, <1>2, <3>2, OneMessageMore
    <3>3. QED
      BY <3>1, <3>2
  <2>2. Streams'
    BY <1>2, OneMessageMore
  <2>3. QED
    BY <2>1, <2>2 DEF StreamsGrow
<1>3. QED
  BY <1>1, <1>2 DEF StreamStep

\* The message a handler is at.
LEMMA AtWork ==
  ASSUME Streams, Buffers, NEW c \in Consumers, buf[c] # <<>>
  PROVE  /\ Seq1(c) \in Nat /\ Seq1(c) \in DOMAIN stream[c] /\ Seq1(c) \in Range(buf[c])
         /\ Message(c) \in Msgs(c)
<1>1. buf[c] \in Seq(Nat)
  BY DEF Buffers
<1>2. 1 \in DOMAIN buf[c] /\ Head(buf[c]) = buf[c][1] /\ Head(buf[c]) \in Nat
  BY <1>1
<1>3. Seq1(c) \in Range(buf[c])
  BY <1>2 DEF Seq1, Range
<1>4. Seq1(c) \in DOMAIN stream[c]
  BY <1>3 DEF Buffers
<1>5. stream[c] \in Seq(Msgs(c))
  BY DEF Streams
<1>6. Message(c) \in Msgs(c)
  BY <1>4, <1>5 DEF Message
<1>7. QED
  BY <1>2, <1>3, <1>4, <1>6 DEF Seq1

\* What is published belongs on the stream it is published to.
LEMMA RightMessages ==
  ASSUME PTypes
  PROVE  /\ \A id \in DOMAIN mailbox :
              /\ Built[mailbox[id]] # Failed =>
                   Built[mailbox[id]] \in Msgs("thinking") /\ Built[mailbox[id]].source = id
              /\ BuiltBackfill[mailbox[id]] # Failed =>
                   /\ WithDefaults(BuiltBackfill[mailbox[id]]) \in Msgs("thinking")
                   /\ WithDefaults(BuiltBackfill[mailbox[id]]).source = id
         /\ \A p \in posts :
              BuildCLIStimulus(p) \in Msgs("thinking") /\ BuildCLIStimulus(p).source = p.id
         /\ \A s \in alerts :
              WithDefaults(s) \in Msgs("thinking") /\ WithDefaults(s).source = s.source
         /\ pc["thinking"] = "publish" => Request \in Msgs("action")
         /\ pc["action"] \in {"effects", "publish", "ack", "retry"} => Req \in Asked
         /\ pc["action"] = "publish" => Outcome \in Msgs("memory")
<1>1. PICK sc \in Scenarios :
        mailbox = sc.mails /\ posts \subseteq sc.posts /\ alerts \subseteq sc.alerts
  BY DEF PTypes, Scenario
<1>2. ASSUME NEW id \in DOMAIN mailbox
      PROVE  /\ Built[mailbox[id]] # Failed =>
                  Built[mailbox[id]] \in Msgs("thinking") /\ Built[mailbox[id]].source = id
             /\ BuiltBackfill[mailbox[id]] # Failed =>
                  /\ WithDefaults(BuiltBackfill[mailbox[id]]) \in Msgs("thinking")
                  /\ WithDefaults(BuiltBackfill[mailbox[id]]).source = id
  BY <1>1, PublishedAs, MessageTypes
<1>3. ASSUME NEW p \in posts
      PROVE  BuildCLIStimulus(p) \in Msgs("thinking") /\ BuildCLIStimulus(p).source = p.id
  BY <1>1, PublishedAs, MessageTypes
<1>4. ASSUME NEW s \in alerts
      PROVE  WithDefaults(s) \in Msgs("thinking") /\ WithDefaults(s).source = s.source
  BY <1>1, PublishedAs, MessageTypes
<1>5. ASSUME pc["thinking"] = "publish" PROVE Request \in Msgs("action")
  <2>1. buf["thinking"] # <<>> /\ request \in Asked
    BY <1>5 DEF PTypes, Handlers, Consumers
  <2>2. Seq1("thinking") \in Nat
    BY <2>1, AtWork DEF PTypes, Consumers
  <2>3. QED
    BY <2>1, <2>2, MessageTypes DEF Request
<1>6. ASSUME pc["action"] \in {"effects", "publish", "ack", "retry"} PROVE Req \in Asked
  <2>1. buf["action"] # <<>>
    BY <1>6 DEF PTypes, Handlers, Consumers
  <2>2. Message("action") \in Msgs("action")
    BY <2>1, AtWork DEF PTypes, Consumers
  <2>3. QED
    BY <2>2, MessageTypes DEF Req
<1>7. ASSUME pc["action"] = "publish" PROVE Outcome \in Msgs("memory")
  <2>1. buf["action"] # <<>> /\ entryStatus \in {"success", "failed"}
    BY <1>7 DEF PTypes, Handlers, Consumers
  <2>2. Seq1("action") \in Nat
    BY <2>1, AtWork DEF PTypes, Consumers
  <2>3. Req.source \in Names
    BY <1>6, <1>7, AskedTypes
  <2>4. QED
    BY <2>1, <2>2, <2>3, MessageTypes DEF Outcome
<1>8. QED
  BY <1>2, <1>3, <1>4, <1>5, <1>6, <1>7

LEMMA NextStreamStep ==
  ASSUME PTypes, PipelineNext
  PROVE  StreamStep
<1>1. ASSUME NEW id \in ids, PublishMail(id) \/ PublishMailFails(id) PROVE StreamStep
  <2>1. id \in DOMAIN mailbox /\ "thinking" \in Consumers
    BY DEF PTypes, Watching, Consumers
  <2>2. Built[mailbox[id]] \in Msgs("thinking")
    BY <1>1, <2>1, RightMessages DEF PublishMail, PublishMailFails
  <2>3. QED
    BY <1>1, <2>1, <2>2 DEF PublishMail, PublishMailFails, PublishToFails, StreamStep
<1>2. ASSUME NEW id \in DOMAIN mailbox, Backfill(id) PROVE StreamStep
  <2>1. WithDefaults(BuiltBackfill[mailbox[id]]) \in Msgs("thinking") /\ "thinking" \in Consumers
    BY <1>2, RightMessages DEF Backfill, Consumers
  <2>2. QED
    BY <1>2, <2>1 DEF Backfill, StreamStep
<1>3. ASSUME NEW post \in posts, PerceiveCLI(post) PROVE StreamStep
  <2>1. BuildCLIStimulus(post) \in Msgs("thinking") /\ "thinking" \in Consumers
    BY RightMessages DEF Consumers
  <2>2. QED
    BY <1>3, <2>1 DEF PerceiveCLI, PublishToFails, StreamStep
<1>4. ASSUME NEW s \in alerts, Alert(s) PROVE StreamStep
  <2>1. WithDefaults(s) \in Msgs("thinking") /\ "thinking" \in Consumers
    BY RightMessages DEF Consumers
  <2>2. QED
    BY <1>4, <2>1 DEF Alert, StreamStep
<1>5. CASE PublishRequest \/ PublishRequestFails
  <2>1. Request \in Msgs("action") /\ "action" \in Consumers
    BY <1>5, RightMessages DEF PublishRequest, PublishRequestFails, Consumers
  <2>2. QED
    BY <1>5, <2>1 DEF PublishRequest, PublishRequestFails, PublishToFails, StreamStep
<1>6. CASE PublishOutcome \/ PublishOutcomeFails
  <2>1. Outcome \in Msgs("memory") /\ "memory" \in Consumers
    BY <1>6, RightMessages DEF PublishOutcome, PublishOutcomeFails, Consumers
  <2>2. QED
    BY <1>6, <2>1 DEF PublishOutcome, PublishOutcomeFails, PublishToFails, StreamStep
<1>7. ASSUME NEW id \in ids, SkipMessage(id) PROVE StreamStep
  BY <1>7 DEF SkipMessage, StreamStep
<1>8. CASE Poll \/ AddLabel \/ RestartPerception \/ Outage \/ Reconnect \/ OwnerActs
  BY <1>8 DEF Poll, AddLabel, RestartPerception, Outage, Reconnect, OwnerActs, StreamStep
<1>9. CASE \E c \in Consumers : Deliver(c) \/ Ack(c) \/ Expire(c) \/ RestartService(c)
  BY <1>9 DEF Deliver, Ack, Expire, RestartService, StreamStep
<1>10. CASE Think \/ AppendReportEntry \/ AppendReportEntryFails \/ SaveEvent \/ SaveEventFails
            \/ Notify \/ WriteEpisode \/ WriteEpisodeFails
  BY <1>10 DEF Think, AppendReportEntry, AppendReportEntryFails, SaveEvent, SaveEventFails,
     Notify, WriteEpisode, WriteEpisodeFails, StreamStep
<1>11. QED
  BY <1>1, <1>2, <1>3, <1>4, <1>5, <1>6, <1>7, <1>8, <1>9, <1>10
  DEF PipelineNext, Watcher, Intake, Consume, Thinking, Action, Memory

ReportGrows ==
  \A d \in Days, i \in BOOLEAN : \A k \in DOMAIN report[d][i] :
    /\ k \in DOMAIN report'[d][i]
    /\ report'[d][i][k].of = report[d][i][k].of
    /\ report'[d][i][k].whole = report[d][i][k].whole

\* A file is written for the request at work.
FileStep ==
  /\ buf["action"] # <<>>
  /\ \E f : /\ SetReport(f)
            /\ Extends(report[Day][Req.important], f, Seq1("action"))

LEMMA RequestAtWork ==
  ASSUME PTypes, buf["action"] # <<>>
  PROVE  /\ Req \in Asked /\ Day \in Days /\ Req.important \in BOOLEAN
         /\ Req = stream["action"][Seq1("action")].req
         /\ report[Day][Req.important] \in Seq(Blocks) /\ Entry \in Blocks
<1>1. Message("action") \in [of : Nat, req : Asked] /\ Seq1("action") \in Nat
  BY AtWork, MessageTypes DEF PTypes, Consumers
<1>2. Req \in Asked /\ Req = stream["action"][Seq1("action")].req
  BY <1>1 DEF Req, Message
<1>3. Day \in Days /\ Req.important \in BOOLEAN
  BY <1>2, AskedTypes DEF Day
<1>4. report[Day][Req.important] \in Seq(Blocks)
  BY <1>3 DEF PTypes, Kept
<1>5. EntryNewlines \in Nat
  BY DataAssumption DEF EntryNewlines
<1>6. Entry \in Blocks
  BY <1>1, <1>5 DEF Entry, Blocks
<1>7. QED
  BY <1>2, <1>3, <1>4, <1>6

\* One file of one day is now f.
Filed(d, i, f) ==
  /\ report' \in [Days -> [BOOLEAN -> Seq(Blocks)]]
  /\ report'[d][i] = f
  /\ \A e \in Days, j \in BOOLEAN : e # d \/ j # i => report'[e][j] = report[e][j]

LEMMA FileSet ==
  ASSUME PTypes, NEW d \in Days, NEW i \in BOOLEAN, NEW f, f \in Seq(Blocks),
         report' = [report EXCEPT ![d][i] = f]
  PROVE  Filed(d, i, f)
<1> USE DEF PTypes, Kept
<1>1. report[d] \in [BOOLEAN -> Seq(Blocks)]
  OBVIOUS
<1> DEFINE file == [report[d] EXCEPT ![i] = f]
<1>2. file \in [BOOLEAN -> Seq(Blocks)] /\ file[i] = f
  BY <1>1
<1>3. \A j \in BOOLEAN : j # i => file[j] = report[d][j]
  BY <1>1
<1>4. report' = [report EXCEPT ![d] = file]
  OBVIOUS
<1> HIDE DEF file
<1>5. report' \in [Days -> [BOOLEAN -> Seq(Blocks)]] /\ report'[d] = file
  BY <1>2, <1>4
<1>6. \A e \in Days : e # d => report'[e] = report[e]
  BY <1>4
<1>7. QED
  BY <1>2, <1>3, <1>5, <1>6 DEF Filed

LEMMA OneMore ==
  \A l \in Nat : \A m :
    m = l \/ m = l + 1 =>
      /\ \A k \in 1..l : k \in 1..m
      /\ \A k \in 1..m : k \in 1..l \/ (m = l + 1 /\ k = m)
  OBVIOUS

LEMMA ReportStays ==
  ASSUME PTypes, UNCHANGED report \/ FileStep
  PROVE  /\ report' \in [Days -> [BOOLEAN -> Seq(Blocks)]] /\ ReportGrows
         /\ \A d \in Days, i \in BOOLEAN : \A k \in DOMAIN report'[d][i] :
              \/ k \in DOMAIN report[d][i]
              \/ buf["action"] # <<>> /\ report'[d][i][k].of = Seq1("action")
         /\ \A d \in Days, i \in BOOLEAN :
              WellSeparated(report[d][i]) => WellSeparated(report'[d][i])
<1>1. CASE UNCHANGED report
  BY <1>1 DEF PTypes, Kept, ReportGrows
<1>2. CASE FileStep
  <2>1. PICK f : /\ SetReport(f)
                 /\ Extends(report[Day][Req.important], f, Seq1("action"))
    BY <1>2 DEF FileStep
  <2>2. /\ buf["action"] # <<>> /\ Day \in Days /\ Req.important \in BOOLEAN
        /\ report[Day][Req.important] \in Seq(Blocks) /\ f \in Seq(Blocks)
    BY <1>2, <2>1, RequestAtWork DEF FileStep, Extends
  <2>3. PICK day \in Days, important \in BOOLEAN : day = Day /\ important = Req.important
    BY <2>2
  <2>4. report' = [report EXCEPT ![day][important] = f]
    BY <2>1, <2>3 DEF SetReport
  <2>5. /\ report' \in [Days -> [BOOLEAN -> Seq(Blocks)]]
        /\ report'[day][important] = f
        /\ \A e \in Days, j \in BOOLEAN :
             e # day \/ j # important => report'[e][j] = report[e][j]
    <3>1. f \in Seq(Blocks)
      BY <2>2
    <3>2. Filed(day, important, f)
      BY <2>4, <3>1, FileSet
    <3>3. QED
      BY <3>2 DEF Filed
  <2>6. PICK file \in Seq(Blocks) : file = report[day][important]
    BY <2>2, <2>3
  <2>7. Extends(file, f, Seq1("action"))
    BY <2>1, <2>3, <2>6
  <2>8. /\ Len(file) \in Nat /\ DOMAIN file = 1..Len(file) /\ DOMAIN f = 1..Len(f)
        /\ Len(f) = Len(file) \/ Len(f) = Len(file) + 1
    BY <2>2, <2>7 DEF Extends
  <2>9. /\ \A k \in 1..Len(file) : k \in 1..Len(f)
        /\ \A k \in 1..Len(f) : k \in 1..Len(file) \/ (Len(f) = Len(file) + 1 /\ k = Len(f))
    BY <2>8, OneMore
  <2>10. \A k \in DOMAIN file :
           k \in DOMAIN f /\ f[k].of = file[k].of /\ f[k].whole = file[k].whole
    BY <2>7, <2>8, <2>9 DEF Extends
  <2>11. \A k \in DOMAIN f : k \in DOMAIN file \/ f[k].of = Seq1("action")
    BY <2>7, <2>8, <2>9 DEF Extends
  <2>12. WellSeparated(file) => WellSeparated(f)
    BY <2>7 DEF Extends
  <2>13. ASSUME NEW d \in Days, NEW i \in BOOLEAN
        PROVE  /\ \A k \in DOMAIN report[d][i] :
                    /\ k \in DOMAIN report'[d][i]
                    /\ report'[d][i][k].of = report[d][i][k].of
                    /\ report'[d][i][k].whole = report[d][i][k].whole
               /\ \A k \in DOMAIN report'[d][i] :
                    \/ k \in DOMAIN report[d][i]
                    \/ report'[d][i][k].of = Seq1("action")
               /\ WellSeparated(report[d][i]) => WellSeparated(report'[d][i])
    <3>1. CASE d = day /\ i = important
      <4>1. report'[d][i] = f /\ report[d][i] = file
        BY <2>5, <2>6, <3>1
      <4>2. QED
        BY <2>10, <2>11, <2>12, <4>1
    <3>2. CASE d # day \/ i # important
      <4>1. report'[d][i] = report[d][i]
        BY <2>5, <3>2
      <4>2. QED
        BY <4>1
    <3>3. QED
      BY <3>1, <3>2
  <2>14. QED
    BY <2>2, <2>5, <2>13 DEF ReportGrows
<1>3. QED
  BY <1>1, <1>2

EpisodesStep ==
  \/ UNCHANGED episodes
  \/ buf["memory"] # <<>> /\ episodes' = Insert(Seq1("memory"), Message("memory"))

\* What a step may do to what the services have written.
LEMMA NextEffects ==
  ASSUME PTypes, PipelineNext
  PROVE  /\ UNCHANGED report \/ FileStep
         /\ EpisodesStep
         /\ lost \subseteq lost' /\ reminders \subseteq reminders'
         /\ notified \subseteq notified' /\ db' \in BOOLEAN
<1> DEFINE Goal == /\ UNCHANGED report \/ FileStep
                   /\ EpisodesStep
                   /\ lost \subseteq lost' /\ reminders \subseteq reminders'
                   /\ notified \subseteq notified' /\ db' \in BOOLEAN
<1>0. db \in BOOLEAN
  BY DEF PTypes, Kept
<1> USE DEF effects, memory
<1>1. CASE AppendReportEntry \/ AppendReportEntryFails
  <2>1. buf["action"] # <<>>
    BY <1>1 DEF AppendReportEntry, AppendReportEntryFails, AtEntry, Begin, PTypes, Handlers,
       Consumers
  <2>2. report[Day][Req.important] \in Seq(Blocks) /\ Entry \in Blocks
    BY <2>1, RequestAtWork
  <2>3. Entry.of = Seq1("action")
    BY DEF Entry
  <2>4. CASE AppendReportEntry
    <3>1. SetReport(AppendEntry(report[Day][Req.important], Entry))
      BY <2>4 DEF AppendReportEntry
    <3>2. Extends(report[Day][Req.important], AppendEntry(report[Day][Req.important], Entry),
                  Seq1("action"))
      BY <2>2, <2>3, AppendEntryExtends
    <3>3. FileStep
      BY <2>1, <3>1, <3>2 DEF FileStep
    <3>4. QED
      BY <1>0, <2>4, <3>3 DEF AppendReportEntry, EpisodesStep
  <2>5. CASE AppendReportEntryFails
    <3>1. PICK f \in PartialAppends(report[Day][Req.important], Entry) : SetReport(f)
      BY <2>5 DEF AppendReportEntryFails
    <3>2. Extends(report[Day][Req.important], f, Seq1("action"))
      BY <2>2, <2>3, PartialAppendExtends
    <3>3. FileStep
      BY <2>1, <3>1, <3>2 DEF FileStep
    <3>4. QED
      BY <1>0, <2>5, <3>3 DEF AppendReportEntryFails, EpisodesStep
  <2>6. QED
    BY <1>1, <2>4, <2>5
<1>2. CASE WriteEpisode
  BY <1>0, <1>2 DEF WriteEpisode, EpisodesStep, Begin
<1>3. ASSUME NEW id \in ids, SkipMessage(id) \/ PublishMail(id) \/ PublishMailFails(id)
      PROVE  Goal
  BY <1>0, <1>3 DEF SkipMessage, PublishMail, PublishMailFails, EpisodesStep
<1>4. ASSUME NEW id \in DOMAIN mailbox, Backfill(id)
      PROVE  Goal
  BY <1>0, <1>4 DEF Backfill, EpisodesStep
<1>5. ASSUME NEW post \in posts, PerceiveCLI(post)
      PROVE  Goal
  BY <1>0, <1>5 DEF PerceiveCLI, EpisodesStep
<1>6. ASSUME NEW s \in alerts, Alert(s)
      PROVE  Goal
  BY <1>0, <1>6 DEF Alert, EpisodesStep
<1>7. CASE Poll \/ AddLabel \/ RestartPerception \/ Outage \/ Reconnect \/ OwnerActs
  BY <1>0, <1>7 DEF Poll, AddLabel, RestartPerception, Outage, Reconnect, OwnerActs, EpisodesStep
<1>8. CASE \E c \in Consumers : Deliver(c) \/ Ack(c) \/ Expire(c) \/ RestartService(c)
  BY <1>0, <1>8 DEF Deliver, Ack, Expire, RestartService, EpisodesStep
<1>9. CASE Think \/ PublishRequest \/ PublishRequestFails
  BY <1>0, <1>9 DEF Think, PublishRequest, PublishRequestFails, GiveUp, EpisodesStep
<1>10. CASE SaveEvent \/ SaveEventFails \/ Notify \/ WriteEpisodeFails
  BY <1>0, <1>10 DEF SaveEvent, SaveEventFails, Notify, WriteEpisodeFails, EpisodesStep
<1>11. CASE PublishOutcome \/ PublishOutcomeFails
  BY <1>0, <1>11 DEF PublishOutcome, PublishOutcomeFails, GiveUp, EpisodesStep
<1>12. QED
  BY <1>1, <1>2, <1>3, <1>4, <1>5, <1>6, <1>7, <1>8, <1>9, <1>10, <1>11
  DEF PipelineNext, Watcher, Intake, Consume, Thinking, Action, Memory

\* A row per stream sequence.
LEMMA EpisodesStay ==
  ASSUME PTypes, EpisodesStep
  PROVE  /\ episodes' \in Seq(Nat \X Msgs("memory"))
         /\ Len(episodes) \in Nat /\ DOMAIN episodes = 1..Len(episodes)
         /\ \A i \in DOMAIN episodes : i \in DOMAIN episodes' /\ episodes'[i] = episodes[i]
         /\ \A i \in DOMAIN episodes' :
              \/ i \in DOMAIN episodes
              \/ /\ i = Len(episodes) + 1 /\ buf["memory"] # <<>>
                 /\ episodes'[i] = <<Seq1("memory"), Message("memory")>>
                 /\ \A j \in DOMAIN episodes : episodes[j][1] # Seq1("memory")
<1>1. episodes \in Seq(Nat \X Msgs("memory"))
  BY DEF PTypes, Kept
<1>2. Len(episodes) \in Nat /\ DOMAIN episodes = 1..Len(episodes)
  BY <1>1
<1>3. CASE UNCHANGED episodes
  BY <1>1, <1>2, <1>3
<1>4. ASSUME NEW row, row = <<Seq1("memory"), Message("memory")>>, buf["memory"] # <<>>,
             \A j \in DOMAIN episodes : episodes[j][1] # Seq1("memory"),
             episodes' = Append(episodes, row)
      PROVE  /\ episodes' \in Seq(Nat \X Msgs("memory"))
             /\ \A i \in DOMAIN episodes : i \in DOMAIN episodes' /\ episodes'[i] = episodes[i]
             /\ \A i \in DOMAIN episodes' :
                  i \in DOMAIN episodes \/ (i = Len(episodes) + 1 /\ episodes'[i] = row)
  <2> DEFINE Rows == Nat \X Msgs("memory")
             l == Len(episodes)
  <2>1. row \in Rows /\ episodes \in Seq(Rows)
    BY <1>1, <1>4, AtWork DEF PTypes, Consumers
  <2> HIDE DEF Rows
  <2>2. /\ episodes' \in Seq(Rows) /\ Len(episodes') = l + 1 /\ episodes'[l + 1] = row
        /\ DOMAIN episodes' = 1..(l + 1)
        /\ \A i \in 1..l : episodes'[i] = episodes[i]
    BY <1>2, <1>4, <2>1
  <2>3. QED
    BY <1>2, <2>2, OneMore DEF Rows
<1>5. CASE buf["memory"] # <<>> /\ episodes' = Insert(Seq1("memory"), Message("memory"))
  <2>1. CASE \E row \in Range(episodes) : row[1] = Seq1("memory")
    BY <1>3, <1>5, <2>1 DEF Insert
  <2>2. CASE ~\E row \in Range(episodes) : row[1] = Seq1("memory")
    <3>1. \A j \in DOMAIN episodes : episodes[j][1] # Seq1("memory")
      BY <2>2 DEF Range
    <3>2. episodes' = Append(episodes, <<Seq1("memory"), Message("memory")>>)
      BY <1>5, <2>2 DEF Insert
    <3>3. QED
      BY <1>2, <1>4, <1>5, <3>1, <3>2
  <2>3. QED
    BY <2>1, <2>2
<1>6. QED
  BY <1>3, <1>5 DEF EpisodesStep

\* Which steps lengthen which stream.
LEMMA NextPublishes ==
  ASSUME PTypes, PipelineNext
  PROVE  /\ stream'["thinking"] # stream["thinking"] => Watcher \/ Intake
         /\ stream'["action"] # stream["action"] => PublishRequest \/ PublishRequestFails
         /\ stream'["memory"] # stream["memory"] => PublishOutcome \/ PublishOutcomeFails
<1>1. /\ \A msg : PublishTo("thinking", msg) =>
           stream'["action"] = stream["action"] /\ stream'["memory"] = stream["memory"]
      /\ \A msg : PublishTo("action", msg) =>
           stream'["thinking"] = stream["thinking"] /\ stream'["memory"] = stream["memory"]
      /\ \A msg : PublishTo("memory", msg) =>
           stream'["thinking"] = stream["thinking"] /\ stream'["action"] = stream["action"]
  BY DEF PublishTo, PTypes, Streams, Consumers
<1>2. CASE Watcher \/ Intake
  <2>1. UNCHANGED stream \/ \E msg : PublishTo("thinking", msg)
    BY <1>2 DEF Watcher, Intake, Poll, AddLabel, SkipMessage, PublishMail, PublishMailFails,
       Backfill, PerceiveCLI, Alert, PublishToFails
  <2>2. QED
    BY <1>1, <1>2, <2>1
<1>3. CASE PublishRequest \/ PublishRequestFails
  <2>1. UNCHANGED stream \/ \E msg : PublishTo("action", msg)
    BY <1>3 DEF PublishRequest, PublishRequestFails, PublishToFails
  <2>2. QED
    BY <1>1, <1>3, <2>1
<1>4. CASE PublishOutcome \/ PublishOutcomeFails
  <2>1. UNCHANGED stream \/ \E msg : PublishTo("memory", msg)
    BY <1>4 DEF PublishOutcome, PublishOutcomeFails, PublishToFails
  <2>2. QED
    BY <1>1, <1>4, <2>1
<1>5. CASE UNCHANGED stream
  BY <1>5
<1>6. RestartPerception \/ Outage \/ Reconnect \/ OwnerActs => UNCHANGED stream
  BY DEF RestartPerception, Outage, Reconnect, OwnerActs
<1>7. (\E c \in Consumers : Deliver(c) \/ Ack(c) \/ Expire(c) \/ RestartService(c))
         => UNCHANGED stream
  BY DEF Deliver, Ack, Expire, RestartService
<1>8. Think \/ AppendReportEntry \/ AppendReportEntryFails \/ SaveEvent \/ SaveEventFails
           \/ Notify \/ WriteEpisode \/ WriteEpisodeFails => UNCHANGED stream
  BY DEF Think, AppendReportEntry, AppendReportEntryFails, SaveEvent, SaveEventFails,
     Notify, WriteEpisode, WriteEpisodeFails
<1>9. QED
  BY <1>2, <1>3, <1>4, <1>5, <1>6, <1>7, <1>8
  DEF PipelineNext, Consume, Thinking, Action, Memory

LEMMA NextKept ==
  ASSUME PTypes, PipelineNext
  PROVE  Kept'
<1>1. StreamsGrow /\ StreamStep /\ Streams
  BY NextStreamStep, StreamsStay DEF PTypes
<1>2. report' \in [Days -> [BOOLEAN -> Seq(Blocks)]]
  BY NextEffects, ReportStays
<1>3. \A d \in Days, i \in BOOLEAN : \A k \in DOMAIN report'[d][i] :
        \/ k \in DOMAIN report[d][i]
        \/ buf["action"] # <<>> /\ report'[d][i][k].of = Seq1("action")
  BY NextEffects, ReportStays
<1>4. ReportGrows
  BY NextEffects, ReportStays
<1>5. \A n \in DOMAIN stream["action"] : n \in DOMAIN stream'["action"]
  BY <1>1 DEF StreamsGrow, Consumers
<1>6. buf["action"] # <<>> => Seq1("action") \in DOMAIN stream["action"]
  BY AtWork DEF PTypes, Consumers
<1>7. ASSUME NEW d \in Days, NEW i \in BOOLEAN, NEW k \in DOMAIN report'[d][i]
      PROVE  report'[d][i][k].of \in DOMAIN stream'["action"]
  <2>1. CASE k \in DOMAIN report[d][i]
    <3>1. report[d][i][k].of \in DOMAIN stream["action"]
      BY <2>1 DEF PTypes, Kept
    <3>2. report'[d][i][k].of = report[d][i][k].of
      BY <1>4, <2>1 DEF ReportGrows
    <3>3. QED
      BY <1>5, <3>1, <3>2
  <2>2. CASE buf["action"] # <<>> /\ report'[d][i][k].of = Seq1("action")
    BY <1>5, <1>6, <2>2
  <2>3. QED
    BY <1>3, <2>1, <2>2
<1>8. ASSUME NEW n \in DOMAIN stream'["memory"]
      PROVE  stream'["memory"][n].of \in DOMAIN stream'["action"]
  <2>1. CASE n \in DOMAIN stream["memory"]
    <3>1. stream'["memory"][n] = stream["memory"][n]
      BY <1>1, <2>1 DEF StreamsGrow, Consumers
    <3>2. stream["memory"][n].of \in DOMAIN stream["action"]
      BY <2>1 DEF PTypes, Kept
    <3>3. QED
      BY <1>5, <3>1, <3>2
  <2>2. CASE n \notin DOMAIN stream["memory"]
    <3>1. pc["action"] = "publish" /\ PublishTo("memory", Outcome)
      BY <2>2, NextPublishes DEF PublishOutcome, PublishOutcomeFails, PublishToFails
    <3>2. Outcome \in Msgs("memory")
      BY <3>1, RightMessages
    <3>3. stream'["memory"][n] = Outcome
      BY <1>1, <2>2, <3>1, <3>2, OneMessageMore DEF Consumers
    <3>4. buf["action"] # <<>>
      BY <3>1 DEF PTypes, Handlers, Consumers
    <3>5. QED
      BY <1>5, <1>6, <3>3, <3>4 DEF Outcome
  <2>3. QED
    BY <2>1, <2>2
<1>9. episodes' \in Seq(Nat \X Msgs("memory")) /\ db' \in BOOLEAN
  BY NextEffects, EpisodesStay
<1>10. ASSUME NEW i \in DOMAIN episodes'
       PROVE  /\ episodes'[i][1] \in DOMAIN stream'["memory"]
              /\ episodes'[i][2] = stream'["memory"][episodes'[i][1]]
  <2>1. \A n \in DOMAIN stream["memory"] :
          n \in DOMAIN stream'["memory"] /\ stream'["memory"][n] = stream["memory"][n]
    BY <1>1 DEF StreamsGrow, Consumers
  <2>2. CASE i \in DOMAIN episodes
    <3>1. episodes'[i] = episodes[i]
      BY <2>2, NextEffects, EpisodesStay
    <3>2. /\ episodes[i][1] \in DOMAIN stream["memory"]
          /\ episodes[i][2] = stream["memory"][episodes[i][1]]
      BY <2>2 DEF PTypes, Kept
    <3>3. QED
      BY <2>1, <3>1, <3>2
  <2>3. CASE i \notin DOMAIN episodes
    <3>1. buf["memory"] # <<>> /\ episodes'[i] = <<Seq1("memory"), Message("memory")>>
      BY <2>3, NextEffects, EpisodesStay
    <3>2. Seq1("memory") \in DOMAIN stream["memory"]
      BY <3>1, AtWork DEF PTypes, Consumers
    <3>3. QED
      BY <2>1, <3>1, <3>2 DEF Message
  <2>4. QED
    BY <2>2, <2>3
<1>11. QED
  BY <1>2, <1>7, <1>8, <1>9, <1>10 DEF Kept

-----------------------------------------------------------------------------
(* The buffers and the handlers *)

LEMMA RangesOf ==
  ASSUME NEW b \in Seq(Nat)
  PROVE  /\ Range(b) \subseteq Nat
         /\ \A n \in Nat : Append(b, n) \in Seq(Nat) /\ Range(Append(b, n)) = Range(b) \cup {n}
         /\ b # <<>> =>
              /\ Tail(b) \in Seq(Nat) /\ Range(Tail(b)) \subseteq Range(b)
              /\ Range(b) \subseteq Range(Tail(b)) \cup {Head(b)}
<1>1. Len(b) \in Nat /\ DOMAIN b = 1..Len(b)
  OBVIOUS
<1>2. ASSUME NEW n \in Nat
      PROVE  Append(b, n) \in Seq(Nat) /\ Range(Append(b, n)) = Range(b) \cup {n}
  <2> DEFINE l == Len(b)
             a == Append(b, n)
  <2>1. /\ a \in Seq(Nat) /\ DOMAIN a = 1..(l + 1) /\ a[l + 1] = n
        /\ \A k \in 1..l : a[k] = b[k]
    BY <1>1
  <2> HIDE DEF a
  <2>2. l \in Nat /\ DOMAIN b = 1..l
    BY <1>1
  <2> HIDE DEF l
  <2>3. /\ \A k \in 1..(l + 1) : k \in 1..l \/ k = l + 1
        /\ \A k \in 1..l : k \in 1..(l + 1)
        /\ l + 1 \in 1..(l + 1)
    BY <2>2
  <2>4. Range(a) = Range(b) \cup {n}
    BY <2>1, <2>2, <2>3 DEF Range
  <2>5. QED
    BY <2>1, <2>4 DEF a
<1>3. ASSUME b # <<>>
      PROVE  /\ Tail(b) \in Seq(Nat) /\ Range(Tail(b)) \subseteq Range(b)
             /\ Range(b) \subseteq Range(Tail(b)) \cup {Head(b)}
  <2>1. /\ Tail(b) \in Seq(Nat) /\ DOMAIN Tail(b) = 1..(Len(b) - 1) /\ Head(b) = b[1]
        /\ \A k \in 1..(Len(b) - 1) : Tail(b)[k] = b[k + 1]
    BY <1>1, <1>3
  <2>2. Range(Tail(b)) \subseteq Range(b)
    BY <1>1, <2>1 DEF Range
  <2>3. \A k \in 1..Len(b) : k = 1 \/ (k - 1 \in 1..(Len(b) - 1) /\ k = (k - 1) + 1)
    BY <1>1
  <2>4. ASSUME NEW k \in 1..Len(b) PROVE b[k] \in Range(Tail(b)) \cup {Head(b)}
    <3>1. CASE k = 1
      BY <2>1, <3>1
    <3>2. CASE k # 1
      <4>1. k - 1 \in DOMAIN Tail(b) /\ Tail(b)[k - 1] = b[k]
        BY <2>1, <2>3, <3>2
      <4>2. QED
        BY <4>1 DEF Range
    <3>3. QED
      BY <3>1, <3>2
  <2>5. Range(b) \subseteq Range(Tail(b)) \cup {Head(b)}
    <3>1. DOMAIN b = 1..Len(b)
      OBVIOUS
    <3>2. QED
      BY <2>4, <3>1 DEF Range
  <2>6. QED
    BY <2>1, <2>2, <2>5
<1>4. Range(b) \subseteq Nat
  BY DEF Range
<1>5. QED
  BY <1>2, <1>3, <1>4

\* What changes the buffers.
NatsStep ==
  \/ UNCHANGED nats
  \/ \E c \in Consumers : Deliver(c) \/ Expire(c) \/ Ack(c) \/ RestartService(c)
  \/ WriteEpisodeFails

LEMMA NextNatsStep == PipelineNext => NatsStep
<1>1. Watcher \/ Intake \/ RestartPerception \/ Outage \/ Reconnect \/ OwnerActs => UNCHANGED nats
  BY DEF Watcher, Intake, Poll, AddLabel, SkipMessage, PublishMail, PublishMailFails,
     Backfill, PerceiveCLI, Alert, RestartPerception, Outage, Reconnect, OwnerActs, nats
<1>2. Thinking \/ Action => UNCHANGED nats
  BY DEF Thinking, Think, PublishRequest, PublishRequestFails, Action, AppendReportEntry,
     AppendReportEntryFails, SaveEvent, SaveEventFails, Notify, PublishOutcome,
     PublishOutcomeFails, nats
<1>3. WriteEpisode => UNCHANGED nats
  BY DEF WriteEpisode, nats
<1>4. QED
  BY <1>1, <1>2, <1>3 DEF PipelineNext, Consume, Memory, NatsStep

\* One consumer's buffer, and what is out of it.
LEMMA BuffersFrame ==
  ASSUME Buffers, Streams, StreamsGrow, NEW c \in Consumers, NEW a, NEW o, NEW b \in Seq(Nat),
         a \subseteq DOMAIN stream[c], o \subseteq Range(b), Range(b) \subseteq DOMAIN stream[c],
         acked' = [acked EXCEPT ![c] = a], out' = [out EXCEPT ![c] = o],
         buf' = [buf EXCEPT ![c] = b]
  PROVE  Buffers'
<1>1. DOMAIN stream[c] \subseteq Nat
  BY DEF Streams
<1>2. /\ acked' \in [Consumers -> SUBSET Nat] /\ out' \in [Consumers -> SUBSET Nat]
      /\ buf' \in [Consumers -> Seq(Nat)]
  BY <1>1 DEF Buffers
<1>3. acked'[c] = a /\ out'[c] = o /\ buf'[c] = b
  BY DEF Buffers
<1>4. \A d \in Consumers \ {c} : acked'[d] = acked[d] /\ out'[d] = out[d] /\ buf'[d] = buf[d]
  BY DEF Buffers
<1>5. ASSUME NEW d \in Consumers
      PROVE  /\ acked'[d] \subseteq DOMAIN stream'[d] /\ out'[d] \subseteq Range(buf'[d])
             /\ Range(buf'[d]) \subseteq DOMAIN stream'[d]
  <2>1. DOMAIN stream[d] \subseteq DOMAIN stream'[d]
    BY DEF StreamsGrow
  <2>2. CASE d = c
    BY <1>3, <2>1, <2>2
  <2>3. CASE d # c
    <3>1. acked[d] \subseteq DOMAIN stream[d] /\ out[d] \subseteq Range(buf[d])
          /\ Range(buf[d]) \subseteq DOMAIN stream[d]
      BY DEF Buffers
    <3>2. QED
      BY <1>4, <2>1, <2>3, <3>1
  <2>4. QED
    BY <2>2, <2>3
<1>6. QED
  BY <1>2, <1>5 DEF Buffers

LEMMA NextBuffers ==
  ASSUME PTypes, PipelineNext
  PROVE  Buffers'
<1>1. StreamsGrow /\ NatsStep /\ Buffers /\ Streams
  BY NextStreamStep, StreamsStay, NextNatsStep DEF PTypes
<1>2. CASE UNCHANGED nats
  <2>1. "thinking" \in Consumers
    BY DEF Consumers
  <2>2. \A d \in Consumers : DOMAIN stream[d] \subseteq DOMAIN stream'[d]
    BY <1>1 DEF StreamsGrow
  <2>3. QED
    BY <1>1, <1>2, <2>2 DEF Buffers, nats
<1>3. ASSUME NEW c \in Consumers
      PROVE  /\ acked[c] \subseteq DOMAIN stream[c] /\ out[c] \subseteq Range(buf[c])
             /\ Range(buf[c]) \subseteq DOMAIN stream[c] /\ buf[c] \in Seq(Nat)
             /\ DOMAIN stream[c] \subseteq Nat
             /\ acked = [acked EXCEPT ![c] = acked[c]] /\ buf = [buf EXCEPT ![c] = buf[c]]
  BY <1>1 DEF Buffers, Streams
<1>4. ASSUME NEW c \in Consumers, Deliver(c) PROVE Buffers'
  <2>1. PICK n \in DOMAIN stream[c] :
          /\ out' = [out EXCEPT ![c] = out[c] \cup {n}]
          /\ buf' = [buf EXCEPT ![c] = Append(buf[c], n)]
          /\ acked' = [acked EXCEPT ![c] = acked[c]]
    BY <1>3, <1>4 DEF Deliver
  <2>2. /\ Append(buf[c], n) \in Seq(Nat)
        /\ Range(Append(buf[c], n)) = Range(buf[c]) \cup {n}
    BY <1>3, RangesOf
  <2>3. out[c] \cup {n} \subseteq Range(Append(buf[c], n))
    BY <1>3, <2>2
  <2>4. Range(Append(buf[c], n)) \subseteq DOMAIN stream[c]
    BY <1>3, <2>2
  <2>5. acked[c] \subseteq DOMAIN stream[c]
    BY <1>3
  <2>6. QED
    BY <1>1, <2>1, <2>2, <2>3, <2>4, <2>5, BuffersFrame
<1>5. ASSUME NEW c \in Consumers, Expire(c) PROVE Buffers'
  <2>1. PICK n \in out[c] :
          /\ out' = [out EXCEPT ![c] = out[c] \ {n}]
          /\ buf' = [buf EXCEPT ![c] = buf[c]]
          /\ acked' = [acked EXCEPT ![c] = acked[c]]
    BY <1>3, <1>5 DEF Expire
  <2>2. out[c] \ {n} \subseteq Range(buf[c])
    BY <1>3
  <2>3. QED
    BY <1>1, <1>3, <2>1, <2>2, BuffersFrame
<1>6. ASSUME NEW c \in Consumers, buf[c] # <<>>, NEW a, a \subseteq DOMAIN stream[c],
             acked' = [acked EXCEPT ![c] = a],
             out' = [out EXCEPT ![c] = @ \ {Seq1(c)}], buf' = [buf EXCEPT ![c] = Tail(@)]
      PROVE  Buffers'
  <2>1. /\ out' = [out EXCEPT ![c] = out[c] \ {Seq1(c)}]
        /\ buf' = [buf EXCEPT ![c] = Tail(buf[c])]
    BY <1>6
  <2>2. /\ Tail(buf[c]) \in Seq(Nat) /\ Range(Tail(buf[c])) \subseteq Range(buf[c])
        /\ Range(buf[c]) \subseteq Range(Tail(buf[c])) \cup {Seq1(c)}
    BY <1>3, <1>6, RangesOf DEF Seq1
  <2>3. out[c] \ {Seq1(c)} \subseteq Range(Tail(buf[c]))
    BY <1>3, <2>2
  <2>4. Range(Tail(buf[c])) \subseteq DOMAIN stream[c]
    BY <1>3, <2>2
  <2>5. QED
    BY <1>1, <1>6, <2>1, <2>2, <2>3, <2>4, BuffersFrame
<1>7. ASSUME NEW c \in Consumers, Ack(c) PROVE Buffers'
  <2>1. buf[c] # <<>>
    BY <1>7 DEF Ack, PTypes, Handlers
  <2>2. Seq1(c) \in DOMAIN stream[c]
    BY <1>1, <2>1, AtWork
  <2>3. \/ acked' = [acked EXCEPT ![c] = acked[c] \cup {Seq1(c)}]
        \/ acked' = [acked EXCEPT ![c] = acked[c]]
    BY <1>3, <1>7 DEF Ack
  <2>4. acked[c] \cup {Seq1(c)} \subseteq DOMAIN stream[c] /\ acked[c] \subseteq DOMAIN stream[c]
    BY <1>3, <2>2
  <2>5. /\ out' = [out EXCEPT ![c] = @ \ {Seq1(c)}] /\ buf' = [buf EXCEPT ![c] = Tail(@)]
    BY <1>7 DEF Ack
  <2>6. QED
    BY <1>6, <2>1, <2>3, <2>4, <2>5
<1>8. CASE WriteEpisodeFails
  <2>1. "memory" \in Consumers /\ buf["memory"] # <<>>
    BY <1>8 DEF WriteEpisodeFails, Begin, Consumers
  <2>2. /\ acked' = [acked EXCEPT !["memory"] = acked["memory"]]
        /\ out' = [out EXCEPT !["memory"] = @ \ {Seq1("memory")}]
        /\ buf' = [buf EXCEPT !["memory"] = Tail(@)]
    BY <1>3, <1>8, <2>1 DEF WriteEpisodeFails
  <2>3. acked["memory"] \subseteq DOMAIN stream["memory"]
    BY <1>3, <2>1
  <2>4. QED
    BY <1>6, <2>1, <2>2, <2>3
<1>9. ASSUME NEW c \in Consumers, RestartService(c) PROVE Buffers'
  <2>1. PICK b, o : b = <<>> /\ o = {}
    OBVIOUS
  <2>2. /\ acked' = [acked EXCEPT ![c] = acked[c]]
        /\ out' = [out EXCEPT ![c] = o] /\ buf' = [buf EXCEPT ![c] = b]
    BY <1>3, <1>9, <2>1 DEF RestartService
  <2>3. b \in Seq(Nat) /\ o \subseteq Range(b) /\ Range(b) \subseteq DOMAIN stream[c]
    BY <2>1 DEF Range
  <2>4. acked[c] \subseteq DOMAIN stream[c]
    BY <1>3
  <2>5. QED
    BY <1>1, <2>2, <2>3, <2>4, BuffersFrame
<1>10. QED
  BY <1>1, <1>2, <1>4, <1>5, <1>7, <1>8, <1>9 DEF NatsStep

LEMMA MessageStays ==
  ASSUME PTypes, PipelineNext, NEW c \in Consumers, buf[c] # <<>>, Seq1(c)' = Seq1(c)
  PROVE  Message(c)' = Message(c)
<1>1. StreamsGrow
  BY NextStreamStep, StreamsStay DEF PTypes
<1>2. Seq1(c) \in DOMAIN stream[c]
  BY AtWork DEF PTypes
<1>3. stream'[c][Seq1(c)] = stream[c][Seq1(c)]
  BY <1>1, <1>2 DEF StreamsGrow
<1>4. QED
  BY <1>3 DEF Message

Steps == {"idle", "publish", "ack", "retry", "effects"}

\* Where each handler may come to be, from where.
LEMMA NextControl ==
  ASSUME PTypes, PipelineNext
  PROVE  /\ pc' \in [Consumers -> Steps]
         /\ entryStatus' \in {"none", "success", "failed"} /\ ev' \in Nat
         /\ \A c \in Consumers : pc'[c] # "idle" => buf[c] # <<>>
         /\ pc'["thinking"] = "publish" =>
              Think \/ (pc["thinking"] = "publish" /\ request' = request)
         /\ pc'["thinking"] = "ack" =>
              pc["thinking"] = "ack" \/ Think \/ PublishRequest \/ PublishRequestFails
         /\ pc'["action"] = "effects" =>
              \/ AppendReportEntry \/ AppendReportEntryFails
              \/ /\ pc["action"] = "effects" /\ entryStatus' = entryStatus
                 /\ ev' = ev \/ SaveEvent \/ SaveEventFails
         /\ pc'["action"] = "publish" =>
              Notify \/ (pc["action"] = "publish" /\ entryStatus' = entryStatus)
         /\ pc'["action"] = "ack" =>
              pc["action"] = "ack" \/ PublishOutcome \/ PublishOutcomeFails
         /\ pc'["memory"] = "ack" => pc["memory"] = "ack" \/ WriteEpisode
<1> DEFINE Goal ==
             /\ pc' \in [Consumers -> Steps]
             /\ entryStatus' \in {"none", "success", "failed"} /\ ev' \in Nat
             /\ \A c \in Consumers : pc'[c] # "idle" => buf[c] # <<>>
             /\ pc'["thinking"] = "publish" =>
                  Think \/ (pc["thinking"] = "publish" /\ request' = request)
             /\ pc'["thinking"] = "ack" =>
                  pc["thinking"] = "ack" \/ Think \/ PublishRequest \/ PublishRequestFails
             /\ pc'["action"] = "effects" =>
                  \/ AppendReportEntry \/ AppendReportEntryFails
                  \/ /\ pc["action"] = "effects" /\ entryStatus' = entryStatus
                     /\ ev' = ev \/ SaveEvent \/ SaveEventFails
             /\ pc'["action"] = "publish" =>
                  Notify \/ (pc["action"] = "publish" /\ entryStatus' = entryStatus)
             /\ pc'["action"] = "ack" =>
                  pc["action"] = "ack" \/ PublishOutcome \/ PublishOutcomeFails
             /\ pc'["memory"] = "ack" => pc["memory"] = "ack" \/ WriteEpisode
<1> SUFFICES Goal
  OBVIOUS
<1>0. /\ pc \in [Consumers -> Steps] /\ \A c \in Consumers : pc[c] # "idle" => buf[c] # <<>>
      /\ entryStatus \in {"none", "success", "failed"} /\ ev \in Nat
      /\ "thinking" \in Consumers /\ "action" \in Consumers /\ "memory" \in Consumers
  BY DEF PTypes, Handlers, Steps, Consumers
<1>1. ASSUME UNCHANGED <<pc, local>> PROVE Goal
  BY <1>0, <1>1 DEF local
<1>2. ASSUME NEW c \in Consumers, pc' = [pc EXCEPT ![c] = "idle"],
             UNCHANGED <<request, entryStatus, ev>> \/ RestartService(c)
      PROVE  Goal
  <2>1. /\ pc' \in [Consumers -> Steps] /\ pc'[c] = "idle"
        /\ \A d \in Consumers \ {c} : pc'[d] = pc[d]
    BY <1>0, <1>2 DEF Steps
  <2>2. /\ c # "thinking" => request' = request
        /\ c # "action" => entryStatus' = entryStatus /\ ev' = ev
        /\ entryStatus' \in {"none", "success", "failed"} /\ ev' \in Nat
    BY <1>0, <1>2 DEF RestartService
  <2>3. CASE c = "thinking"
    BY <1>0, <2>1, <2>2, <2>3
  <2>4. CASE c = "action"
    BY <1>0, <2>1, <2>2, <2>4
  <2>5. CASE c = "memory"
    BY <1>0, <2>1, <2>2, <2>5
  <2>6. QED
    BY <2>3, <2>4, <2>5 DEF Consumers
<1>3. ASSUME NEW c \in Consumers, Ack(c) \/ RestartService(c) PROVE Goal
  <2>1. pc' = [pc EXCEPT ![c] = "idle"] /\
        (UNCHANGED <<request, entryStatus, ev>> \/ RestartService(c))
    BY <1>3 DEF Ack, RestartService, Goto, local
  <2>2. QED
    BY <1>2, <2>1
<1>4. ASSUME NEW p \in Steps, Goto("thinking", p), UNCHANGED <<entryStatus, ev>>,
             buf["thinking"] # <<>>
      PROVE  /\ pc' \in [Consumers -> Steps] /\ pc'["thinking"] = p
             /\ pc'["action"] = pc["action"] /\ pc'["memory"] = pc["memory"]
             /\ entryStatus' \in {"none", "success", "failed"} /\ ev' \in Nat
             /\ \A c \in Consumers : pc'[c] # "idle" => buf[c] # <<>>
  BY <1>0, <1>4 DEF Goto
<1>5. CASE Think
  <2>1. buf["thinking"] # <<>> /\ UNCHANGED <<entryStatus, ev>>
        /\ (Goto("thinking", "ack") \/ Goto("thinking", "publish"))
    BY <1>5 DEF Think, Begin
  <2>2. "ack" \in Steps /\ "publish" \in Steps
    BY DEF Steps
  <2>3. QED
    BY <1>4, <1>5, <2>1, <2>2
<1>6. CASE PublishRequest \/ PublishRequestFails
  <2>1. buf["thinking"] # <<>> /\ UNCHANGED <<entryStatus, ev>> /\ Goto("thinking", "ack")
    BY <1>0, <1>6 DEF PublishRequest, PublishRequestFails
  <2>2. "ack" \in Steps
    BY DEF Steps
  <2>3. QED
    BY <1>4, <1>6, <2>1, <2>2
<1>7. ASSUME NEW p \in Steps, Goto("action", p), UNCHANGED request, buf["action"] # <<>>
      PROVE  /\ pc' \in [Consumers -> Steps] /\ pc'["action"] = p
             /\ pc'["thinking"] = pc["thinking"] /\ pc'["memory"] = pc["memory"]
             /\ \A c \in Consumers : pc'[c] # "idle" => buf[c] # <<>>
  BY <1>0, <1>7 DEF Goto
<1>8. CASE AppendReportEntry \/ AppendReportEntryFails
  <2>1. buf["action"] # <<>> /\ UNCHANGED request
    BY <1>0, <1>8 DEF AppendReportEntry, AppendReportEntryFails, AtEntry, Begin
  <2>2. /\ entryStatus' \in {"none", "success", "failed"} /\ ev' \in Nat
        /\ Goto("action", "effects") \/ Goto("action", "retry")
    BY <1>0, <1>8 DEF AppendReportEntry, AppendReportEntryFails, Appended, Retry
  <2>3. "effects" \in Steps /\ "retry" \in Steps
    BY DEF Steps
  <2>4. QED
    BY <1>7, <1>8, <2>1, <2>2, <2>3
<1>9. CASE SaveEvent \/ SaveEventFails
  <2>1. UNCHANGED <<pc, request, entryStatus>> /\ ev' \in Nat
    BY <1>0, <1>9 DEF SaveEvent, SaveEventFails
  <2>2. QED
    BY <1>0, <1>9, <2>1
<1>10. CASE Notify
  <2>1. buf["action"] # <<>> /\ UNCHANGED <<request, entryStatus, ev>> /\ Goto("action", "publish")
    BY <1>0, <1>10 DEF Notify, local
  <2>2. "publish" \in Steps
    BY DEF Steps
  <2>3. QED
    BY <1>0, <1>7, <1>10, <2>1, <2>2
<1>11. CASE PublishOutcome \/ PublishOutcomeFails
  <2>1. buf["action"] # <<>> /\ UNCHANGED request /\ Goto("action", "ack")
        /\ entryStatus' = "none" /\ ev' = 0
    BY <1>0, <1>11 DEF PublishOutcome, PublishOutcomeFails, Dispatched
  <2>2. "ack" \in Steps
    BY DEF Steps
  <2>3. QED
    BY <1>7, <1>11, <2>1, <2>2
<1>12. CASE WriteEpisode
  <2>1. buf["memory"] # <<>> /\ UNCHANGED <<request, entryStatus, ev>>
        /\ pc' = [pc EXCEPT !["memory"] = "ack"]
    BY <1>12 DEF WriteEpisode, Begin, Goto, local
  <2>2. /\ pc' \in [Consumers -> Steps] /\ pc'["memory"] = "ack"
        /\ pc'["action"] = pc["action"] /\ pc'["thinking"] = pc["thinking"]
        /\ \A c \in Consumers : pc'[c] # "idle" => buf[c] # <<>>
    BY <1>0, <2>1 DEF Steps
  <2>3. QED
    BY <1>0, <1>12, <2>1, <2>2
<1>13. Watcher \/ Intake \/ RestartPerception \/ Outage \/ Reconnect \/ OwnerActs \/ WriteEpisodeFails
         => UNCHANGED <<pc, local>>
  BY DEF Watcher, Intake, Poll, AddLabel, SkipMessage, PublishMail, PublishMailFails,
     Backfill, PerceiveCLI, Alert, RestartPerception, Outage, Reconnect, OwnerActs, WriteEpisodeFails
<1>14. \A c \in Consumers : Deliver(c) \/ Expire(c) => UNCHANGED <<pc, local>>
  BY DEF Deliver, Expire
<1> HIDE DEF Goal
<1>15. QED
  BY <1>1, <1>3, <1>5, <1>6, <1>8, <1>9, <1>10, <1>11, <1>12, <1>13, <1>14
  DEF PipelineNext, Consume, Thinking, Action, Memory

\* The message at work stays the same while there is one.
LEMMA NextHead ==
  ASSUME PTypes, PipelineNext, NEW c \in Consumers, buf[c] # <<>>, pc'[c] # "idle"
  PROVE  /\ buf'[c] # <<>> /\ Seq1(c)' = Seq1(c) /\ Message(c)' = Message(c)
<1>1. NatsStep /\ buf \in [Consumers -> Seq(Nat)] /\ pc \in [Consumers -> Steps]
  BY NextNatsStep DEF PTypes, Buffers, Handlers, Steps
<1>2. CASE buf'[c] = buf[c]
  <2>1. Seq1(c)' = Seq1(c)
    BY <1>2 DEF Seq1
  <2>2. QED
    BY <1>2, <2>1, MessageStays
<1>3. CASE UNCHANGED nats
  BY <1>2, <1>3 DEF nats
<1>4. ASSUME NEW d \in Consumers, Deliver(d) PROVE buf'[c] # <<>> /\ Seq1(c)' = Seq1(c)
  <2>1. CASE d # c
    BY <1>1, <1>4, <2>1 DEF Deliver, Seq1
  <2>2. CASE d = c
    <3>1. PICK n \in DOMAIN stream[c] : buf' = [buf EXCEPT ![c] = Append(@, n)]
      BY <1>4, <2>2 DEF Deliver
    <3>2. n \in Nat
      BY DEF PTypes, Streams
    <3>3. buf'[c] = Append(buf[c], n) /\ buf[c] \in Seq(Nat)
      BY <1>1, <3>1
    <3>4. QED
      BY <3>2, <3>3 DEF Seq1
  <2>3. QED
    BY <2>1, <2>2
<1>5. ASSUME NEW d \in Consumers, Expire(d) PROVE buf'[c] = buf[c]
  BY <1>5 DEF Expire
<1>6. ASSUME NEW d \in Consumers, Ack(d) \/ RestartService(d) PROVE buf'[c] = buf[c]
  <2>1. pc' = [pc EXCEPT ![d] = "idle"]
    BY <1>6 DEF Ack, RestartService, Goto
  <2>2. d # c
    BY <1>1, <2>1
  <2>3. QED
    BY <1>1, <1>6, <2>2 DEF Ack, RestartService
<1>7. CASE WriteEpisodeFails
  <2>1. UNCHANGED pc /\ pc["memory"] = "idle" /\ buf' = [buf EXCEPT !["memory"] = Tail(@)]
    BY <1>7 DEF WriteEpisodeFails, Begin
  <2>2. c # "memory"
    BY <2>1
  <2>3. buf'[c] = buf[c]
    BY <1>1, <2>1, <2>2
  <2>4. QED
    BY <1>2, <2>3
<1>8. QED
  BY <1>1, <1>2, <1>3, <1>4, <1>5, <1>6, <1>7, MessageStays DEF NatsStep

LEMMA ThoughtOut ==
  ASSUME PTypes, Think
  PROVE  \/ Goto("thinking", "ack") /\ Match(Message("thinking")) = <<>>
         \/ /\ Goto("thinking", "publish") /\ request' \in Asked
            /\ request'.source = Message("thinking").source
<1>1. Message("thinking") \in Stimuli
  BY AtWork, MessageTypes DEF Think, Begin, PTypes, Consumers
<1>2. PICK reply \in Replies(Message("thinking")) :
        IF Process(Message("thinking"), reply) = NoRequest THEN Goto("thinking", "ack")
        ELSE Goto("thinking", "publish") /\ request' = Process(Message("thinking"), reply)
  BY DEF Think
<1>3. CASE Process(Message("thinking"), reply) = NoRequest
  BY <1>1, <1>2, <1>3, Processed
<1>4. CASE Process(Message("thinking"), reply) # NoRequest
  BY <1>1, <1>2, <1>4, Processed
<1>5. QED
  BY <1>3, <1>4

LEMMA NextHandlers ==
  ASSUME PTypes, PipelineNext
  PROVE  Handlers'
<1>1. /\ pc' \in [Consumers -> Steps] /\ \A c \in Consumers : pc'[c] # "idle" => buf[c] # <<>>
      /\ entryStatus' \in {"none", "success", "failed"} /\ ev' \in Nat
  BY NextControl
<1>2. \A c \in Consumers : pc'[c] # "idle" => buf'[c] # <<>>
  BY <1>1, NextHead
<1>3. ASSUME pc'["thinking"] = "publish"
      PROVE  request' \in Asked /\ request'.source = Message("thinking")'.source
  <2>1. Message("thinking")' = Message("thinking")
    BY <1>1, <1>3, NextHead DEF Consumers
  <2>2. CASE Think
    <3>1. ~Goto("thinking", "ack")
      BY <1>3 DEF Goto, PTypes, Handlers, Consumers
    <3>2. QED
      BY <2>1, <2>2, <3>1, ThoughtOut
  <2>3. CASE pc["thinking"] = "publish" /\ request' = request
    BY <2>1, <2>3 DEF PTypes, Handlers
  <2>4. QED
    BY <1>3, <2>2, <2>3, NextControl
<1>4. ASSUME pc'["action"] \in {"effects", "publish"}
      PROVE  entryStatus' \in {"success", "failed"}
  <2>1. CASE AppendReportEntry
    BY <2>1 DEF AppendReportEntry, Appended
  <2>2. CASE AppendReportEntryFails
    <3>1. pc["action"] # "idle"
      BY <1>4, <2>2 DEF AppendReportEntryFails, Retry, Goto, PTypes, Handlers, Consumers
    <3>2. QED
      BY <2>2, <3>1 DEF AppendReportEntryFails, Retry, Appended
  <2>3. CASE pc["action"] \in {"effects", "publish"} /\ entryStatus' = entryStatus
    BY <2>3 DEF PTypes, Handlers
  <2>4. CASE Notify
    <3>1. entryStatus' = entryStatus
      BY <2>4 DEF Notify, local
    <3>2. QED
      BY <2>4, <3>1 DEF Notify, PTypes, Handlers
  <2>5. QED
    BY <1>4, <2>1, <2>2, <2>3, <2>4, NextControl
<1>5. QED
  BY <1>1, <1>2, <1>3, <1>4 DEF Handlers, Steps

-----------------------------------------------------------------------------
(* What comes in *)

\* The poll's list and the labels.
LEMMA NextWatching ==
  ASSUME PTypes, PipelineNext
  PROVE  Watching'
<1> USE DEF PTypes, Watching, gmail
<1>0. NoMail \notin DOMAIN mailbox
  BY DataAssumption DEF Scenario
<1>1. CASE Poll
  BY <1>1 DEF Poll, incoming, ListMatching
<1>2. CASE AddLabel
  BY <1>0, <1>2, LimitsAssumption DEF AddLabel, incoming, Mishap
<1>3. ASSUME NEW id \in ids, SkipMessage(id)
      PROVE  Watching'
  BY <1>0, <1>3, LimitsAssumption DEF SkipMessage, incoming, Mishap
<1>4. ASSUME NEW id \in ids, PublishMail(id) PROVE Watching'
  BY <1>4 DEF PublishMail, incoming
<1>5. ASSUME NEW id \in ids, PublishMailFails(id) PROVE Watching'
  BY <1>0, <1>5, LimitsAssumption DEF PublishMailFails, PublishToFails, incoming, Mishap
<1>6. ASSUME NEW id \in DOMAIN mailbox, Backfill(id) PROVE Watching'
  BY <1>6, LimitsAssumption DEF Backfill, incoming
<1>7. ASSUME NEW post \in posts, PerceiveCLI(post) PROVE Watching'
  BY <1>7, LimitsAssumption DEF PerceiveCLI, PublishToFails, Mishap
<1>8. ASSUME NEW s \in alerts, Alert(s) PROVE Watching'
  BY <1>8 DEF Alert
<1>9. CASE RestartPerception
  <2>1. /\ mishaps' \in 0..MaxMishaps /\ backfills' \in 0..MaxBackfills
        /\ seen' \subseteq DOMAIN mailbox' /\ away' \subseteq DOMAIN mailbox'
        /\ ids' = {} /\ current' = NoMail
    BY <1>9, LimitsAssumption DEF RestartPerception, incoming, Mishap
  <2>2. labelled' \in BOOLEAN
    BY <1>9 DEF RestartPerception
  <2>3. QED
    BY <2>1, <2>2
<1>10. ASSUME UNCHANGED <<incoming, gmail, backfills>>, Mishap \/ UNCHANGED mishaps
       PROVE  Watching'
  BY <1>10, LimitsAssumption DEF incoming, Mishap
<1>11. \A c \in Consumers : Deliver(c) \/ Ack(c) \/ Expire(c) \/ RestartService(c)
         => UNCHANGED <<incoming, gmail, backfills>> /\ (Mishap \/ UNCHANGED mishaps)
  BY DEF Deliver, Ack, Expire, RestartService
<1>12. Thinking \/ Memory \/ Outage \/ Reconnect
         => UNCHANGED <<incoming, gmail, backfills>> /\ (Mishap \/ UNCHANGED mishaps)
  BY DEF Thinking, Think, PublishRequest, PublishRequestFails, PublishToFails, Memory,
     WriteEpisode, WriteEpisodeFails, Outage, Reconnect
<1>13. Action
         => UNCHANGED <<incoming, gmail, backfills>> /\ (Mishap \/ UNCHANGED mishaps)
  BY DEF Action, AppendReportEntry, AppendReportEntryFails, SaveEvent, SaveEventFails, Notify,
     PublishOutcome, PublishOutcomeFails, PublishToFails
<1>14. CASE OwnerActs
  BY <1>14 DEF OwnerActs, incoming
<1> HIDE DEF Watching
<1>15. QED
  BY <1>1, <1>2, <1>3, <1>4, <1>5, <1>6, <1>7, <1>8, <1>9, <1>10, <1>11, <1>12, <1>13, <1>14
  DEF PipelineNext, Watcher, Intake, Consume

\* Posts and alerts come once, the mailbox stays.
LEMMA NextScenario ==
  ASSUME PTypes, PipelineNext
  PROVE  /\ Scenario' /\ mailbox' = mailbox /\ posts' \subseteq posts /\ alerts' \subseteq alerts
         /\ mishaps <= mishaps' /\ backfills <= backfills'
<1>0. mishaps \in Nat /\ backfills \in Nat
  BY LimitsAssumption DEF PTypes, Watching
<1> DEFINE Goal == /\ mailbox' = mailbox /\ posts' \subseteq posts /\ alerts' \subseteq alerts
                   /\ mishaps <= mishaps' /\ backfills <= backfills'
<1>1. ASSUME UNCHANGED incoming, UNCHANGED backfills \/ backfills' = backfills + 1,
             Mishap \/ UNCHANGED mishaps
      PROVE  Goal
  BY <1>0, <1>1 DEF incoming, Mishap
<1>2. Watcher \/ RestartPerception
        => UNCHANGED <<incoming, backfills>> /\ (Mishap \/ UNCHANGED mishaps)
  BY DEF Watcher, Poll, AddLabel, SkipMessage, PublishMail, PublishMailFails, PublishToFails,
     RestartPerception
<1>3. ASSUME NEW id \in DOMAIN mailbox, Backfill(id) PROVE Goal
  BY <1>1, <1>3 DEF Backfill
<1>4. ASSUME NEW post \in posts, PerceiveCLI(post) PROVE Goal
  BY <1>0, <1>4 DEF PerceiveCLI, PublishToFails, Mishap
<1>5. ASSUME NEW s \in alerts, Alert(s) PROVE Goal
  BY <1>0, <1>5 DEF Alert
<1>6. \A c \in Consumers : Deliver(c) \/ Ack(c) \/ Expire(c) \/ RestartService(c)
         => UNCHANGED <<incoming, backfills>> /\ (Mishap \/ UNCHANGED mishaps)
  BY DEF Deliver, Ack, Expire, RestartService
<1>7. Thinking \/ Memory \/ Outage \/ Reconnect \/ OwnerActs
         => UNCHANGED <<incoming, backfills>> /\ (Mishap \/ UNCHANGED mishaps)
  BY DEF Thinking, Think, PublishRequest, PublishRequestFails, PublishToFails, Memory,
     WriteEpisode, WriteEpisodeFails, Outage, Reconnect, OwnerActs
<1>8. Action
         => UNCHANGED <<incoming, backfills>> /\ (Mishap \/ UNCHANGED mishaps)
  BY DEF Action, AppendReportEntry, AppendReportEntryFails, SaveEvent, SaveEventFails, Notify,
     PublishOutcome, PublishOutcomeFails, PublishToFails
<1> HIDE DEF Goal
<1>9. Goal
  BY <1>1, <1>2, <1>3, <1>4, <1>5, <1>6, <1>7, <1>8 DEF PipelineNext, Intake, Consume
<1>10. Scenario'
  BY <1>9 DEF Goal, PTypes, Scenario
<1>11. QED
  BY <1>9, <1>10 DEF Goal

LEMMA NextPTypes ==
  ASSUME PTypes, PipelineNext
  PROVE  PTypes'
<1>1. Streams'
  BY NextStreamStep, StreamsStay DEF PTypes
<1>2. QED
  BY <1>1, NextBuffers, NextHandlers, NextWatching, NextKept, NextScenario DEF PTypes

LEMMA InitPTypes ==
  ASSUME PipelineInit
  PROVE  PTypes
<1> USE DEF PipelineInit
<1>1. Scenario
  BY DEF Scenario
<1>2. Streams
  BY DEF Streams
<1>3. Buffers
  BY DEF Buffers, Range
<1>4. Handlers
  BY DEF Handlers, Consumers
<1>5. Watching
  <2>1. backfills \in 0..MaxBackfills /\ mishaps \in 0..MaxMishaps
    BY LimitsAssumption
  <2>2. labelled \in BOOLEAN
    OBVIOUS
  <2>3. seen = {} /\ away = {} /\ ids = {} /\ current = NoMail
    OBVIOUS
  <2> HIDE DEF PipelineInit
  <2>4. QED
    BY <2>1, <2>2, <2>3 DEF Watching
<1>6. Kept
  <2>1. report \in [Days -> [BOOLEAN -> Seq(Blocks)]] /\
        \A d \in Days, i \in BOOLEAN : report[d][i] = <<>>
    OBVIOUS
  <2>2. /\ "memory" \in Consumers /\ stream["memory"] = <<>>
        /\ episodes \in Seq(Nat \X Msgs("memory")) /\ db \in BOOLEAN
    BY DEF Consumers
  <2>3. QED
    BY <2>1, <2>2 DEF Kept
<1>7. QED
  BY <1>1, <1>2, <1>3, <1>4, <1>5, <1>6 DEF PTypes

LEMMA PTypesTypeOK == PTypes => PipelineTypeOK
<1> SUFFICES ASSUME PTypes PROVE PipelineTypeOK
  OBVIOUS
<1>1. DOMAIN report = Days
  BY DEF PTypes, Kept
<1>2. ASSUME NEW s \in Range(stream["thinking"]) PROVE s.occurred \in DOMAIN report
  <2>1. s \in Stimuli
    BY MessageTypes DEF PTypes, Streams, Consumers, Range
  <2>2. QED
    BY <1>1, <2>1, StimulusTypes
<1>3. ASSUME NEW o \in Outcomes PROVE o.status \in {"success", "failed"}
  <2>1. PICK n \in DOMAIN stream["memory"] : o = stream["memory"][n]
    BY DEF Outcomes, Range
  <2>2. stream["memory"] \in Seq(Msgs("memory"))
    BY DEF PTypes, Streams, Consumers
  <2>3. o \in Msgs("memory")
    BY <2>1, <2>2
  <2>4. o \in [of : Nat, source : Names, status : {"success", "failed"}]
    BY <2>3, MessageTypes, Zenon
  <2>5. QED
    BY <2>4
<1>4. ASSUME NEW c \in Consumers
      PROVE  /\ acked[c] \subseteq DOMAIN stream[c] /\ out[c] \subseteq DOMAIN stream[c]
             /\ Range(buf[c]) \subseteq DOMAIN stream[c]
             /\ pc[c] # "idle" => buf[c] # <<>>
  BY DEF PTypes, Buffers, Handlers
<1>5. /\ pc \in [Consumers -> {"idle", "publish", "ack", "retry", "effects"}]
      /\ entryStatus \in {"none", "success", "failed"} /\ ev \in Nat /\ db \in BOOLEAN
  BY DEF PTypes, Handlers, Kept
<1>6. /\ seen \subseteq DOMAIN mailbox /\ away \subseteq DOMAIN mailbox
      /\ ids \subseteq DOMAIN mailbox
      /\ labelled \in BOOLEAN /\ current \in ids \cup {NoMail}
      /\ backfills \in 0..MaxBackfills /\ mishaps \in 0..MaxMishaps
  BY DEF PTypes, Watching
<1>7. QED
  BY <1>2, <1>3, <1>4, <1>5, <1>6 DEF PipelineTypeOK

-----------------------------------------------------------------------------
(* What is acknowledged was handed on *)

LEMMA RequestTypes ==
  ASSUME PTypes, NEW n \in DOMAIN stream["action"]
  PROVE  stream["action"][n].of \in Nat /\ stream["action"][n].req \in Asked
<1>1. stream["action"] \in Seq(Msgs("action"))
  BY DEF PTypes, Streams, Consumers
<1>2. stream["action"][n] \in Msgs("action")
  BY <1>1
<1>3. stream["action"][n] \in [of : Nat, req : Asked]
  BY <1>2, MessageTypes, Zenon
<1>4. QED
  BY <1>3

LEMMA Lasting ==
  ASSUME PTypes, PipelineNext
  PROVE  /\ \A id : HasStimulus(id) => HasStimulus(id)'
         /\ \A n \in DOMAIN stream["thinking"] : HasRequest(n) => HasRequest(n)'
         /\ \A n \in DOMAIN stream["action"] :
              /\ HasOutcome(n) => HasOutcome(n)'
              /\ HasReminders(n) => HasReminders(n)'
              /\ HasNotification(n) => HasNotification(n)'
              /\ \A j : HasRemindersBefore(n, j) => HasRemindersBefore(n, j)'
              /\ Reported(n) => Reported(n)'
         /\ \A n : HasEpisode(n) => HasEpisode(n)'
<1>1. \A c \in Consumers : \A n \in DOMAIN stream[c] :
        n \in DOMAIN stream'[c] /\ stream'[c][n] = stream[c][n]
  BY NextStreamStep, StreamsStay DEF PTypes, StreamsGrow
<1>2. \A c \in Consumers : Range(stream[c]) \subseteq Range(stream'[c])
  BY <1>1 DEF Range
<1>3. lost \subseteq lost' /\ reminders \subseteq reminders' /\ notified \subseteq notified'
  BY NextEffects
<1>4. "thinking" \in Consumers /\ "action" \in Consumers /\ "memory" \in Consumers
  BY DEF Consumers
<1>5. ASSUME NEW id, HasStimulus(id) PROVE HasStimulus(id)'
  BY <1>2, <1>4, <1>5 DEF HasStimulus
<1>6. ASSUME NEW n \in DOMAIN stream["thinking"], HasRequest(n) PROVE HasRequest(n)'
  <2>1. stream'["thinking"][n] = stream["thinking"][n]
    BY <1>1, <1>4
  <2>2. CASE Match(stream["thinking"][n]) = <<>>
    BY <2>1, <2>2 DEF HasRequest
  <2>3. CASE <<"thinking", n>> \in lost
    BY <1>3, <2>3 DEF HasRequest
  <2>4. CASE \E r \in Requests : r.of = n
    BY <1>2, <1>4, <2>4 DEF HasRequest, Requests
  <2>5. QED
    BY <1>6, <2>2, <2>3, <2>4 DEF HasRequest
<1>7. ASSUME NEW n \in DOMAIN stream["action"]
      PROVE  /\ HasOutcome(n) => HasOutcome(n)'
             /\ HasReminders(n) => HasReminders(n)'
             /\ HasNotification(n) => HasNotification(n)'
             /\ \A j : HasRemindersBefore(n, j) => HasRemindersBefore(n, j)'
             /\ Reported(n) => Reported(n)'
  <2>1. stream'["action"][n] = stream["action"][n]
    BY <1>1, <1>4
  <2>2. HasOutcome(n) => HasOutcome(n)'
    BY <1>2, <1>3, <1>4 DEF HasOutcome, Outcomes
  <2>3. HasReminders(n) => HasReminders(n)'
    BY <1>3, <2>1 DEF HasReminders, Queued
  <2>4. HasNotification(n) => HasNotification(n)'
    BY <1>3, <2>1 DEF HasNotification
  <2>5. ASSUME NEW j, HasRemindersBefore(n, j) PROVE HasRemindersBefore(n, j)'
    BY <1>3, <2>1, <2>5 DEF HasRemindersBefore, Queued
  <2>6. ASSUME Reported(n) PROVE Reported(n)'
    <3> DEFINE req == stream["action"][n].req
    <3>2. req \in Asked
      BY RequestTypes
    <3>3. req.occurred \in Days /\ req.important \in BOOLEAN
      BY <3>2, AskedTypes
    <3>4. PICK k \in DOMAIN report[req.occurred][req.important] :
            /\ report[req.occurred][req.important][k].of = n
            /\ report[req.occurred][req.important][k].whole
      BY <2>6 DEF Reported
    <3>5. ReportGrows
      BY NextEffects, ReportStays
    <3> HIDE DEF req
    <3>6. /\ k \in DOMAIN report'[req.occurred][req.important]
          /\ report'[req.occurred][req.important][k].of = n
          /\ report'[req.occurred][req.important][k].whole
      BY <3>3, <3>4, <3>5, Zenon DEF ReportGrows
    <3>7. stream'["action"][n].req = req
      BY <2>1 DEF req
    <3>8. QED
      BY <3>6, <3>7, Zenon DEF Reported
  <2>7. QED
    BY <2>2, <2>3, <2>4, <2>5, <2>6
<1>8. ASSUME NEW n, HasEpisode(n) PROVE HasEpisode(n)'
  <2>1. \A i \in DOMAIN episodes : i \in DOMAIN episodes' /\ episodes'[i] = episodes[i]
    BY NextEffects, EpisodesStay
  <2>2. QED
    BY <1>8, <2>1 DEF HasEpisode, Range
<1>9. QED
  BY <1>5, <1>6, <1>7, <1>8

\* What is newly labelled, published or acknowledged was at work.
LEMMA NextAcked ==
  ASSUME PTypes, PipelineNext
  PROVE  /\ seen' \subseteq seen \cup ({current} \ {NoMail})
         /\ \/ current' \in {current, NoMail}
            \/ \E id \in ids : PublishMail(id) /\ current' = id
         /\ \A c \in Consumers : \A n \in acked'[c] :
              n \in acked[c] \/ (pc[c] = "ack" /\ n = Seq1(c))
<1>1. UNCHANGED <<seen, current>> =>
        /\ seen' \subseteq seen \cup ({current} \ {NoMail})
        /\ current' \in {current, NoMail}
  OBVIOUS
<1>2. Watcher \/ RestartPerception =>
        /\ seen' \subseteq seen \cup ({current} \ {NoMail})
        /\ \/ current' \in {current, NoMail}
           \/ \E id \in ids : PublishMail(id) /\ current' = id
        /\ UNCHANGED acked
  BY DEF Watcher, Poll, AddLabel, SkipMessage, PublishMail, PublishMailFails,
     RestartPerception, nats
<1>3. Intake \/ Outage \/ Reconnect \/ OwnerActs => UNCHANGED <<seen, current, acked>>
  BY DEF Intake, Backfill, PerceiveCLI, Alert, Outage, Reconnect, OwnerActs, gmail, nats
<1>4. Thinking \/ Action \/ Memory => UNCHANGED <<seen, current, acked>>
  BY DEF Thinking, Think, PublishRequest, PublishRequestFails, Action, AppendReportEntry,
     AppendReportEntryFails, SaveEvent, SaveEventFails, Notify, PublishOutcome,
     PublishOutcomeFails, Memory, WriteEpisode, WriteEpisodeFails, gmail, nats
<1>5. \A c \in Consumers : Deliver(c) \/ Expire(c) \/ RestartService(c)
        => UNCHANGED <<seen, current, acked>>
  BY DEF Deliver, Expire, RestartService, gmail
<1>6. ASSUME NEW c \in Consumers, Ack(c)
      PROVE  /\ UNCHANGED <<seen, current>>
             /\ \A d \in Consumers : \A n \in acked'[d] :
                  n \in acked[d] \/ (pc[d] = "ack" /\ n = Seq1(d))
  <2>1. UNCHANGED <<seen, current>> /\ pc[c] = "ack"
    BY <1>6 DEF Ack, gmail
  <2>2. UNCHANGED acked \/ acked' = [acked EXCEPT ![c] = acked[c] \cup {Seq1(c)}]
    BY <1>6 DEF Ack
  <2>3. acked \in [Consumers -> SUBSET Nat]
    BY DEF PTypes, Buffers
  <2>4. QED
    BY <2>1, <2>2, <2>3
<1>7. QED
  BY <1>1, <1>2, <1>3, <1>4, <1>5, <1>6 DEF PipelineNext, Consume

LEMMA NextHandedOn ==
  ASSUME PTypes, HandedOn, AtHead, PipelineNext
  PROVE  HandedOn'
<1>1. /\ \A n \in acked["thinking"] : n \in DOMAIN stream["thinking"]
      /\ \A n \in acked["action"] : n \in DOMAIN stream["action"]
      /\ "thinking" \in Consumers /\ "action" \in Consumers /\ "memory" \in Consumers
  BY DEF PTypes, Buffers, Consumers
<1>2. /\ pc["thinking"] = "ack" => Seq1("thinking") \in DOMAIN stream["thinking"]
      /\ pc["action"] = "ack" => Seq1("action") \in DOMAIN stream["action"]
  BY <1>1, AtWork DEF PTypes, Handlers
<1>3. ASSUME NEW id \in seen' PROVE HasStimulus(id)'
  <2>1. HasStimulus(id)
    BY <1>3, NextAcked DEF HandedOn, AtHead
  <2>2. QED
    BY <2>1, Lasting
<1>4. ASSUME NEW n \in acked'["thinking"] PROVE HasRequest(n)'
  <2>1. n \in acked["thinking"] \/ (pc["thinking"] = "ack" /\ n = Seq1("thinking"))
    BY <1>1, NextAcked
  <2>2. HasRequest(n) /\ n \in DOMAIN stream["thinking"]
    BY <1>1, <1>2, <2>1 DEF HandedOn, AtHead
  <2>3. QED
    BY <2>2, Lasting
<1>5. ASSUME NEW n \in acked'["action"]
      PROVE  (HasOutcome(n) /\ HasReminders(n) /\ HasNotification(n))'
  <2>1. n \in acked["action"] \/ (pc["action"] = "ack" /\ n = Seq1("action"))
    BY <1>1, NextAcked
  <2>2. /\ HasOutcome(n) /\ HasReminders(n) /\ HasNotification(n)
        /\ n \in DOMAIN stream["action"]
    BY <1>1, <1>2, <2>1 DEF HandedOn, AtHead
  <2>3. QED
    BY <2>2, Lasting
<1>6. ASSUME NEW n \in acked'["memory"] PROVE HasEpisode(n)'
  <2>1. n \in acked["memory"] \/ (pc["memory"] = "ack" /\ n = Seq1("memory"))
    BY <1>1, NextAcked
  <2>2. HasEpisode(n)
    BY <2>1 DEF HandedOn, AtHead
  <2>3. QED
    BY <2>2, Lasting
<1>7. QED
  BY <1>3, <1>4, <1>5, <1>6 DEF HandedOn

\* The thinking handler's message, the watcher's mail and memory's outcome.
LEMMA NextAtHeadElsewhere ==
  ASSUME PTypes, AtHead, PipelineNext
  PROVE  /\ current' # NoMail => HasStimulus(current)'
         /\ pc'["thinking"] = "ack" => HasRequest(Seq1("thinking"))'
         /\ pc'["memory"] = "ack" => HasEpisode(Seq1("memory"))'
<1>0. "thinking" \in Consumers /\ "action" \in Consumers /\ "memory" \in Consumers
  BY DEF Consumers
<1>1. ASSUME current' # NoMail PROVE HasStimulus(current)'
  <2>1. CASE current' = current
    <3>1. HasStimulus(current)
      BY <1>1, <2>1 DEF AtHead
    <3>2. PICK s \in Range(stream["thinking"]) : s.source = current
      BY <3>1 DEF HasStimulus
    <3>3. HasStimulus(s.source)
      BY <3>2 DEF HasStimulus
    <3>4. HasStimulus(s.source)'
      BY <3>3, Lasting
    <3>5. PICK r \in Range(stream'["thinking"]) : r.source = s.source
      BY <3>4 DEF HasStimulus
    <3>6. QED
      BY <2>1, <3>2, <3>5 DEF HasStimulus
  <2>2. ASSUME NEW id \in ids, PublishMail(id), current' = id PROVE HasStimulus(current)'
    <3>1. /\ Built[mailbox[id]] \in Msgs("thinking") /\ Built[mailbox[id]].source = id
          /\ PublishTo("thinking", Built[mailbox[id]])
      BY <2>2, RightMessages DEF PublishMail, PTypes, Watching
    <3>2. Len(stream["thinking"]) + 1 \in DOMAIN stream'["thinking"] /\
          stream'["thinking"][Len(stream["thinking"]) + 1] = Built[mailbox[id]]
      BY <1>0, <3>1, OneMessageMore DEF PTypes
    <3>3. Built[mailbox[id]] \in Range(stream'["thinking"])
      BY <3>2 DEF Range
    <3>4. QED
      BY <2>2, <3>1, <3>3 DEF HasStimulus
  <2>3. QED
    BY <1>1, <2>1, <2>2, NextAcked
<1>2. ASSUME pc'["thinking"] = "ack" PROVE HasRequest(Seq1("thinking"))'
  <2>1. buf["thinking"] # <<>>
    BY <1>0, <1>2, NextControl
  <2>2. Seq1("thinking")' = Seq1("thinking") /\ Seq1("thinking") \in DOMAIN stream["thinking"]
    BY <1>0, <1>2, <2>1, NextHead, AtWork DEF PTypes
  <2>3. PICK n \in DOMAIN stream["thinking"] : n = Seq1("thinking")
    BY <2>2
  <2>4. SUFFICES HasRequest(n)'
    BY <2>2, <2>3 DEF HasRequest
  <2>5. CASE pc["thinking"] = "ack"
    <3>1. HasRequest(n)
      BY <2>3, <2>5 DEF AtHead
    <3>2. QED
      BY <3>1, Lasting
  <2>6. CASE Think
    <3>1. ~Goto("thinking", "publish")
      BY <1>0, <1>2 DEF Goto, PTypes, Handlers
    <3>2. Match(Message("thinking")) = <<>>
      BY <2>6, <3>1, ThoughtOut
    <3>3. HasRequest(n)
      BY <2>3, <3>2 DEF HasRequest, Message
    <3>4. QED
      BY <3>3, Lasting
  <2>7. CASE PublishRequestFails
    BY <2>3, <2>7 DEF PublishRequestFails, GiveUp, HasRequest
  <2>8. CASE PublishRequest
    <3>1. Request \in Msgs("action") /\ PublishTo("action", Request)
      BY <2>8, RightMessages DEF PublishRequest
    <3>2. Len(stream["action"]) + 1 \in DOMAIN stream'["action"] /\
          stream'["action"][Len(stream["action"]) + 1] = Request
      BY <1>0, <3>1, OneMessageMore DEF PTypes
    <3>3. Request \in Range(stream'["action"])
      BY <3>2 DEF Range
    <3>4. QED
      BY <2>3, <3>3 DEF HasRequest, Requests, Request
  <2>9. QED
    BY <1>2, <2>5, <2>6, <2>7, <2>8, NextControl
<1>3. ASSUME pc'["memory"] = "ack" PROVE HasEpisode(Seq1("memory"))'
  <2>1. buf["memory"] # <<>>
    BY <1>0, <1>3, NextControl
  <2>2. Seq1("memory")' = Seq1("memory") /\ Seq1("memory") \in Nat
    BY <1>0, <1>3, <2>1, NextHead, AtWork DEF PTypes
  <2>3. PICK n \in Nat : n = Seq1("memory")
    BY <2>2
  <2>4. SUFFICES HasEpisode(n)'
    BY <2>2, <2>3 DEF HasEpisode
  <2>5. CASE pc["memory"] = "ack"
    <3>1. HasEpisode(n)
      BY <2>3, <2>5 DEF AtHead
    <3>2. QED
      BY <3>1, Lasting
  <2>6. CASE WriteEpisode
    <3>1. episodes' = Insert(n, Message("memory"))
      BY <2>3, <2>6 DEF WriteEpisode
    <3>2. CASE \E row \in Range(episodes) : row[1] = n
      <4>1. HasEpisode(n)
        BY <3>2 DEF HasEpisode
      <4>2. QED
        BY <4>1, Lasting
    <3>3. CASE ~\E row \in Range(episodes) : row[1] = n
      <4> DEFINE row == <<n, Message("memory")>>
                 Rows == Nat \X Msgs("memory")
      <4>1. episodes' = Append(episodes, row)
        BY <3>1, <3>3 DEF Insert
      <4>2. row \in Rows /\ episodes \in Seq(Rows) /\ row[1] = n
        BY <1>0, <2>1, <2>3, AtWork DEF PTypes, Kept
      <4> HIDE DEF row, Rows
      <4>3. Len(episodes) + 1 \in DOMAIN episodes' /\ episodes'[Len(episodes) + 1] = row
        BY <4>1, <4>2
      <4>4. row \in Range(episodes')
        BY <4>3 DEF Range
      <4>5. QED
        BY <4>2, <4>4 DEF HasEpisode
    <3>4. QED
      BY <3>2, <3>3
  <2>7. QED
    BY <1>3, <2>5, <2>6, NextControl
<1>4. QED
  BY <1>1, <1>2, <1>3

\* The action handler's request.
LEMMA NextAtHeadAction ==
  ASSUME PTypes, AtHead, PipelineNext
  PROVE  /\ pc'["action"] = "effects" => HasRemindersBefore(Seq1("action"), ev)'
         /\ pc'["action"] \in {"publish", "ack"} =>
              HasReminders(Seq1("action"))' /\ HasNotification(Seq1("action"))'
         /\ pc'["action"] = "ack" => HasOutcome(Seq1("action"))'
<1>0. "action" \in Consumers /\ "memory" \in Consumers
  BY DEF Consumers
<1> SUFFICES ASSUME pc'["action"] # "idle"
             PROVE  /\ pc'["action"] = "effects" => HasRemindersBefore(Seq1("action"), ev)'
                    /\ pc'["action"] \in {"publish", "ack"} =>
                         HasReminders(Seq1("action"))' /\ HasNotification(Seq1("action"))'
                    /\ pc'["action"] = "ack" => HasOutcome(Seq1("action"))'
  OBVIOUS
<1>1. buf["action"] # <<>>
  BY <1>0, NextControl
<1>2. Seq1("action")' = Seq1("action") /\ Seq1("action") \in DOMAIN stream["action"]
  BY <1>0, <1>1, NextHead, AtWork DEF PTypes
<1>3. PICK n \in DOMAIN stream["action"] : n = Seq1("action")
  BY <1>2
<1>4. stream'["action"][n] = stream["action"][n] /\ stream["action"][n].req = Req
  BY <1>0, <1>3, NextStreamStep, StreamsStay DEF PTypes, StreamsGrow, Req, Message
<1>5. Req \in Asked
  BY <1>1, RequestAtWork
<1>6. ev \in Nat
  BY DEF PTypes, Handlers
<1>7. ASSUME pc'["action"] = "effects" PROVE HasRemindersBefore(Seq1("action"), ev)'
  <2>1. SUFFICES ASSUME NEW j, j = ev' PROVE HasRemindersBefore(n, j)'
    BY <1>2, <1>3 DEF HasRemindersBefore
  <2>2. CASE AppendReportEntry \/ AppendReportEntryFails
    <3>1. ev' = 1
      BY <1>0, <1>7, <2>2
      DEF AppendReportEntry, AppendReportEntryFails, Appended, Retry, Goto, PTypes, Handlers
    <3>2. Req.events \in Seq(Dates)
      BY <1>5, AskedTypes
    <3>3. \A i \in DOMAIN Req.events : ~(i < 1)
      BY <3>2
    <3>4. QED
      BY <1>4, <2>1, <3>1, <3>3 DEF HasRemindersBefore
  <2>3. CASE pc["action"] = "effects" /\ ev' = ev
    <3>1. HasRemindersBefore(n, j)
      BY <1>3, <2>1, <2>3 DEF AtHead
    <3>2. QED
      BY <3>1, Lasting
  <2>4. CASE SaveEventFails
    BY <1>3, <2>4 DEF SaveEventFails, HasRemindersBefore
  <2>5. CASE SaveEvent
    <3>1. /\ ev' = ev + 1 /\ pc["action"] = "effects"
          /\ Queued(Req.events[ev]) => <<Req.thread, ev, Req.events[ev]>> \in reminders'
      BY <2>5 DEF SaveEvent
    <3>2. PICK i \in Nat : i = ev
      BY <1>6
    <3>3. HasRemindersBefore(n, i)
      BY <1>3, <3>1, <3>2 DEF AtHead
    <3>4. HasRemindersBefore(n, i)'
      BY <3>3, Lasting
    <3>5. \A k \in Nat : k < j => k < i \/ k = i
      BY <2>1, <3>1, <3>2
    <3>6. \A k \in DOMAIN Req.events : k \in Nat
      BY <1>5, AskedTypes
    <3>7. QED
      BY <1>4, <3>1, <3>2, <3>4, <3>5, <3>6 DEF HasRemindersBefore, Queued
  <2>6. QED
    BY <1>7, <2>2, <2>3, <2>4, <2>5, NextControl
<1>8. ASSUME HasReminders(n)', HasNotification(n)'
      PROVE  HasReminders(Seq1("action"))' /\ HasNotification(Seq1("action"))'
  BY <1>2, <1>3, <1>8 DEF HasReminders, HasNotification
<1>9. ASSUME Notify
      PROVE  HasReminders(Seq1("action"))' /\ HasNotification(Seq1("action"))'
  <2>1. /\ pc["action"] = "effects"
        /\ School => ev > Len(Req.events)
        /\ lost' = lost /\ reminders' = reminders
        /\ notified' = IF Req.important /\ ~School THEN notified \cup {n} ELSE notified
    BY <1>3, <1>9 DEF Notify
  <2>3. /\ Req.events \in Seq(Dates)
        /\ School => (Req.important <=> Req.events # <<>>)
        /\ ~School => Req.events = <<>>
    BY <1>5, AskedTypes DEF School
  <2>4. PICK i \in Nat : i = ev
    BY <1>6
  <2>5. HasRemindersBefore(n, i)'
    <3>1. HasRemindersBefore(n, i)
      BY <1>3, <2>1, <2>4 DEF AtHead
    <3>2. QED
      BY <3>1, Lasting
  <2>6. \A k \in DOMAIN Req.events : k < i
    <3>1. CASE School
      BY <2>1, <2>3, <2>4, <3>1
    <3>2. CASE ~School
      BY <2>3, <3>2
    <3>3. QED
      BY <3>1, <3>2
  <2>7. HasReminders(n)'
    BY <1>4, <2>5, <2>6 DEF HasReminders, HasRemindersBefore
  <2>8. HasNotification(n)'
    BY <1>4, <2>1, <2>3 DEF HasNotification
  <2>9. QED
    BY <1>8, <2>7, <2>8
<1>10. ASSUME pc["action"] \in {"publish", "ack"}
       PROVE  HasReminders(Seq1("action"))' /\ HasNotification(Seq1("action"))'
  <2>1. HasReminders(n) /\ HasNotification(n)
    BY <1>3, <1>10 DEF AtHead
  <2>2. QED
    BY <1>8, <2>1, Lasting
<1>11. ASSUME HasOutcome(n)' PROVE HasOutcome(Seq1("action"))'
  BY <1>2, <1>3, <1>11 DEF HasOutcome
<1>12. ASSUME pc["action"] = "ack" PROVE HasOutcome(Seq1("action"))'
  <2>1. HasOutcome(n)
    BY <1>3, <1>12 DEF AtHead
  <2>2. QED
    BY <1>11, <2>1, Lasting
<1>13. CASE pc'["action"] = "publish"
  BY <1>9, <1>10, <1>13, NextControl
<1>14. CASE pc'["action"] = "ack"
  <2>1. pc["action"] = "ack" \/ PublishOutcome \/ PublishOutcomeFails
    BY <1>14, NextControl
  <2>2. pc["action"] \in {"publish", "ack"}
    BY <2>1 DEF PublishOutcome, PublishOutcomeFails
  <2>3. HasReminders(Seq1("action"))' /\ HasNotification(Seq1("action"))'
    BY <1>10, <2>2
  <2>4. HasOutcome(Seq1("action"))'
    <3>1. CASE pc["action"] = "ack"
      BY <1>12, <3>1
    <3>2. CASE PublishOutcomeFails
      BY <1>3, <1>11, <3>2 DEF PublishOutcomeFails, GiveUp, HasOutcome
    <3>3. CASE PublishOutcome
      <4>1. Outcome \in Msgs("memory") /\ PublishTo("memory", Outcome)
        BY <3>3, RightMessages DEF PublishOutcome
      <4>2. Len(stream["memory"]) + 1 \in DOMAIN stream'["memory"] /\
            stream'["memory"][Len(stream["memory"]) + 1] = Outcome
        BY <1>0, <4>1, OneMessageMore DEF PTypes
      <4>3. Outcome \in Range(stream'["memory"])
        BY <4>2 DEF Range
      <4>4. HasOutcome(n)'
        BY <1>3, <4>3 DEF HasOutcome, Outcomes, Outcome
      <4>5. QED
        BY <1>11, <4>4
    <3>4. QED
      BY <2>1, <3>1, <3>2, <3>3
  <2>5. QED
    BY <1>14, <2>3, <2>4
<1>15. QED
  BY <1>7, <1>13, <1>14

LEMMA NextAtHead ==
  ASSUME PTypes, AtHead, PipelineNext
  PROVE  AtHead'
  BY NextAtHeadElsewhere, NextAtHeadAction DEF AtHead

-----------------------------------------------------------------------------
(* A success is in the report *)

\* The whole entry is in its file when the append has succeeded.
LEMMA EntryAppended ==
  ASSUME PTypes, AppendReportEntry, NEW n \in DOMAIN stream["action"], n = Seq1("action")
  PROVE  Reported(n)'
<1>1. buf["action"] # <<>>
  BY DEF AppendReportEntry, AtEntry, Begin, PTypes, Handlers, Consumers
<1>2. /\ Day \in Days /\ Req.important \in BOOLEAN /\ Req = stream["action"][n].req
      /\ report[Day][Req.important] \in Seq(Blocks) /\ Entry \in Blocks
  BY <1>1, RequestAtWork
<1>3. PICK d \in Days, i \in BOOLEAN : d = Day /\ i = Req.important
  BY <1>2
<1>4. PICK file \in Seq(Blocks) : file = report[d][i]
  BY <1>2, <1>3
<1>5. PICK f : f = AppendEntry(file, Entry)
  OBVIOUS
<1>6. report' = [report EXCEPT ![d][i] = f]
  BY <1>3, <1>4, <1>5 DEF AppendReportEntry, SetReport
<1>7. f \in Seq(Blocks) /\ Len(f) = Len(file) + 1 /\ f[Len(file) + 1] = Entry
  BY <1>2, <1>4, <1>5, AppendEntryExtends DEF Extends
<1>8. report'[d][i] = f
  <2>1. Filed(d, i, f)
    BY <1>6, <1>7, FileSet
  <2>2. QED
    BY <2>1 DEF Filed
<1>9. Entry.of = n /\ Entry.whole
  BY DEF Entry
<1>10. Len(file) + 1 \in DOMAIN f
  BY <1>7
<1>11. PICK k \in DOMAIN f : f[k].of = n /\ f[k].whole
  BY <1>7, <1>9, <1>10
<1>12. stream'["action"][n] = stream["action"][n]
  BY DEF AppendReportEntry
<1>13. stream'["action"][n].req.occurred = d /\ stream'["action"][n].req.important = i
  BY <1>2, <1>3, <1>12 DEF Day
<1>14. k \in DOMAIN report'[d][i] /\ report'[d][i][k].of = n /\ report'[d][i][k].whole
  BY <1>8, <1>11
<1>15. QED
  BY <1>13, <1>14, Zenon DEF Reported

LEMMA NextEntryAtHead ==
  ASSUME PTypes, EntryAtHead, PipelineNext
  PROVE  EntryAtHead'
<1>0. "action" \in Consumers
  BY DEF Consumers
<1> SUFFICES ASSUME pc'["action"] \in {"effects", "publish"}, entryStatus' = "success"
             PROVE  Reported(Seq1("action"))'
  BY DEF EntryAtHead
<1>1. buf["action"] # <<>>
  BY <1>0, NextControl
<1>2. Seq1("action")' = Seq1("action") /\ Seq1("action") \in DOMAIN stream["action"]
  BY <1>0, <1>1, NextHead, AtWork DEF PTypes
<1>3. PICK n \in DOMAIN stream["action"] : n = Seq1("action")
  BY <1>2
<1>4. SUFFICES Reported(n)'
  BY <1>2, <1>3 DEF Reported
<1>5. CASE AppendReportEntry
  BY <1>3, <1>5, EntryAppended
<1>6. ~AppendReportEntryFails
  BY <1>0 DEF AppendReportEntryFails, Retry, Appended, Goto, PTypes, Handlers
<1>7. CASE pc["action"] \in {"effects", "publish"} /\ entryStatus' = entryStatus
  <2>1. Reported(n)
    BY <1>3, <1>7 DEF EntryAtHead
  <2>2. QED
    BY <2>1, Lasting
<1>8. Notify => pc["action"] = "effects" /\ entryStatus' = entryStatus
  BY DEF Notify, local
<1>9. QED
  BY <1>5, <1>6, <1>7, <1>8, NextControl

LEMMA NextSuccess ==
  ASSUME PTypes, SuccessIsReported, EntryAtHead, PipelineNext
  PROVE  SuccessIsReported'
<1>0. "action" \in Consumers /\ "memory" \in Consumers
  BY DEF Consumers
<1>1. ASSUME NEW n \in DOMAIN stream'["memory"], stream'["memory"][n].status = "success",
             NEW r, r = stream'["memory"][n].of
      PROVE  Reported(r)'
  <2>1. CASE n \in DOMAIN stream["memory"]
    <3>1. stream'["memory"][n] = stream["memory"][n]
      BY <1>0, <2>1, NextStreamStep, StreamsStay DEF PTypes, StreamsGrow
    <3>2. PICK m \in DOMAIN stream["action"] : m = stream["memory"][n].of
      BY <2>1 DEF PTypes, Kept
    <3>3. stream["memory"][n] \in Outcomes
      BY <2>1 DEF Outcomes, Range
    <3>4. Reported(m)
      BY <1>1, <3>1, <3>2, <3>3 DEF SuccessIsReported
    <3>5. Reported(m)'
      BY <3>4, Lasting
    <3>6. m = r
      BY <1>1, <3>1, <3>2
    <3>7. QED
      BY <3>5, <3>6
  <2>2. CASE n \notin DOMAIN stream["memory"]
    <3>1. pc["action"] = "publish" /\ PublishTo("memory", Outcome)
      BY <2>2, NextPublishes DEF PublishOutcome, PublishOutcomeFails, PublishToFails
    <3>2. Outcome \in Msgs("memory")
      BY <3>1, RightMessages
    <3>3. stream'["memory"][n] = Outcome
      BY <1>0, <2>2, <3>1, <3>2, OneMessageMore DEF PTypes
    <3>4. buf["action"] # <<>>
      BY <1>0, <3>1 DEF PTypes, Handlers
    <3>5. PICK m \in DOMAIN stream["action"] : m = Seq1("action")
      BY <1>0, <3>4, AtWork DEF PTypes
    <3>6. r = m /\ entryStatus = "success"
      BY <1>1, <3>3, <3>5 DEF Outcome
    <3>7. Reported(m)
      BY <3>1, <3>5, <3>6 DEF EntryAtHead
    <3>8. Reported(m)'
      BY <3>7, Lasting
    <3>9. QED
      BY <3>6, <3>8
  <2>3. QED
    BY <2>1, <2>2
<1>2. ASSUME NEW o \in Outcomes', o.status = "success" PROVE Reported(o.of)'
  <2>1. PICK n \in DOMAIN stream'["memory"] : o = stream'["memory"][n]
    BY DEF Outcomes, Range
  <2>2. PICK r : r = o.of
    OBVIOUS
  <2>3. Reported(r)'
    BY <1>1, <1>2, <2>1, <2>2
  <2>4. QED
    BY <2>2, <2>3
<1>3. ASSUME NEW d \in DOMAIN report', NEW i \in BOOLEAN PROVE WellSeparated(report'[d][i])
  <2>1. d \in Days /\ d \in DOMAIN report
    BY NextEffects, ReportStays DEF PTypes, Kept
  <2>2. WellSeparated(report[d][i])
    BY <2>1 DEF SuccessIsReported
  <2>3. QED
    BY <2>1, <2>2, NextEffects, ReportStays, Zenon
<1>4. QED
  BY <1>2, <1>3 DEF SuccessIsReported

-----------------------------------------------------------------------------
(* What a consumer still has to do *)

LEMMA LoadTypes ==
  ASSUME PTypes, NEW c \in Consumers, NEW L, "idle" \notin L, NEW x
  PROVE  /\ IsFiniteSet(Of(c, x)) /\ From(L, c) \in {1, 2} /\ buf[c] \in Seq(Nat)
         /\ From(L, c) = 2 => buf[c] # <<>>
         /\ Load(c, Of(c, x), From(L, c)) \in Nat
<1>1. Len(stream[c]) \in Nat /\ DOMAIN stream[c] = 1..Len(stream[c])
  BY DEF PTypes, Streams
<1>2. IsFiniteSet(1..Len(stream[c]))
  BY <1>1, UpToFinite
<1>3. IsFiniteSet(Of(c, x))
  BY <1>1, <1>2, FS_Subset DEF Of
<1>4. From(L, c) \in {1, 2} /\ (From(L, c) = 2 => pc[c] # "idle")
  BY DEF From
<1>5. buf[c] \in Seq(Nat) /\ (pc[c] # "idle" => buf[c] # <<>>)
  BY DEF PTypes, Buffers, Handlers
<1>6. Load(c, Of(c, x), From(L, c)) \in Nat
  BY <1>3, <1>4, <1>5, WeightType DEF Load
<1>7. QED
  BY <1>3, <1>4, <1>5, <1>6

LEMMA LoadSame ==
  ASSUME NEW c, NEW L, NEW x, stream'[c] = stream[c], acked'[c] = acked[c], out'[c] = out[c],
         buf'[c] = buf[c], pc'[c] \in L <=> pc[c] \in L
  PROVE  Load(c, Of(c, x), From(L, c))' = Load(c, Of(c, x), From(L, c))
<1>1. Of(c, x)' = Of(c, x)
  BY DEF Of
<1>2. From(L, c)' = From(L, c)
  BY DEF From
<1>3. QED
  BY <1>1, <1>2 DEF Load

\* A message more, of x or not.
LEMMA LoadPublished ==
  ASSUME PTypes, NEW c \in Consumers, NEW L, "idle" \notin L, NEW x, NEW msg \in Msgs(c),
         PublishTo(c, msg), UNCHANGED nats, pc'[c] \in L <=> pc[c] \in L
  PROVE  Load(c, Of(c, x), From(L, c))' =
           Load(c, Of(c, x), From(L, c)) + (IF SourceOf(c, msg) = x THEN 1 ELSE 0)
<1> DEFINE l == Len(stream[c]) + 1
           S == Of(c, x)
<1>1. /\ DOMAIN stream[c] = 1..(l - 1) /\ DOMAIN stream'[c] = 1..l /\ l \in Nat
      /\ stream'[c][l] = msg /\ \A n \in DOMAIN stream[c] : stream'[c][n] = stream[c][n]
  BY OneMessageMore DEF PTypes
<1>2. l \notin DOMAIN stream[c]
  BY <1>1
<1>3. l \notin S /\ l \notin acked[c] \cup out[c] /\ l \notin Range(buf[c])
  BY <1>2 DEF Of, PTypes, Buffers
<1>4. DOMAIN stream'[c] = DOMAIN stream[c] \cup {l}
  BY <1>1
<1> HIDE DEF l
<1>5. S' = IF SourceOf(c, msg) = x THEN S \cup {l} ELSE S
  <2>1. S' = {n \in DOMAIN stream[c] \cup {l} : SourceOf(c, stream'[c][n]) = x}
    BY <1>4 DEF Of
  <2>2. S = {n \in DOMAIN stream[c] : SourceOf(c, stream'[c][n]) = x}
    BY <1>1 DEF Of
  <2>3. CASE SourceOf(c, msg) = x
    BY <1>1, <2>1, <2>2, <2>3
  <2>4. CASE SourceOf(c, msg) # x
    BY <1>1, <2>1, <2>2, <2>4
  <2>5. QED
    BY <2>3, <2>4
<1>6. From(L, c)' = From(L, c)
  BY DEF From
<1>7. /\ acked' = acked /\ out' = out /\ buf' = buf
      /\ IsFiniteSet(S) /\ From(L, c) \in {1, 2} /\ buf[c] \in Seq(Nat)
      /\ Load(c, Of(c, x), From(L, c)) \in Nat
  BY LoadTypes DEF nats
<1> HIDE DEF S
<1>8. Load(c, Of(c, x), From(L, c))' = Weight(S', acked[c] \cup out[c], buf[c], From(L, c))
  BY <1>6, <1>7 DEF Load, S
<1>9. Load(c, Of(c, x), From(L, c)) = Weight(S, acked[c] \cup out[c], buf[c], From(L, c))
  BY DEF Load, S
<1>10. CASE SourceOf(c, msg) = x
  <2>1. Weight(S \cup {l}, acked[c] \cup out[c], buf[c], From(L, c))
          = Weight(S, acked[c] \cup out[c], buf[c], From(L, c)) + 1
    BY <1>3, <1>7, WeightPublish
  <2>2. QED
    BY <1>5, <1>8, <1>9, <1>10, <2>1
<1>11. CASE SourceOf(c, msg) # x
  BY <1>5, <1>7, <1>8, <1>9, <1>11
<1>12. QED
  BY <1>10, <1>11

\* The handler gets past what counts with the message it is at.
LEMMA LoadHead ==
  ASSUME PTypes, NEW c \in Consumers, NEW L, "idle" \notin L, NEW x, buf[c] # <<>>,
         stream'[c] = stream[c], UNCHANGED nats, pc[c] \notin L, pc'[c] \in L
  PROVE  Load(c, Of(c, x), From(L, c)) =
           Load(c, Of(c, x), From(L, c))' + (IF SourceOf(c, Message(c)) = x THEN 1 ELSE 0)
<1> DEFINE S == Of(c, x)
<1>1. /\ From(L, c) = 1 /\ From(L, c)' = 2 /\ S' = S
      /\ acked' = acked /\ out' = out /\ buf' = buf
  BY DEF From, Of, nats
<1>2. IsFiniteSet(S) /\ buf[c] \in Seq(Nat)
  BY LoadTypes
<1>3. Head(buf[c]) \in S <=> SourceOf(c, Message(c)) = x
  BY AtWork DEF PTypes, Of, Seq1, Message
<1> HIDE DEF S
<1>4. /\ Load(c, Of(c, x), From(L, c)) = Weight(S, acked[c] \cup out[c], buf[c], 1)
      /\ Load(c, Of(c, x), From(L, c))' = Weight(S, acked[c] \cup out[c], buf[c], 2)
  BY <1>1 DEF Load, S
<1>5. Weight(S, acked[c] \cup out[c], buf[c], 1) =
        Weight(S, acked[c] \cup out[c], buf[c], 2) + (IF Head(buf[c]) \in S THEN 1 ELSE 0)
  BY <1>2, WeightHead
<1>6. QED
  BY <1>3, <1>4, <1>5

\* Only a mishap adds to what there is to be done with the buffers.
LEMMA LoadNats ==
  ASSUME PTypes, NEW c \in Consumers, NEW L, "idle" \notin L, "ack" \in L, NEW x,
         Deliver(c) \/ Expire(c) \/ Ack(c) \/ RestartService(c)
  PROVE  Load(c, Of(c, x), From(L, c))' + mishaps <= Load(c, Of(c, x), From(L, c)) + mishaps'
<1> DEFINE S == Of(c, x)
           b == buf[c]
           m == From(L, c)
           gone == acked[c] \cup out[c]
           W == Weight(S, gone, b, m)
<1>1. /\ IsFiniteSet(S) /\ m \in {1, 2} /\ b \in Seq(Nat) /\ (m = 2 => b # <<>>)
      /\ W \in Nat
  BY LoadTypes DEF Load
<1>2. /\ acked \in [Consumers -> SUBSET Nat] /\ out \in [Consumers -> SUBSET Nat]
      /\ buf \in [Consumers -> Seq(Nat)] /\ pc \in [Consumers -> Steps]
      /\ out[c] \subseteq Range(b) /\ mishaps \in Nat
  BY LimitsAssumption DEF PTypes, Buffers, Handlers, Watching, Steps
<1>3. UNCHANGED stream
  BY DEF Deliver, Expire, Ack, RestartService
<1>4. S' = S
  BY <1>3 DEF Of
<1>5. /\ Load(c, Of(c, x), From(L, c)) = W
      /\ Load(c, Of(c, x), From(L, c))' =
           Weight(S, acked'[c] \cup out'[c], buf'[c], From(L, c)')
  BY <1>4 DEF Load
<1>6. CASE Deliver(c)
  <2>1. PICK n \in DOMAIN stream[c] :
          /\ n \notin gone /\ out' = [out EXCEPT ![c] = @ \cup {n}]
          /\ buf' = [buf EXCEPT ![c] = Append(@, n)]
    BY <1>6 DEF Deliver
  <2>2. n \in Nat
    BY DEF PTypes, Streams
  <2>3. acked' = acked /\ pc' = pc /\ mishaps' = mishaps
    BY <1>6 DEF Deliver
  <2>4. /\ acked'[c] \cup out'[c] = gone \cup {n} /\ buf'[c] = Append(b, n)
        /\ From(L, c)' = m
    BY <1>2, <2>1, <2>3 DEF From
  <2> HIDE DEF S, b, m, gone, W
  <2>5. Weight(S, gone \cup {n}, Append(b, n), m) = Weight(S, gone, b, m)
    BY <1>1, <2>1, <2>2, WeightDeliver
  <2>6. Load(c, Of(c, x), From(L, c))' = Weight(S, gone \cup {n}, Append(b, n), m)
    BY <1>5, <2>4, Zenon
  <2>7. QED
    BY <1>1, <1>2, <1>5, <2>3, <2>5, <2>6 DEF W
<1>7. CASE Expire(c)
  <2>1. PICK n \in out[c] : out' = [out EXCEPT ![c] = @ \ {n}]
    BY <1>7 DEF Expire
  <2>2. acked' = acked /\ buf' = buf /\ pc' = pc /\ mishaps' = mishaps + 1
    BY <1>7 DEF Expire, Mishap
  <2>3. /\ gone \ {n} \subseteq acked'[c] \cup out'[c] /\ buf'[c] = b /\ From(L, c)' = m
    BY <1>2, <2>1, <2>2 DEF From
  <2>4. PICK left : left = acked'[c] \cup out'[c]
    OBVIOUS
  <2> HIDE DEF S, b, m, gone, W
  <2>5. Weight(S, left, b, m) <= Weight(S, gone, b, m) + 1
    BY <1>1, <2>3, <2>4, WeightAgain
  <2>6. Weight(S, left, b, m) \in Nat
    BY <1>1, WeightType
  <2>7. QED
    BY <1>1, <1>2, <1>5, <2>2, <2>3, <2>4, <2>5, <2>6 DEF W
<1>8. CASE Ack(c)
  <2>1. b # <<>> /\ pc[c] = "ack" /\ m = 2
    BY <1>8 DEF Ack, From, PTypes, Handlers
  <2>2. /\ buf'[c] = Tail(b) /\ out'[c] = out[c] \ {Seq1(c)} /\ pc'[c] = "idle"
        /\ From(L, c)' = 1
    BY <1>2, <1>8 DEF Ack, Goto, From
  <2>3. PICK left : left = acked'[c] \cup out'[c]
    OBVIOUS
  <2>4. Tail(b) \in Seq(Nat)
    BY <1>1, <2>1
  <2>5. Weight(S, left, Tail(b), 1) \in Nat
    BY <1>1, <2>4, WeightType
  <2>6. CASE acked' = [acked EXCEPT ![c] = @ \cup {Seq1(c)}] /\ UNCHANGED mishaps
    <3>1. gone \subseteq left
      BY <1>2, <2>2, <2>3, <2>6
    <3> HIDE DEF S, b, gone, W
    <3>2. Weight(S, left, Tail(b), 1) <= Weight(S, gone, b, 2)
      BY <1>1, <2>1, <3>1, WeightAck
    <3>3. W = Weight(S, gone, b, 2)
      BY <2>1 DEF W
    <3>4. QED
      BY <1>1, <1>2, <1>5, <2>2, <2>3, <2>5, <2>6, <3>2, <3>3
  <2>7. CASE UNCHANGED acked /\ Mishap
    <3>1. gone \ {Seq1(c)} \subseteq left /\ mishaps' = mishaps + 1
      BY <1>2, <2>2, <2>3, <2>7 DEF Mishap
    <3> HIDE DEF S, b, gone, W
    <3>2. Weight(S, left, Tail(b), 1) <= Weight(S, gone, Tail(b), 1) + 1
      BY <1>1, <2>4, <3>1, WeightAgain
    <3>3. Weight(S, gone, Tail(b), 1) <= Weight(S, gone, b, 2)
      BY <1>1, <2>1, WeightAck
    <3>4. Weight(S, gone, Tail(b), 1) \in Nat
      BY <1>1, <2>4, WeightType
    <3>5. W = Weight(S, gone, b, 2)
      BY <2>1 DEF W
    <3>6. QED
      BY <1>1, <1>2, <1>5, <2>2, <2>3, <2>5, <3>1, <3>2, <3>3, <3>4, <3>5
  <2>8. QED
    BY <1>8, <2>6, <2>7 DEF Ack
<1>9. CASE RestartService(c)
  <2>1. /\ out' = [out EXCEPT ![c] = {}] /\ buf' = [buf EXCEPT ![c] = <<>>]
        /\ acked' = acked /\ mishaps' = mishaps + 1 /\ pc' = [pc EXCEPT ![c] = "idle"]
    BY <1>9 DEF RestartService, Mishap, Goto
  <2>2. /\ acked'[c] \cup out'[c] = acked[c] /\ buf'[c] = <<>> /\ From(L, c)' = 1
    BY <1>2, <2>1 DEF From
  <2>3. Weight(S, acked[c], <<>>, 1) <= Weight(S, gone, b, m) + 1
    <3> HIDE DEF S, b, m
    <3>1. QED
      BY <1>1, <1>2, WeightRestart
  <2>4. Weight(S, acked[c], <<>>, 1) \in Nat
    <3>1. PICK e : e = <<>>
      OBVIOUS
    <3>2. e \in Seq(Nat)
      BY <3>1
    <3> HIDE DEF S
    <3>3. Weight(S, acked[c], e, 1) \in Nat
      BY <1>1, <3>2, WeightType
    <3>4. QED
      BY <3>1, <3>3
  <2> HIDE DEF S, b, m, gone
  <2>5. QED
    BY <1>1, <1>2, <1>5, <2>1, <2>2, <2>3, <2>4 DEF W
<1>10. QED
  BY <1>6, <1>7, <1>8, <1>9

-----------------------------------------------------------------------------
(* The entries in the reports *)

\* WholeEntries in the files J of the reports rep, of the requests reqs.
WholeOf(file, reqs, x) == {k \in DOMAIN file : file[k].whole /\ reqs[file[k].of].req.source = x}

EntriesIn(rep, J, reqs, x) ==
  UNION {UNION {{<<d, i, k>> : k \in WholeOf(rep[d][i], reqs, x)} : i \in J} : d \in DOMAIN rep}

LEMMA EntriesInReport ==
  ASSUME NEW x
  PROVE  /\ WholeEntries(x) = EntriesIn(report, BOOLEAN, stream["action"], x)
         /\ WholeEntries(x)' = EntriesIn(report', BOOLEAN, stream'["action"], x)
<1>1. WholeEntries(x) = EntriesIn(report, BOOLEAN, stream["action"], x)
  BY Zenon DEF WholeEntries, WholeIn, EntriesIn, WholeOf
<1>2. WholeEntries(x)' = EntriesIn(report', BOOLEAN, stream'["action"], x)
  BY Zenon DEF WholeEntries, WholeIn, EntriesIn, WholeOf
<1>3. QED
  BY <1>1, <1>2

LEMMA WholeMembers ==
  ASSUME NEW rep, NEW J, NEW reqs, NEW x
  PROVE  \A e : e \in EntriesIn(rep, J, reqs, x) <=>
           \E d \in DOMAIN rep : \E i \in J : \E k \in WholeOf(rep[d][i], reqs, x) : e = <<d, i, k>>
<1> DEFINE Of2(d, i) == {<<d, i, k>> : k \in WholeOf(rep[d][i], reqs, x)}
           Of1(d) == UNION {Of2(d, i) : i \in J}
<1>1. \A d, i, e : e \in Of2(d, i) <=> \E k \in WholeOf(rep[d][i], reqs, x) : e = <<d, i, k>>
  BY Zenon
<1>2. EntriesIn(rep, J, reqs, x) = UNION {Of1(d) : d \in DOMAIN rep}
  BY Zenon DEF EntriesIn
<1> HIDE DEF Of2
<1>3. \A d, e : e \in Of1(d) <=> \E i \in J : e \in Of2(d, i)
  BY Zenon
<1> HIDE DEF Of1
<1>4. \A e : e \in UNION {Of1(d) : d \in DOMAIN rep} <=> \E d \in DOMAIN rep : e \in Of1(d)
  BY Zenon
<1>5. TAKE e
<1>6. e \in EntriesIn(rep, J, reqs, x) <=> \E d \in DOMAIN rep : e \in Of1(d)
  BY <1>2, <1>4, Zenon
<1>7. (\E d \in DOMAIN rep : e \in Of1(d)) <=> \E d \in DOMAIN rep : \E i \in J : e \in Of2(d, i)
  BY <1>3, Zenon
<1>8. (\E d \in DOMAIN rep : \E i \in J : e \in Of2(d, i)) <=>
        \E d \in DOMAIN rep : \E i \in J : \E k \in WholeOf(rep[d][i], reqs, x) : e = <<d, i, k>>
  <2>1. ASSUME NEW d \in DOMAIN rep, NEW i \in J
        PROVE  e \in Of2(d, i) <=> \E k \in WholeOf(rep[d][i], reqs, x) : e = <<d, i, k>>
    BY <1>1
  <2>2. ASSUME NEW d \in DOMAIN rep, NEW i \in J, e \in Of2(d, i)
        PROVE  \E d2 \in DOMAIN rep : \E i2 \in J :
                 \E k \in WholeOf(rep[d2][i2], reqs, x) : e = <<d2, i2, k>>
    BY <2>1, <2>2
  <2>3. ASSUME NEW d \in DOMAIN rep, NEW i \in J,
               \E k \in WholeOf(rep[d][i], reqs, x) : e = <<d, i, k>>
        PROVE  \E d2 \in DOMAIN rep : \E i2 \in J : e \in Of2(d2, i2)
    BY <2>1, <2>3
  <2>4. QED
    BY <2>2, <2>3
<1>9. QED
  BY <1>6, <1>7, <1>8

\* What is in the one is in the other, or is odd.
LEMMA EntriesWithin ==
  ASSUME NEW rep, NEW rep2, NEW J, NEW reqs, NEW reqs2, NEW x, NEW Odd,
         DOMAIN rep = DOMAIN rep2,
         \A d \in DOMAIN rep : \A i \in J : \A k \in WholeOf(rep[d][i], reqs, x) :
           <<d, i, k>> \in Odd \/ k \in WholeOf(rep2[d][i], reqs2, x)
  PROVE  \A e \in EntriesIn(rep, J, reqs, x) : e \in Odd \/ e \in EntriesIn(rep2, J, reqs2, x)
<1>1. SUFFICES ASSUME NEW e \in EntriesIn(rep, J, reqs, x)
               PROVE  e \in Odd \/ e \in EntriesIn(rep2, J, reqs2, x)
  OBVIOUS
<1>2. \E d \in DOMAIN rep : \E i \in J : \E k \in WholeOf(rep[d][i], reqs, x) : e = <<d, i, k>>
  <2>1. e \in EntriesIn(rep, J, reqs, x)
    OBVIOUS
  <2>2. e \in EntriesIn(rep, J, reqs, x) =>
          \E d \in DOMAIN rep : \E i \in J : \E k \in WholeOf(rep[d][i], reqs, x) : e = <<d, i, k>>
    BY WholeMembers
  <2>3. QED
    BY <2>1, <2>2
<1>3. PICK d \in DOMAIN rep : \E i \in J : \E k \in WholeOf(rep[d][i], reqs, x) : e = <<d, i, k>>
  BY <1>2
<1>4. PICK i \in J : \E k \in WholeOf(rep[d][i], reqs, x) : e = <<d, i, k>>
  BY <1>3
<1>5. PICK k \in WholeOf(rep[d][i], reqs, x) : e = <<d, i, k>>
  BY <1>4
<1>6. e \in Odd \/ k \in WholeOf(rep2[d][i], reqs2, x)
  BY <1>5, Zenon
<1>7. k \in WholeOf(rep2[d][i], reqs2, x) =>
        \E d2 \in DOMAIN rep2 : \E i2 \in J : \E k2 \in WholeOf(rep2[d2][i2], reqs2, x) :
          e = <<d2, i2, k2>>
  BY <1>5, Zenon
<1>8. k \in WholeOf(rep2[d][i], reqs2, x) => e \in EntriesIn(rep2, J, reqs2, x)
  BY <1>7, WholeMembers, Zenon
<1>9. QED
  BY <1>6, <1>8

LEMMA WholeOfs ==
  \A file, reqs, x, k : k \in WholeOf(file, reqs, x) <=>
    k \in DOMAIN file /\ file[k].whole /\ reqs[file[k].of].req.source = x
  BY Zenon DEF WholeOf

\* While the files stay, so do the entries.
LEMMA WholeSame ==
  ASSUME PTypes, NEW x, UNCHANGED report, StreamsGrow
  PROVE  WholeEntries(x)' = WholeEntries(x)
<1>1. DOMAIN report = Days
  BY DEF PTypes, Kept
<1>2. ASSUME NEW d \in Days, NEW i \in BOOLEAN
      PROVE  WholeOf(report[d][i], stream'["action"], x) = WholeOf(report[d][i], stream["action"], x)
  <2>1. ASSUME NEW k \in DOMAIN report[d][i]
        PROVE  stream'["action"][report[d][i][k].of] = stream["action"][report[d][i][k].of]
    <3>1. report[d][i][k].of \in DOMAIN stream["action"]
      BY DEF PTypes, Kept
    <3>2. QED
      BY <3>1 DEF StreamsGrow, Consumers
  <2>2. QED
    BY <2>1, Zenon DEF WholeOf
<1>3. PICK J : J = BOOLEAN
  OBVIOUS
<1> DEFINE A == EntriesIn(report, J, stream'["action"], x)
           B == EntriesIn(report, J, stream["action"], x)
<1>4. \A e : e \in A <=> e \in B
  <2>1. \A d \in DOMAIN report : \A i \in J :
          WholeOf(report[d][i], stream'["action"], x) = WholeOf(report[d][i], stream["action"], x)
    BY <1>1, <1>2, <1>3, Zenon
  <2>2. PICK Odd : Odd = {}
    OBVIOUS
  <2>3. \A e \in A : e \in Odd \/ e \in B
    BY <2>1, EntriesWithin, Zenon
  <2>4. \A e \in B : e \in Odd \/ e \in A
    BY <2>1, EntriesWithin, Zenon
  <2> HIDE DEF A, B
  <2>5. QED
    BY <2>2, <2>3, <2>4
<1>5. A = B
  <2> HIDE DEF A, B
  <2>1. QED
    BY <1>4
<1>6. QED
  BY <1>3, <1>5, EntriesInReport, Zenon

\* A file written for the request at work has at most one entry more, which is
\* of that request, and none if what was added is not whole.
LEMMA WholeWritten ==
  ASSUME PTypes, NEW x, NEW f, buf["action"] # <<>>, UNCHANGED stream, SetReport(f),
         Extends(report[Day][Req.important], f, Seq1("action")),
         IsFiniteSet(WholeEntries(x))
  PROVE  /\ IsFiniteSet(WholeEntries(x)')
         /\ Cardinality(WholeEntries(x)') <=
              Cardinality(WholeEntries(x)) + (IF Req.source = x THEN 1 ELSE 0)
         /\ (Len(f) = Len(report[Day][Req.important]) + 1 => ~f[Len(f)].whole) =>
              Cardinality(WholeEntries(x)') <= Cardinality(WholeEntries(x))
<1>1. /\ Day \in Days /\ Req.important \in BOOLEAN
      /\ Req = stream["action"][Seq1("action")].req
      /\ report[Day][Req.important] \in Seq(Blocks)
  BY RequestAtWork
<1>2. PICK day \in Days, important \in BOOLEAN : day = Day /\ important = Req.important
  BY <1>1
<1>3. PICK file \in Seq(Blocks) : file = report[day][important]
  BY <1>1, <1>2
<1>4. Extends(file, f, Seq1("action")) /\ f \in Seq(Blocks)
  BY <1>2, <1>3 DEF Extends
<1>5. report' = [report EXCEPT ![day][important] = f]
  BY <1>2 DEF SetReport
<1>6. /\ report' \in [Days -> [BOOLEAN -> Seq(Blocks)]] /\ report'[day][important] = f
      /\ \A e \in Days, j \in BOOLEAN :
           e # day \/ j # important => report'[e][j] = report[e][j]
  <2>1. f \in Seq(Blocks)
    BY <1>4
  <2>2. Filed(day, important, f)
    BY <1>5, <2>1, FileSet
  <2>3. QED
    BY <2>2 DEF Filed
<1>7. DOMAIN report = Days /\ DOMAIN report' = Days
  BY <1>6 DEF PTypes, Kept
<1> DEFINE l == Len(file) + 1
           new == <<day, important, l>>
           more == f[l].whole /\ Len(f) = l /\ Req.source = x
<1>8. \A k \in DOMAIN f :
        \/ k \in DOMAIN file /\ f[k].of = file[k].of /\ f[k].whole = file[k].whole
        \/ k = l /\ Len(f) = l /\ f[k].of = Seq1("action")
  <2>1. /\ Len(file) \in Nat /\ DOMAIN file = 1..Len(file) /\ DOMAIN f = 1..Len(f)
        /\ Len(f) = Len(file) \/ Len(f) = Len(file) + 1
    BY <1>4 DEF Extends
  <2>2. \A k \in 1..Len(f) : k \in 1..Len(file) \/ (Len(f) = Len(file) + 1 /\ k = Len(f))
    BY <2>1, OneMore
  <2>3. QED
    BY <1>4, <2>1, <2>2 DEF Extends
<1>9. ASSUME NEW d \in Days, NEW i \in BOOLEAN,
             NEW k \in WholeOf(report'[d][i], stream'["action"], x), ~(<<d, i, k>> = new /\ more)
      PROVE  k \in WholeOf(report[d][i], stream["action"], x)
  <2>1. /\ k \in DOMAIN report'[d][i] /\ report'[d][i][k].whole
        /\ stream["action"][report'[d][i][k].of].req.source = x
    BY WholeOfs
  <2>2. CASE d = day /\ i = important
    <3>1. k \in DOMAIN f /\ f[k].whole /\ stream["action"][f[k].of].req.source = x
      BY <1>6, <2>1, <2>2
    <3>2. CASE k = l /\ Len(f) = l /\ f[k].of = Seq1("action")
      <4>1. more
        BY <1>1, <3>1, <3>2
      <4>2. <<d, i, k>> = new
        BY <2>2, <3>2
      <4>3. QED
        BY <1>9, <4>1, <4>2
    <3>3. CASE k \in DOMAIN file /\ f[k].of = file[k].of /\ f[k].whole = file[k].whole
      <4>1. /\ k \in DOMAIN report[d][i] /\ report[d][i][k].whole
            /\ stream["action"][report[d][i][k].of].req.source = x
        BY <1>3, <2>2, <3>1, <3>3
      <4>2. QED
        BY <4>1, WholeOfs, Zenon
    <3>4. QED
      BY <1>8, <3>1, <3>2, <3>3
  <2>3. CASE d # day \/ i # important
    <3>1. report'[d][i] = report[d][i]
      BY <1>6, <2>3
    <3>2. QED
      BY <2>1, <3>1, WholeOfs, Zenon
  <2>4. QED
    BY <2>2, <2>3
<1> DEFINE A == WholeEntries(x)'
           B == WholeEntries(x)
<1>10. \A e \in A : ~(e = new /\ more) => e \in B
  <2> HIDE DEF new, more
  <2>1. PICK J : J = BOOLEAN
    OBVIOUS
  <2>2. PICK Odd : Odd = IF more THEN {new} ELSE {}
    OBVIOUS
  <2>3. ASSUME NEW d \in Days, NEW i \in J, NEW k \in WholeOf(report'[d][i], stream'["action"], x)
        PROVE  <<d, i, k>> \in Odd \/ k \in WholeOf(report[d][i], stream["action"], x)
    <3>1. CASE <<d, i, k>> = new /\ more
      BY <2>2, <3>1, Zenon
    <3>2. CASE ~(<<d, i, k>> = new /\ more)
      BY <1>9, <2>1, <3>2, Zenon
    <3>3. QED
      BY <3>1, <3>2
  <2>4. \A e \in EntriesIn(report', J, stream'["action"], x) :
          e \in Odd \/ e \in EntriesIn(report, J, stream["action"], x)
    BY <1>7, <2>3, EntriesWithin, Zenon
  <2>5. /\ A = EntriesIn(report', J, stream'["action"], x)
        /\ B = EntriesIn(report, J, stream["action"], x)
    BY <2>1, EntriesInReport, Zenon
  <2>6. QED
    BY <2>2, <2>4, <2>5, Zenon
<1> HIDE DEF new, more, l, A, B
<1>11. IsFiniteSet(B) /\ Cardinality(B) \in Nat
  BY FS_CardinalityType DEF B
<1>12. /\ IsFiniteSet(B \cup {new}) /\ Cardinality(B \cup {new}) \in Nat
       /\ Cardinality(B \cup {new}) <= Cardinality(B) + 1
  <2>1. PICK e : e = new
    OBVIOUS
  <2>2. /\ IsFiniteSet(B \cup {e})
        /\ Cardinality(B \cup {e}) = IF e \in B THEN Cardinality(B) ELSE Cardinality(B) + 1
    BY <1>11, FS_AddElement
  <2>3. QED
    BY <1>11, <2>1, <2>2
<1>13. IsFiniteSet(A) /\ Cardinality(A) \in Nat /\ Cardinality(A) <= Cardinality(B) + 1
  <2>1. A \subseteq B \cup {new}
    BY <1>10
  <2>2. IsFiniteSet(A) /\ Cardinality(A) <= Cardinality(B \cup {new})
    BY <1>12, <2>1, FS_Subset
  <2>3. QED
    BY <1>11, <1>12, <2>2, FS_CardinalityType
<1>14. ~more => Cardinality(A) <= Cardinality(B)
  BY <1>10, <1>11, FS_Subset
<1>15. Req.source # x => ~more
  BY DEF more
<1>16. (Len(f) = Len(report[Day][Req.important]) + 1 => ~f[Len(f)].whole) => ~more
  BY <1>2, <1>3 DEF more, l
<1>17. QED
  BY <1>11, <1>13, <1>14, <1>15, <1>16 DEF A, B

-----------------------------------------------------------------------------
(* The account of a source *)

LEMMA DueTypes ==
  ASSUME PTypes, NEW x
  PROVE  /\ ToThink(x) \in Nat /\ ToEnter(x) \in Nat /\ ToTell(x) \in Nat
         /\ IsFiniteSet(Of("memory", x)) /\ Cardinality(Of("memory", x)) \in Nat
         /\ Upstream(x) \in Nat
<1>1. "thinking" \in Consumers /\ "action" \in Consumers /\ "memory" \in Consumers
  BY DEF Consumers
<1>2. ToThink(x) \in Nat
  BY <1>1, LoadTypes DEF ToThink
<1>3. ToEnter(x) \in Nat
  BY <1>1, LoadTypes DEF ToEnter
<1>4. ToTell(x) \in Nat
  BY <1>1, LoadTypes DEF ToTell
<1>5. IsFiniteSet(Of("memory", x))
  <2>1. PICK L : L = {"ack"}
    OBVIOUS
  <2>2. QED
    BY <1>1, <2>1, LoadTypes
<1>6. Cardinality(Of("memory", x)) \in Nat
  BY <1>5, FS_CardinalityType
<1>7. QED
  BY <1>2, <1>3, <1>4, <1>5, <1>6 DEF Upstream

LEMMA LoadNextTypes ==
  ASSUME PTypes', NEW c \in Consumers, NEW L, NEW x
  PROVE  /\ IsFiniteSet(Of(c, x)')
         /\ Load(c, Of(c, x), From(L, c))' \in Nat
<1>1. Len(stream'[c]) \in Nat /\ DOMAIN stream'[c] = 1..Len(stream'[c])
  BY DEF PTypes, Streams
<1>2. IsFiniteSet(1..Len(stream'[c]))
  BY <1>1, UpToFinite
<1>3. IsFiniteSet(Of(c, x)')
  BY <1>1, <1>2, FS_Subset DEF Of
<1>4. From(L, c)' \in {1, 2}
  BY DEF From
<1>5. buf'[c] \in Seq(Nat)
  BY DEF PTypes, Buffers
<1>6. Load(c, Of(c, x), From(L, c))' =
        Weight(Of(c, x)', acked'[c] \cup out'[c], buf'[c], From(L, c)')
  BY DEF Load
<1>7. QED
  BY <1>3, <1>4, <1>5, <1>6, WeightType

LEMMA DueNextTypes ==
  ASSUME PTypes', NEW x
  PROVE  /\ ToThink(x)' \in Nat /\ ToEnter(x)' \in Nat /\ ToTell(x)' \in Nat
         /\ Cardinality(Of("memory", x)') \in Nat
         /\ Upstream(x)' \in Nat
<1>1. "thinking" \in Consumers /\ "action" \in Consumers /\ "memory" \in Consumers
  BY DEF Consumers
<1>2. ToThink(x)' \in Nat
  BY <1>1, LoadNextTypes DEF ToThink
<1>3. ToEnter(x)' \in Nat
  BY <1>1, LoadNextTypes DEF ToEnter
<1>4. ToTell(x)' \in Nat
  BY <1>1, LoadNextTypes DEF ToTell
<1>5. IsFiniteSet(Of("memory", x)')
  <2>1. PICK L : L = {"ack"}
    OBVIOUS
  <2>2. QED
    BY <1>1, <2>1, LoadNextTypes
<1>6. Cardinality(Of("memory", x)') \in Nat
  BY <1>5, FS_CardinalityType
<1>7. QED
  BY <1>2, <1>3, <1>4, <1>6 DEF Upstream

\* A step's balance: what it adds it adds by a mishap or an injection.
Balanced(x) ==
  /\ IsFiniteSet(WholeEntries(x)')
  /\ Entries(x)' + mishaps + backfills <= Entries(x) + mishaps' + backfills'
  /\ Tellings(x)' + mishaps + backfills <= Tellings(x) + mishaps' + backfills'

\* Where nothing happens.
LEMMA ThinkSame ==
  ASSUME NEW x, stream'["thinking"] = stream["thinking"], acked'["thinking"] = acked["thinking"],
         out'["thinking"] = out["thinking"], buf'["thinking"] = buf["thinking"],
         pc'["thinking"] = "ack" <=> pc["thinking"] = "ack"
  PROVE  ToThink(x)' = ToThink(x)
BY LoadSame DEF ToThink

LEMMA EnterSame ==
  ASSUME NEW x, stream'["action"] = stream["action"], acked'["action"] = acked["action"],
         out'["action"] = out["action"], buf'["action"] = buf["action"],
         pc'["action"] \in {"effects", "publish", "ack"} <=> pc["action"] \in {"effects", "publish", "ack"}
  PROVE  ToEnter(x)' = ToEnter(x)
BY LoadSame DEF ToEnter

LEMMA TellSame ==
  ASSUME NEW x, stream'["action"] = stream["action"], acked'["action"] = acked["action"],
         out'["action"] = out["action"], buf'["action"] = buf["action"],
         pc'["action"] = "ack" <=> pc["action"] = "ack"
  PROVE  ToTell(x)' = ToTell(x)
BY LoadSame DEF ToTell

LEMMA ToldSame ==
  ASSUME NEW x, stream'["memory"] = stream["memory"]
  PROVE  Of("memory", x)' = Of("memory", x)
BY DEF Of

LEMMA UpstreamSame ==
  ASSUME NEW x, UNCHANGED incoming, UNCHANGED <<seen, current>>, ToThink(x)' = ToThink(x)
  PROVE  Upstream(x)' = Upstream(x)
<1>1. ToCome(x)' <=> ToCome(x)
  BY DEF incoming, ToCome
<1>2. QED
  BY <1>1 DEF Upstream

\* All the figures are numbers.
LEMMA Figures ==
  ASSUME PTypes, PipelineNext, NEW x, IsFiniteSet(WholeEntries(x))
  PROVE  /\ ToThink(x) \in Nat /\ ToEnter(x) \in Nat /\ ToTell(x) \in Nat /\ Upstream(x) \in Nat
         /\ ToThink(x)' \in Nat /\ ToEnter(x)' \in Nat /\ ToTell(x)' \in Nat /\ Upstream(x)' \in Nat
         /\ Cardinality(WholeEntries(x)) \in Nat /\ Cardinality(Of("memory", x)) \in Nat
         /\ Cardinality(Of("memory", x)') \in Nat
         /\ mishaps \in Nat /\ mishaps' \in Nat /\ backfills \in Nat /\ backfills' \in Nat
<1>1. PTypes'
  BY NextPTypes
<1>2. Cardinality(WholeEntries(x)) \in Nat
  BY FS_CardinalityType
<1>3. mishaps \in Nat /\ mishaps' \in Nat /\ backfills \in Nat /\ backfills' \in Nat
  BY <1>1, LimitsAssumption DEF PTypes, Watching
<1>4. QED
  BY <1>1, <1>2, <1>3, DueTypes, DueNextTypes

\* A step that writes no file and tells nobody.
LEMMA BalancedWhen ==
  ASSUME PTypes, PipelineNext, NEW x, IsFiniteSet(WholeEntries(x)), UNCHANGED report,
         stream'["memory"] = stream["memory"],
         Upstream(x)' + ToEnter(x)' + mishaps + backfills
           <= Upstream(x) + ToEnter(x) + mishaps' + backfills',
         Upstream(x)' + ToTell(x)' + mishaps + backfills
           <= Upstream(x) + ToTell(x) + mishaps' + backfills'
  PROVE  Balanced(x)
<1>1. WholeEntries(x)' = WholeEntries(x)
  BY NextStreamStep, StreamsStay, WholeSame DEF PTypes
<1>2. Cardinality(WholeEntries(x))' = Cardinality(WholeEntries(x))
  BY <1>1
<1>3. Cardinality(Of("memory", x))' = Cardinality(Of("memory", x))
  BY ToldSame
<1>4. Entries(x)' + mishaps + backfills <= Entries(x) + mishaps' + backfills'
  BY <1>2, Figures DEF Entries
<1>5. Tellings(x)' + mishaps + backfills <= Tellings(x) + mishaps' + backfills'
  BY <1>3, Figures DEF Tellings
<1>6. IsFiniteSet(WholeEntries(x)')
  BY <1>1
<1>7. QED
  BY <1>4, <1>5, <1>6 DEF Balanced

\* A stimulus is published, of x or not.
LEMMA ThinkPublished ==
  ASSUME PTypes, NEW x, NEW msg \in Msgs("thinking"), PublishTo("thinking", msg),
         UNCHANGED <<nats, pc>>
  PROVE  ToThink(x)' = ToThink(x) + (IF msg.source = x THEN 1 ELSE 0)
<1>1. SourceOf("thinking", msg) = msg.source
  BY DEF SourceOf
<1>2. "thinking" \in Consumers
  BY DEF Consumers
<1>3. PICK L : L = {"ack"}
  OBVIOUS
<1>4. Load("thinking", Of("thinking", x), From(L, "thinking"))' =
        Load("thinking", Of("thinking", x), From(L, "thinking"))
          + (IF SourceOf("thinking", msg) = x THEN 1 ELSE 0)
  BY <1>2, <1>3, LoadPublished
<1>5. QED
  BY <1>1, <1>3, <1>4 DEF ToThink

\* What comes in once is of one kind.
LEMMA OfOneKind ==
  ASSUME PTypes
  PROVE  /\ NoMail \notin DOMAIN mailbox
         /\ \A p, q \in posts : p.id = q.id => p = q
         /\ \A p \in posts : p.id \notin DOMAIN mailbox /\ \A s \in alerts : p.id # s.source
         /\ \A s, r \in alerts : r.source = s.source => r = s
         /\ \A s \in alerts : s.source \notin DOMAIN mailbox
<1>1. PICK sc \in Scenarios :
        mailbox = sc.mails /\ posts \subseteq sc.posts /\ alerts \subseteq sc.alerts
  BY DEF PTypes, Scenario
<1>2. NoMail \notin DOMAIN mailbox
  BY <1>1, DataAssumption
<1>3. /\ \A p, q \in sc.posts : p.id = q.id => p = q
      /\ \A s \in sc.alerts :
           /\ \A r \in sc.alerts : r.source = s.source => r = s
           /\ s.source \notin DOMAIN sc.mails
      /\ \A p \in sc.posts :
           p.id \notin DOMAIN sc.mails /\ \A s \in sc.alerts : p.id # s.source
  BY ScenariosAssumption
<1>4. QED
  BY <1>1, <1>2, <1>3

\* The watcher publishes a mail and labels it; between the two, it may stop.
LEMMA BalancedWatcher ==
  ASSUME PTypes, PipelineNext, NEW x, Watcher \/ RestartPerception
  PROVE  Upstream(x)' + mishaps + backfills <= Upstream(x) + mishaps' + backfills'
<1>0. /\ ToThink(x) \in Nat /\ mishaps \in Nat /\ backfills \in Nat
      /\ NoMail \notin DOMAIN mailbox /\ ids \subseteq DOMAIN mailbox \ seen
      /\ current \in ids \cup {NoMail}
  BY DueTypes, OfOneKind, LimitsAssumption DEF PTypes, Watching
<1>1. CASE Poll
  <2>1. ToThink(x)' = ToThink(x)
    BY <1>1, ThinkSame DEF Poll, nats
  <2>2. ToCome(x)' <=> ToCome(x)
    BY <1>1 DEF Poll, incoming, ToCome
  <2>3. mishaps' = mishaps /\ backfills' = backfills
    BY <1>1 DEF Poll
  <2>4. QED
    BY <1>0, <2>1, <2>2, <2>3 DEF Upstream
<1>2. ASSUME NEW id \in ids, SkipMessage(id)
      PROVE  Upstream(x)' + mishaps + backfills <= Upstream(x) + mishaps' + backfills'
  <2>1. ToThink(x)' = ToThink(x)
    BY <1>2, ThinkSame DEF SkipMessage, nats
  <2>2. ToCome(x)' <=> ToCome(x)
    BY <1>2 DEF SkipMessage, incoming, ToCome
  <2>3. mishaps' \in {mishaps, mishaps + 1} /\ backfills' = backfills
    BY <1>2 DEF SkipMessage, Mishap
  <2>4. QED
    BY <1>0, <2>1, <2>2, <2>3 DEF Upstream
<1>3. ASSUME NEW id \in ids, PublishMail(id)
      PROVE  Upstream(x)' + mishaps + backfills <= Upstream(x) + mishaps' + backfills'
  <2>1. Built[mailbox[id]] \in Msgs("thinking") /\ Built[mailbox[id]].source = id
    BY <1>0, <1>3, RightMessages DEF PublishMail
  <2>2. ToThink(x)' = ToThink(x) + (IF id = x THEN 1 ELSE 0)
    BY <1>3, <2>1, ThinkPublished DEF PublishMail
  <2>3. (ToCome(x)' => ToCome(x)) /\ (x = id => ToCome(x) /\ ~ToCome(x)')
    <3>1. mailbox' = mailbox /\ posts' = posts /\ alerts' = alerts /\ seen' = seen
          /\ current = NoMail /\ current' = id
      BY <1>3 DEF PublishMail, incoming
    <3>2. id \in DOMAIN mailbox \ seen /\ id # NoMail
      BY <1>0
    <3>3. /\ \A p \in posts : p.id # id
          /\ \A s \in alerts : s.source # id
      BY <3>2, OfOneKind
    <3>4. x \in DOMAIN mailbox => x # NoMail
      BY <1>0
    <3>5. QED
      BY <3>1, <3>2, <3>3, <3>4 DEF ToCome
  <2>4. mishaps' = mishaps /\ backfills' = backfills
    BY <1>3 DEF PublishMail
  <2>5. QED
    BY <1>0, <2>2, <2>3, <2>4 DEF Upstream
<1>4. ASSUME NEW id \in ids, PublishMailFails(id)
      PROVE  Upstream(x)' + mishaps + backfills <= Upstream(x) + mishaps' + backfills'
  <2>1. Built[mailbox[id]] \in Msgs("thinking") /\ Built[mailbox[id]].source = id
    BY <1>0, <1>4, RightMessages DEF PublishMailFails
  <2>2. ToThink(x)' \in {ToThink(x), ToThink(x) + 1}
    <3>1. CASE PublishTo("thinking", Built[mailbox[id]])
      <4>1. ToThink(x)' = ToThink(x) + (IF Built[mailbox[id]].source = x THEN 1 ELSE 0)
        BY <1>4, <2>1, <3>1, ThinkPublished DEF PublishMailFails
      <4>2. QED
        BY <1>0, <4>1
    <3>2. CASE UNCHANGED stream
      BY <1>4, <3>2, ThinkSame DEF PublishMailFails, nats
    <3>3. QED
      BY <1>4, <3>1, <3>2 DEF PublishMailFails, PublishToFails
  <2>3. ToCome(x)' <=> ToCome(x)
    BY <1>4 DEF PublishMailFails, incoming, ToCome
  <2>4. mishaps' = mishaps + 1 /\ backfills' = backfills
    BY <1>4 DEF PublishMailFails, PublishToFails, Mishap
  <2>5. QED
    BY <1>0, <2>2, <2>3, <2>4 DEF Upstream
<1>5. CASE AddLabel
  <2>1. ToThink(x)' = ToThink(x) /\ backfills' = backfills
    BY <1>5, ThinkSame DEF AddLabel, nats
  <2>2. /\ mailbox' = mailbox /\ posts' = posts /\ alerts' = alerts
        /\ current' = NoMail /\ current # NoMail
    BY <1>5 DEF AddLabel, incoming
  <2>3. CASE seen' = seen \cup {current} /\ UNCHANGED mishaps
    <3>1. ToCome(x)' => ToCome(x)
      BY <2>2, <2>3 DEF ToCome
    <3>2. QED
      BY <1>0, <2>1, <2>3, <3>1 DEF Upstream
  <2>4. CASE UNCHANGED seen /\ Mishap
    <3>1. mishaps' = mishaps + 1
      BY <2>4 DEF Mishap
    <3>2. QED
      BY <1>0, <2>1, <3>1 DEF Upstream
  <2>5. QED
    BY <1>5, <2>3, <2>4 DEF AddLabel
<1>6. CASE RestartPerception
  <2>1. ToThink(x)' = ToThink(x) /\ backfills' = backfills /\ mishaps' = mishaps + 1
    BY <1>6, ThinkSame DEF RestartPerception, Mishap, nats
  <2>2. QED
    BY <1>0, <2>1 DEF Upstream
<1>7. QED
  BY <1>1, <1>2, <1>3, <1>4, <1>5, <1>6 DEF Watcher

\* A mail is injected, a post comes, an alert comes.
LEMMA BalancedIntake ==
  ASSUME PTypes, PipelineNext, NEW x, Intake
  PROVE  Upstream(x)' + mishaps + backfills <= Upstream(x) + mishaps' + backfills'
<1>0. ToThink(x) \in Nat /\ mishaps \in Nat /\ backfills \in Nat
  BY DueTypes, LimitsAssumption DEF PTypes, Watching
<1>1. ASSUME NEW id \in DOMAIN mailbox, Backfill(id)
      PROVE  Upstream(x)' + mishaps + backfills <= Upstream(x) + mishaps' + backfills'
  <2>1. PICK msg \in Msgs("thinking") : msg = WithDefaults(BuiltBackfill[mailbox[id]])
    BY <1>1, RightMessages DEF Backfill
  <2>2. ToThink(x)' = ToThink(x) + (IF msg.source = x THEN 1 ELSE 0)
    BY <1>1, <2>1, ThinkPublished DEF Backfill
  <2>3. ToCome(x)' <=> ToCome(x)
    BY <1>1 DEF Backfill, incoming, gmail, ToCome
  <2>4. mishaps' = mishaps /\ backfills' = backfills + 1
    BY <1>1 DEF Backfill
  <2>5. QED
    BY <1>0, <2>2, <2>3, <2>4 DEF Upstream
<1>2. ASSUME NEW post \in posts, PerceiveCLI(post)
      PROVE  Upstream(x)' + mishaps + backfills <= Upstream(x) + mishaps' + backfills'
  <2>1. PICK msg \in Msgs("thinking") : msg = BuildCLIStimulus(post) /\ msg.source = post.id
    BY RightMessages
  <2>2. PublishTo("thinking", msg) => ToThink(x)' = ToThink(x) + (IF post.id = x THEN 1 ELSE 0)
    BY <1>2, <2>1, ThinkPublished DEF PerceiveCLI
  <2>3. UNCHANGED stream => ToThink(x)' = ToThink(x)
    BY <1>2, ThinkSame DEF PerceiveCLI, nats
  <2>4. /\ mailbox' = mailbox /\ seen' = seen /\ current' = current /\ alerts' = alerts
        /\ backfills' = backfills
    BY <1>2 DEF PerceiveCLI, gmail
  <2>5. ToCome(post.id)
    BY DEF ToCome
  <2>6. posts' \subseteq posts => (ToCome(x)' => ToCome(x))
    BY <2>4 DEF ToCome
  <2>7. posts' = posts \ {post} => ~ToCome(post.id)'
    BY <2>4, OfOneKind DEF ToCome
  <2>8. CASE PublishTo("thinking", msg) /\ posts' = posts \ {post} /\ UNCHANGED mishaps
    <3>1. posts' \subseteq posts
      BY <2>8
    <3>2. x = post.id => ToCome(x) /\ ~ToCome(x)'
      BY <2>5, <2>7, <2>8
    <3>3. QED
      BY <1>0, <2>2, <2>4, <2>6, <2>8, <3>1, <3>2 DEF Upstream
  <2>9. CASE PublishToFails("thinking", msg) /\ UNCHANGED posts
    <3>1. mishaps' = mishaps + 1 /\ (PublishTo("thinking", msg) \/ UNCHANGED stream)
      BY <2>9 DEF PublishToFails, Mishap
    <3>2. ToCome(x)' => ToCome(x)
      BY <2>6, <2>9
    <3>3. ToThink(x)' \in {ToThink(x), ToThink(x) + 1}
      BY <1>0, <2>2, <2>3, <3>1
    <3>4. QED
      BY <1>0, <2>4, <3>1, <3>2, <3>3 DEF Upstream
  <2>10. CASE posts' = posts \ {post} /\ UNCHANGED <<stream, mishaps>>
    <3>1. ToCome(x)' => ToCome(x)
      BY <2>6, <2>10
    <3>2. QED
      BY <1>0, <2>3, <2>4, <2>10, <3>1 DEF Upstream
  <2>11. QED
    BY <1>2, <2>1, <2>8, <2>9, <2>10 DEF PerceiveCLI
<1>3. ASSUME NEW s \in alerts, Alert(s)
      PROVE  Upstream(x)' + mishaps + backfills <= Upstream(x) + mishaps' + backfills'
  <2>1. PICK msg \in Msgs("thinking") : msg = WithDefaults(s) /\ msg.source = s.source
    BY RightMessages
  <2>2. ToThink(x)' = ToThink(x) + (IF s.source = x THEN 1 ELSE 0)
    BY <1>3, <2>1, ThinkPublished DEF Alert
  <2>3. /\ mailbox' = mailbox /\ seen' = seen /\ current' = current /\ posts' = posts
        /\ alerts' = alerts \ {s} /\ mishaps' = mishaps /\ backfills' = backfills
    BY <1>3 DEF Alert, gmail
  <2>4. ToCome(x)' => ToCome(x)
    BY <2>3 DEF ToCome
  <2>5. ToCome(s.source) /\ ~ToCome(s.source)'
    <3>1. ToCome(s.source)
      BY DEF ToCome
    <3>2. ~\E r \in alerts' : r.source = s.source
      BY <2>3, OfOneKind
    <3>3. s.source \notin DOMAIN mailbox /\ \A p \in posts : p.id # s.source
      BY OfOneKind
    <3>4. QED
      BY <2>3, <3>1, <3>2, <3>3 DEF ToCome
  <2>6. x = s.source => ToCome(x) /\ ~ToCome(x)'
    BY <2>5
  <2>7. QED
    BY <1>0, <2>2, <2>3, <2>4, <2>6 DEF Upstream
<1>4. QED
  BY <1>1, <1>2, <1>3 DEF Intake

LEMMA BalancedPerception ==
  ASSUME PTypes, PipelineNext, NEW x, IsFiniteSet(WholeEntries(x)),
         Watcher \/ Intake \/ RestartPerception
  PROVE  Balanced(x)
<1>1. UNCHANGED <<nats, pc, report>>
  BY DEF Watcher, Intake, Poll, AddLabel, SkipMessage, PublishMail, PublishMailFails,
     Backfill, PerceiveCLI, Alert, RestartPerception, effects
<1>2. stream'["action"] = stream["action"] /\ stream'["memory"] = stream["memory"]
  <2>1. UNCHANGED stream \/ \E msg : PublishTo("thinking", msg)
    BY DEF Watcher, Intake, Poll, AddLabel, SkipMessage, PublishMail, PublishMailFails,
       Backfill, PerceiveCLI, Alert, RestartPerception, PublishToFails
  <2>2. \A msg : PublishTo("thinking", msg) =>
          stream'["action"] = stream["action"] /\ stream'["memory"] = stream["memory"]
    BY DEF PublishTo, PTypes, Streams, Consumers
  <2>3. QED
    BY <2>1, <2>2
<1>3. ToEnter(x)' = ToEnter(x) /\ ToTell(x)' = ToTell(x)
  BY <1>1, <1>2, EnterSame, TellSame DEF nats
<1>4. QED
  BY <1>1, <1>2, <1>3, BalancedWatcher, BalancedIntake, BalancedWhen, Figures

\* One consumer's buffer changes, by a delivery, an ACK, a wait that is over, a
\* restart.
LEMMA BalancedNats ==
  ASSUME PTypes, PipelineNext, NEW x, IsFiniteSet(WholeEntries(x)), NEW c \in Consumers,
         Deliver(c) \/ Expire(c) \/ Ack(c) \/ RestartService(c)
  PROVE  Balanced(x)
<1>1. /\ UNCHANGED <<incoming, gmail, stream, report, backfills>>
      /\ \A d \in Consumers \ {c} :
           acked'[d] = acked[d] /\ out'[d] = out[d] /\ buf'[d] = buf[d] /\ pc'[d] = pc[d]
  <2>1. /\ acked \in [Consumers -> SUBSET Nat] /\ out \in [Consumers -> SUBSET Nat]
        /\ buf \in [Consumers -> Seq(Nat)] /\ pc \in [Consumers -> Steps]
    BY DEF PTypes, Buffers, Handlers, Steps
  <2>2. UNCHANGED <<incoming, gmail, stream, report, backfills>>
    BY DEF Deliver, Expire, Ack, RestartService, effects
  <2>3. ASSUME NEW d \in Consumers \ {c}
        PROVE  acked'[d] = acked[d] /\ out'[d] = out[d] /\ buf'[d] = buf[d] /\ pc'[d] = pc[d]
    <3>1. CASE Deliver(c)
      BY <2>1, <3>1 DEF Deliver
    <3>2. CASE Expire(c)
      BY <2>1, <3>2 DEF Expire
    <3>3. CASE Ack(c)
      BY <2>1, <3>3 DEF Ack, Goto
    <3>4. CASE RestartService(c)
      BY <2>1, <3>4 DEF RestartService, Goto
    <3>5. QED
      BY <3>1, <3>2, <3>3, <3>4
  <2>4. QED
    BY <2>2, <2>3
<1>2. "thinking" \in Consumers /\ "action" \in Consumers /\ "memory" \in Consumers
  BY DEF Consumers
<1>3. mishaps <= mishaps'
  BY NextScenario
<1>4. c # "thinking" => Upstream(x)' = Upstream(x)
  BY <1>1, <1>2, ThinkSame, UpstreamSame DEF gmail
<1>5. c # "action" => ToEnter(x)' = ToEnter(x) /\ ToTell(x)' = ToTell(x)
  BY <1>1, <1>2, EnterSame, TellSame
<1>6. ASSUME c = "thinking"
      PROVE  Upstream(x)' + mishaps <= Upstream(x) + mishaps'
  <2>1. PICK L : L = {"ack"}
    OBVIOUS
  <2>2. Load("thinking", Of("thinking", x), From(L, "thinking"))' + mishaps
          <= Load("thinking", Of("thinking", x), From(L, "thinking")) + mishaps'
    BY <1>2, <1>6, <2>1, LoadNats
  <2>3. ToThink(x)' + mishaps <= ToThink(x) + mishaps'
    BY <2>1, <2>2 DEF ToThink
  <2>4. ToCome(x)' <=> ToCome(x)
    BY <1>1 DEF incoming, gmail, ToCome
  <2>5. QED
    BY <2>3, <2>4, Figures DEF Upstream
<1>7. ASSUME c = "action"
      PROVE  /\ ToEnter(x)' + mishaps <= ToEnter(x) + mishaps'
             /\ ToTell(x)' + mishaps <= ToTell(x) + mishaps'
  <2>1. ASSUME NEW L, "idle" \notin L, "ack" \in L
        PROVE  Load("action", Of("action", x), From(L, "action"))' + mishaps
                 <= Load("action", Of("action", x), From(L, "action")) + mishaps'
    BY <1>2, <1>7, <2>1, LoadNats
  <2>2. ToEnter(x)' + mishaps <= ToEnter(x) + mishaps'
    <3>1. PICK L : L = {"effects", "publish", "ack"}
      OBVIOUS
    <3>2. QED
      BY <2>1, <3>1 DEF ToEnter
  <2>3. ToTell(x)' + mishaps <= ToTell(x) + mishaps'
    <3>1. PICK L : L = {"ack"}
      OBVIOUS
    <3>2. QED
      BY <2>1, <3>1 DEF ToTell
  <2>4. QED
    BY <2>2, <2>3
<1>8. /\ Upstream(x)' + ToEnter(x)' + mishaps + backfills
           <= Upstream(x) + ToEnter(x) + mishaps' + backfills'
      /\ Upstream(x)' + ToTell(x)' + mishaps + backfills
           <= Upstream(x) + ToTell(x) + mishaps' + backfills'
  BY <1>1, <1>3, <1>4, <1>5, <1>6, <1>7, Figures DEF Consumers
<1>9. QED
  BY <1>1, <1>8, BalancedWhen

\* A stimulus is thought about: for the request it had from then on.
LEMMA BalancedThink ==
  ASSUME PTypes, PipelineNext, NEW x, IsFiniteSet(WholeEntries(x)), Think
  PROVE  Balanced(x)
<1>1. /\ UNCHANGED <<incoming, gmail, stream, nats, report, mishaps, backfills>>
      /\ pc["thinking"] = "idle" /\ buf["thinking"] # <<>> /\ pc'["action"] = pc["action"]
  BY DEF Think, Begin, Goto, effects, PTypes, Handlers, Consumers
<1>2. ToEnter(x)' = ToEnter(x) /\ ToTell(x)' = ToTell(x)
  BY <1>1, EnterSame, TellSame DEF nats
<1>3. ToThink(x)' <= ToThink(x)
  <2>1. CASE pc'["thinking"] = "ack"
    <3>1. PICK L : L = {"ack"}
      OBVIOUS
    <3>2. "thinking" \in Consumers
      BY DEF Consumers
    <3>3. Load("thinking", Of("thinking", x), From(L, "thinking")) =
            Load("thinking", Of("thinking", x), From(L, "thinking"))'
              + (IF SourceOf("thinking", Message("thinking")) = x THEN 1 ELSE 0)
      BY <1>1, <2>1, <3>1, <3>2, LoadHead
    <3>4. ToThink(x) \in Nat /\ ToThink(x)' \in Nat
      BY Figures
    <3>5. QED
      BY <3>1, <3>3, <3>4 DEF ToThink
  <2>2. CASE pc'["thinking"] # "ack"
    BY <1>1, <2>2, ThinkSame, Figures DEF nats
  <2>3. QED
    BY <2>1, <2>2
<1>4. ToCome(x)' <=> ToCome(x)
  BY <1>1 DEF incoming, gmail, ToCome
<1>5. Upstream(x)' <= Upstream(x)
  <2>1. ToThink(x) \in Nat /\ ToThink(x)' \in Nat
    BY Figures
  <2>2. QED
    BY <1>3, <1>4, <2>1 DEF Upstream
<1>6. /\ Upstream(x)' + ToEnter(x)' + mishaps + backfills
           <= Upstream(x) + ToEnter(x) + mishaps' + backfills'
      /\ Upstream(x)' + ToTell(x)' + mishaps + backfills
           <= Upstream(x) + ToTell(x) + mishaps' + backfills'
  <2>1. /\ Upstream(x) \in Nat /\ Upstream(x)' \in Nat
        /\ ToEnter(x) \in Nat /\ ToTell(x) \in Nat
        /\ mishaps \in Nat /\ backfills \in Nat
    BY Figures
  <2>2. mishaps' = mishaps /\ backfills' = backfills
    BY <1>1
  <2>3. QED
    BY <1>2, <1>5, <2>1, <2>2
<1>7. QED
  BY <1>1, <1>6, BalancedWhen

\* The stimulus at work is of x or not, and so is the request.
LEMMA BalancedRequest ==
  ASSUME PTypes, PipelineNext, NEW x, IsFiniteSet(WholeEntries(x)),
         PublishRequest \/ PublishRequestFails
  PROVE  Balanced(x)
<1> DEFINE one == IF request.source = x THEN 1 ELSE 0
<1>0. "thinking" \in Consumers /\ "action" \in Consumers /\ "memory" \in Consumers
  BY DEF Consumers
<1>1. /\ UNCHANGED <<incoming, gmail, nats, report, backfills>>
      /\ pc["thinking"] = "publish" /\ buf["thinking"] # <<>>
      /\ pc'["action"] = pc["action"] /\ pc'["thinking"] = "ack"
      /\ UNCHANGED stream \/ PublishTo("action", Request)
  BY DEF PublishRequest, PublishRequestFails, PublishToFails, Goto, effects, PTypes, Handlers,
     Consumers
<1>2. /\ Request \in Msgs("action") /\ Request.req = request
      /\ request.source = Message("thinking").source
  BY <1>1, RightMessages DEF PTypes, Handlers, Request
<1>3. stream'["thinking"] = stream["thinking"] /\ stream'["memory"] = stream["memory"]
  BY <1>0, <1>1 DEF PublishTo, PTypes, Streams
<1>4. ToThink(x) = ToThink(x)' + one
  <2>1. PICK L : L = {"ack"}
    OBVIOUS
  <2>2. SourceOf("thinking", Message("thinking")) = request.source
    BY <1>2 DEF SourceOf
  <2>3. Load("thinking", Of("thinking", x), From(L, "thinking")) =
          Load("thinking", Of("thinking", x), From(L, "thinking"))'
            + (IF SourceOf("thinking", Message("thinking")) = x THEN 1 ELSE 0)
    BY <1>0, <1>1, <1>3, <2>1, LoadHead
  <2>4. QED
    BY <2>1, <2>2, <2>3 DEF ToThink
<1>5. ASSUME NEW L, "idle" \notin L
      PROVE  Load("action", Of("action", x), From(L, "action"))'
               \in {Load("action", Of("action", x), From(L, "action")),
                    Load("action", Of("action", x), From(L, "action")) + one}
  <2>1. CASE UNCHANGED stream
    <3>1. QED
      BY <1>1, <2>1, LoadSame DEF nats
  <2>2. CASE PublishTo("action", Request)
    <3>1. SourceOf("action", Request) = request.source
      BY <1>2 DEF SourceOf
    <3>2. PICK msg \in Msgs("action") : msg = Request
      BY <1>2
    <3>3. Load("action", Of("action", x), From(L, "action"))' =
            Load("action", Of("action", x), From(L, "action"))
              + (IF SourceOf("action", msg) = x THEN 1 ELSE 0)
      BY <1>0, <1>1, <1>5, <2>2, <3>2, LoadPublished
    <3>4. QED
      BY <3>1, <3>2, <3>3
  <2>3. QED
    BY <1>1, <2>1, <2>2
<1> HIDE DEF one
<1>6. ToEnter(x)' \in {ToEnter(x), ToEnter(x) + one}
  <2>1. PICK L : L = {"effects", "publish", "ack"}
    OBVIOUS
  <2>2. QED
    BY <1>5, <2>1 DEF ToEnter
<1>7. ToTell(x)' \in {ToTell(x), ToTell(x) + one}
  <2>1. PICK L : L = {"ack"}
    OBVIOUS
  <2>2. QED
    BY <1>5, <2>1 DEF ToTell
<1>8. (ToCome(x)' <=> ToCome(x)) /\ one \in {0, 1} /\ mishaps <= mishaps' /\ backfills' = backfills
  BY <1>1, NextScenario DEF incoming, gmail, ToCome, one
<1>9. Upstream(x) = Upstream(x)' + one
  BY <1>4, <1>8, Figures DEF Upstream
<1>10. /\ Upstream(x)' + ToEnter(x)' + mishaps + backfills
            <= Upstream(x) + ToEnter(x) + mishaps' + backfills'
       /\ Upstream(x)' + ToTell(x)' + mishaps + backfills
            <= Upstream(x) + ToTell(x) + mishaps' + backfills'
  BY <1>6, <1>7, <1>8, <1>9, Figures
<1>11. QED
  BY <1>1, <1>3, <1>10, BalancedWhen

\* The request at work gets its entry, or not.
LEMMA Entered ==
  ASSUME PTypes, NEW x, buf["action"] # <<>>, UNCHANGED <<stream, nats>>,
         pc["action"] \in {"idle", "retry"}, pc'["action"] = "effects"
  PROVE  ToEnter(x) = ToEnter(x)' + (IF Req.source = x THEN 1 ELSE 0)
<1>1. PICK L : L = {"effects", "publish", "ack"}
  OBVIOUS
<1>2. "action" \in Consumers
  BY DEF Consumers
<1>3. SourceOf("action", Message("action")) = Req.source
  BY DEF SourceOf, Req
<1>4. Load("action", Of("action", x), From(L, "action")) =
        Load("action", Of("action", x), From(L, "action"))'
          + (IF SourceOf("action", Message("action")) = x THEN 1 ELSE 0)
  BY <1>1, <1>2, LoadHead
<1>5. QED
  BY <1>1, <1>3, <1>4 DEF ToEnter

LEMMA BalancedEntry ==
  ASSUME PTypes, PipelineNext, NEW x, IsFiniteSet(WholeEntries(x)),
         AppendReportEntry \/ AppendReportEntryFails
  PROVE  Balanced(x)
<1>1. /\ UNCHANGED <<incoming, gmail, stream, nats, backfills>>
      /\ pc["action"] \in {"idle", "retry"} /\ buf["action"] # <<>>
      /\ pc'["thinking"] = pc["thinking"] /\ pc'["action"] \in {"effects", "retry"}
      /\ pc'["action"] = "retry" => AppendReportEntryFails
  BY DEF AppendReportEntry, AppendReportEntryFails, AtEntry, Begin, Retry, Appended, Goto,
     PTypes, Handlers, Consumers
<1>2. mishaps <= mishaps'
  BY NextScenario
<1>3. ToThink(x)' = ToThink(x)
  BY <1>1, ThinkSame DEF nats
<1>4. Upstream(x)' = Upstream(x)
  BY <1>1, <1>3, UpstreamSame DEF gmail
<1>5. ToTell(x)' = ToTell(x)
  BY <1>1, TellSame DEF nats
<1>6. Cardinality(Of("memory", x))' = Cardinality(Of("memory", x))
  BY <1>1, ToldSame
<1>7. report[Day][Req.important] \in Seq(Blocks) /\ Entry \in Blocks
  BY <1>1, RequestAtWork
<1>8. /\ IsFiniteSet(WholeEntries(x)')
      /\ Cardinality(WholeEntries(x)') + ToEnter(x)' <= Cardinality(WholeEntries(x)) + ToEnter(x)
  <2>1. CASE AppendReportEntry
    <3>1. PICK f : SetReport(f) /\ f = AppendEntry(report[Day][Req.important], Entry)
      BY <2>1 DEF AppendReportEntry
    <3>2. Extends(report[Day][Req.important], f, Seq1("action"))
      BY <1>7, <3>1, AppendEntryExtends DEF Entry
    <3>3. /\ IsFiniteSet(WholeEntries(x)')
          /\ Cardinality(WholeEntries(x)') <=
               Cardinality(WholeEntries(x)) + (IF Req.source = x THEN 1 ELSE 0)
      BY <1>1, <3>1, <3>2, WholeWritten
    <3>4. pc'["action"] = "effects"
      BY <2>1 DEF AppendReportEntry, Appended, Goto, PTypes, Handlers, Consumers
    <3>5. ToEnter(x) = ToEnter(x)' + (IF Req.source = x THEN 1 ELSE 0)
      BY <1>1, <3>4, Entered
    <3>6. Cardinality(WholeEntries(x)') \in Nat
      BY <3>3, FS_CardinalityType
    <3>7. QED
      BY <3>3, <3>5, <3>6, Figures
  <2>2. CASE AppendReportEntryFails
    <3>1. PICK f \in PartialAppends(report[Day][Req.important], Entry) : SetReport(f)
      BY <2>2 DEF AppendReportEntryFails
    <3>2. /\ Extends(report[Day][Req.important], f, Seq1("action"))
          /\ Len(f) = Len(report[Day][Req.important]) + 1 => ~f[Len(f)].whole
      BY <1>7, PartialAppendExtends DEF Entry
    <3>3. /\ IsFiniteSet(WholeEntries(x)')
          /\ Cardinality(WholeEntries(x)') <= Cardinality(WholeEntries(x))
      BY <1>1, <3>1, <3>2, WholeWritten
    <3>4. ToEnter(x)' <= ToEnter(x)
      <4>1. CASE pc'["action"] = "effects"
        <5>1. ToEnter(x) = ToEnter(x)' + (IF Req.source = x THEN 1 ELSE 0)
          BY <1>1, <4>1, Entered
        <5>2. ToEnter(x) \in Nat /\ ToEnter(x)' \in Nat
          BY Figures
        <5>3. QED
          BY <5>1, <5>2
      <4>2. CASE pc'["action"] = "retry"
        <5>1. ToEnter(x)' = ToEnter(x)
          BY <1>1, <4>2, EnterSame DEF nats
        <5>2. QED
          BY <5>1, Figures
      <4>3. QED
        BY <1>1, <4>1, <4>2
    <3>5. Cardinality(WholeEntries(x)') \in Nat
      BY <3>3, FS_CardinalityType
    <3>6. QED
      BY <3>3, <3>4, <3>5, Figures
  <2>3. QED
    BY <2>1, <2>2
<1>9. Cardinality(WholeEntries(x)') \in Nat
  BY <1>8, FS_CardinalityType
<1>10. Entries(x)' + mishaps + backfills <= Entries(x) + mishaps' + backfills'
  <2>1. /\ Entries(x)' = Cardinality(WholeEntries(x)') + Upstream(x)' + ToEnter(x)'
        /\ Entries(x) = Cardinality(WholeEntries(x)) + Upstream(x) + ToEnter(x)
    BY DEF Entries
  <2>2. backfills' = backfills
    BY <1>1
  <2>3. Cardinality(WholeEntries(x)') + ToEnter(x)' <= Cardinality(WholeEntries(x)) + ToEnter(x)
    BY <1>8
  <2>4. QED
    BY <1>2, <1>4, <1>9, <2>1, <2>2, <2>3, Figures
<1>11. Tellings(x)' + mishaps + backfills <= Tellings(x) + mishaps' + backfills'
  BY <1>1, <1>2, <1>4, <1>5, <1>6, Figures DEF Tellings
<1>12. QED
  BY <1>8, <1>10, <1>11 DEF Balanced

\* The events and the notification of the request at work.
LEMMA BalancedEffects ==
  ASSUME PTypes, PipelineNext, NEW x, IsFiniteSet(WholeEntries(x)),
         SaveEvent \/ SaveEventFails \/ Notify
  PROVE  Balanced(x)
<1>1. /\ UNCHANGED <<incoming, gmail, stream, nats, report, backfills>>
      /\ pc["action"] = "effects" /\ pc'["action"] \in {"effects", "publish"}
      /\ pc'["thinking"] = pc["thinking"]
  BY DEF SaveEvent, SaveEventFails, Notify, Goto, effects, PTypes, Handlers, Consumers
<1>2. mishaps <= mishaps'
  BY NextScenario
<1>3. ToThink(x)' = ToThink(x)
  BY <1>1, ThinkSame DEF nats
<1>4. Upstream(x)' = Upstream(x)
  BY <1>1, <1>3, UpstreamSame DEF gmail
<1>5. ToEnter(x)' = ToEnter(x) /\ ToTell(x)' = ToTell(x)
  BY <1>1, EnterSame, TellSame DEF nats
<1>6. stream'["memory"] = stream["memory"]
  BY <1>1
<1>7. /\ Upstream(x)' + ToEnter(x)' + mishaps + backfills
           <= Upstream(x) + ToEnter(x) + mishaps' + backfills'
      /\ Upstream(x)' + ToTell(x)' + mishaps + backfills
           <= Upstream(x) + ToTell(x) + mishaps' + backfills'
  BY <1>1, <1>2, <1>4, <1>5, Figures
<1>8. QED
  BY <1>1, <1>6, <1>7, BalancedWhen

\* The request at work is told of.
LEMMA Told ==
  ASSUME PTypes, NEW x, pc["action"] = "publish", PublishTo("memory", Outcome)
  PROVE  Cardinality(Of("memory", x)') =
           Cardinality(Of("memory", x)) + (IF Req.source = x THEN 1 ELSE 0)
<1> DEFINE l == Len(stream["memory"]) + 1
           S == Of("memory", x)
<1>0. "memory" \in Consumers /\ Outcome \in Msgs("memory")
  BY RightMessages DEF Consumers
<1>1. PICK msg \in Msgs("memory") : msg = Outcome /\ msg.source = Req.source
  BY <1>0 DEF Outcome
<1>2. /\ DOMAIN stream["memory"] = 1..(l - 1) /\ DOMAIN stream'["memory"] = 1..l /\ l \in Nat
      /\ stream'["memory"][l] = msg
      /\ \A n \in DOMAIN stream["memory"] : stream'["memory"][n] = stream["memory"][n]
  BY <1>0, <1>1, OneMessageMore DEF PTypes
<1>3. l \notin DOMAIN stream["memory"] /\ DOMAIN stream'["memory"] = DOMAIN stream["memory"] \cup {l}
  BY <1>2
<1>4. l \notin S /\ SourceOf("memory", msg) = Req.source
  BY <1>1, <1>3 DEF Of, SourceOf
<1> HIDE DEF l
<1>5. S' = IF Req.source = x THEN S \cup {l} ELSE S
  <2>1. S' = {n \in DOMAIN stream["memory"] \cup {l} : SourceOf("memory", stream'["memory"][n]) = x}
    BY <1>3 DEF Of
  <2>2. S = {n \in DOMAIN stream["memory"] : SourceOf("memory", stream'["memory"][n]) = x}
    BY <1>2 DEF Of
  <2>3. CASE Req.source = x
    BY <1>2, <1>4, <2>1, <2>2, <2>3
  <2>4. CASE Req.source # x
    BY <1>2, <1>4, <2>1, <2>2, <2>4
  <2>5. QED
    BY <2>3, <2>4
<1>6. IsFiniteSet(S) /\ Cardinality(S) \in Nat
  BY DueTypes
<1>7. PICK T : T = S
  OBVIOUS
<1> HIDE DEF S
<1>8. CASE Req.source = x
  <2>1. Cardinality(T \cup {l}) = Cardinality(T) + 1
    BY <1>4, <1>6, <1>7, FS_AddElement
  <2>2. QED
    BY <1>5, <1>7, <1>8, <2>1 DEF S
<1>9. CASE Req.source # x
  BY <1>5, <1>6, <1>9 DEF S
<1>10. QED
  BY <1>8, <1>9

LEMMA BalancedOutcome ==
  ASSUME PTypes, PipelineNext, NEW x, IsFiniteSet(WholeEntries(x)),
         PublishOutcome \/ PublishOutcomeFails
  PROVE  Balanced(x)
<1> DEFINE one == IF Req.source = x THEN 1 ELSE 0
<1>0. "thinking" \in Consumers /\ "action" \in Consumers /\ "memory" \in Consumers
  BY DEF Consumers
<1>1. /\ UNCHANGED <<incoming, gmail, nats, report, backfills>>
      /\ pc["action"] = "publish" /\ buf["action"] # <<>> /\ pc'["action"] = "ack"
      /\ pc'["thinking"] = pc["thinking"]
      /\ UNCHANGED stream \/ PublishTo("memory", Outcome)
  BY DEF PublishOutcome, PublishOutcomeFails, PublishToFails, Dispatched, Goto, effects, PTypes,
     Handlers, Consumers
<1>2. stream'["thinking"] = stream["thinking"] /\ stream'["action"] = stream["action"]
  BY <1>0, <1>1 DEF PublishTo, PTypes, Streams
<1>3. mishaps <= mishaps'
  BY NextScenario
<1>4. ToThink(x)' = ToThink(x)
  BY <1>1, <1>2, ThinkSame DEF nats
<1>5. Upstream(x)' = Upstream(x)
  BY <1>1, <1>4, UpstreamSame DEF gmail
<1>6. ToEnter(x)' = ToEnter(x)
  BY <1>1, <1>2, EnterSame DEF nats
<1>7. ToTell(x) = ToTell(x)' + one
  <2>1. PICK L : L = {"ack"}
    OBVIOUS
  <2>2. SourceOf("action", Message("action")) = Req.source
    BY DEF SourceOf, Req
  <2>3. Load("action", Of("action", x), From(L, "action")) =
          Load("action", Of("action", x), From(L, "action"))'
            + (IF SourceOf("action", Message("action")) = x THEN 1 ELSE 0)
    BY <1>0, <1>1, <1>2, <2>1, LoadHead
  <2>4. QED
    BY <2>1, <2>2, <2>3 DEF ToTell
<1>8. Cardinality(Of("memory", x)') <= Cardinality(Of("memory", x)) + one
  <2>1. CASE PublishTo("memory", Outcome)
    BY <1>1, <2>1, Told, Figures
  <2>2. CASE UNCHANGED stream
    <3>1. Of("memory", x)' = Of("memory", x)
      BY <2>2, ToldSame
    <3>2. QED
      BY <3>1, Figures
  <2>3. QED
    BY <1>1, <2>1, <2>2
<1>9. WholeEntries(x)' = WholeEntries(x)
  BY <1>1, NextStreamStep, StreamsStay, WholeSame DEF PTypes
<1>10. Cardinality(WholeEntries(x))' = Cardinality(WholeEntries(x)) /\ IsFiniteSet(WholeEntries(x)')
  BY <1>9
<1>11. one \in {0, 1} /\ backfills' = backfills
  BY <1>1
<1> HIDE DEF one
<1>12. Entries(x)' + mishaps + backfills <= Entries(x) + mishaps' + backfills'
  BY <1>3, <1>5, <1>6, <1>10, <1>11, Figures DEF Entries
<1>13. Tellings(x)' + mishaps + backfills <= Tellings(x) + mishaps' + backfills'
  BY <1>3, <1>5, <1>7, <1>8, <1>11, Figures DEF Tellings
<1>14. QED
  BY <1>10, <1>12, <1>13 DEF Balanced

\* memory-svc and its database.
LEMMA BalancedMemory ==
  ASSUME PTypes, PipelineNext, NEW x, IsFiniteSet(WholeEntries(x)),
         Memory \/ Outage \/ Reconnect \/ OwnerActs
  PROVE  Balanced(x)
<1>0. /\ acked \in [Consumers -> SUBSET Nat] /\ out \in [Consumers -> SUBSET Nat]
      /\ buf \in [Consumers -> Seq(Nat)] /\ pc \in [Consumers -> Steps]
  BY DEF PTypes, Buffers, Handlers, Steps
<1>1. /\ UNCHANGED <<incoming, seen, current, stream, report, backfills>>
      /\ \A d \in {"thinking", "action"} :
           acked'[d] = acked[d] /\ out'[d] = out[d] /\ buf'[d] = buf[d] /\ pc'[d] = pc[d]
  <2>1. CASE WriteEpisode
    BY <1>0, <2>1 DEF WriteEpisode, Goto, Consumers, gmail, nats, effects
  <2>2. CASE WriteEpisodeFails
    BY <1>0, <2>2 DEF WriteEpisodeFails, Consumers, gmail, effects
  <2>3. CASE Outage \/ Reconnect \/ OwnerActs
    BY <2>3 DEF Outage, Reconnect, OwnerActs, gmail, nats, effects
  <2>4. QED
    BY <2>1, <2>2, <2>3 DEF Memory
<1>2. mishaps <= mishaps'
  BY NextScenario
<1>3. ToThink(x)' = ToThink(x)
  BY <1>1, ThinkSame
<1>4. Upstream(x)' = Upstream(x)
  BY <1>1, <1>3, UpstreamSame
<1>5. ToEnter(x)' = ToEnter(x) /\ ToTell(x)' = ToTell(x)
  BY <1>1, EnterSame, TellSame
<1>6. stream'["memory"] = stream["memory"]
  BY <1>1
<1>7. /\ Upstream(x)' + ToEnter(x)' + mishaps + backfills
           <= Upstream(x) + ToEnter(x) + mishaps' + backfills'
      /\ Upstream(x)' + ToTell(x)' + mishaps + backfills
           <= Upstream(x) + ToTell(x) + mishaps' + backfills'
  BY <1>1, <1>2, <1>4, <1>5, Figures
<1>8. QED
  BY <1>1, <1>6, <1>7, BalancedWhen

LEMMA NextAccounted ==
  ASSUME PTypes, Accounted, PipelineNext
  PROVE  Accounted'
<1>1. ASSUME NEW x PROVE Balanced(x)
  <2>1. IsFiniteSet(WholeEntries(x))
    BY DEF Accounted
  <2>2. QED
    BY <2>1, BalancedPerception, BalancedNats, BalancedThink, BalancedRequest, BalancedEntry,
       BalancedEffects, BalancedOutcome, BalancedMemory
    DEF PipelineNext, Consume, Thinking, Action
<1>2. ASSUME NEW x
      PROVE  /\ IsFiniteSet(WholeEntries(x)')
             /\ Entries(x)' <= 1 + mishaps' + backfills'
             /\ Tellings(x)' <= 1 + mishaps' + backfills'
  <2>1. IsFiniteSet(WholeEntries(x)) /\ IsFiniteSet(WholeEntries(x)')
    BY <1>1 DEF Accounted, Balanced
  <2>2. Cardinality(WholeEntries(x)') \in Nat
    BY <2>1, FS_CardinalityType
  <2>3. /\ Entries(x) \in Nat /\ Tellings(x) \in Nat
        /\ mishaps \in Nat /\ mishaps' \in Nat /\ backfills \in Nat /\ backfills' \in Nat
    BY <2>1, Figures DEF Entries, Tellings
  <2>4. Entries(x)' \in Nat /\ Tellings(x)' \in Nat
    BY <2>1, <2>2, Figures DEF Entries, Tellings
  <2>5. Entries(x) <= 1 + mishaps + backfills /\ Tellings(x) <= 1 + mishaps + backfills
    BY DEF Accounted
  <2>6. /\ Entries(x)' + mishaps + backfills <= Entries(x) + mishaps' + backfills'
        /\ Tellings(x)' + mishaps + backfills <= Tellings(x) + mishaps' + backfills'
    BY <1>1 DEF Balanced
  <2>7. QED
    BY <2>1, <2>3, <2>4, <2>5, <2>6
<1>3. QED
  BY <1>2 DEF Accounted

-----------------------------------------------------------------------------
(* The invariant *)

\* In the beginning nothing is done, and what there is to do is to come.
LEMMA InitAccounted ==
  ASSUME PipelineInit, PTypes
  PROVE  Accounted
<1>1. ASSUME NEW x PROVE WholeEntries(x) = {}
  <2>1. PICK J : J = BOOLEAN
    OBVIOUS
  <2>2. PICK reqs : reqs = stream["action"]
    OBVIOUS
  <2>3. ASSUME NEW d \in DOMAIN report, NEW i \in J, NEW k \in WholeOf(report[d][i], reqs, x)
        PROVE  FALSE
    <3>1. report[d][i] = <<>>
      BY <2>1, <2>3 DEF PipelineInit
    <3>2. k \in DOMAIN report[d][i]
      BY <2>3, WholeOfs
    <3>3. QED
      BY <3>1, <3>2
  <2>4. \A e : e \notin EntriesIn(report, J, reqs, x)
    BY <2>3, WholeMembers
  <2>5. QED
    BY <2>1, <2>2, <2>4, EntriesInReport
<1>2. ASSUME NEW x, NEW c \in Consumers PROVE Of(c, x) = {}
  BY <1>2 DEF PipelineInit, Of
<1>3. ASSUME NEW x, NEW c \in Consumers, NEW L, "idle" \notin L
      PROVE  Load(c, Of(c, x), From(L, c)) = 0
  <2>1. /\ Of(c, x) = {} /\ acked[c] \cup out[c] = {} /\ buf[c] = <<>> /\ From(L, c) = 1
    BY <1>2, <1>3 DEF PipelineInit, From
  <2>2. Of(c, x) \ (acked[c] \cup out[c]) = {} /\ Places(buf[c], Of(c, x), From(L, c)) = {}
    BY <2>1 DEF Places
  <2>3. QED
    BY <2>2, FS_EmptySet DEF Load, Weight
<1>4. ASSUME NEW x
      PROVE  ToThink(x) = 0 /\ ToEnter(x) = 0 /\ ToTell(x) = 0
  <2>1. "thinking" \in Consumers /\ "action" \in Consumers
    BY DEF Consumers
  <2>2. PICK L : L = {"ack"}
    OBVIOUS
  <2>3. PICK M : M = {"effects", "publish", "ack"}
    OBVIOUS
  <2>4. /\ Load("thinking", Of("thinking", x), From(L, "thinking")) = 0
        /\ Load("action", Of("action", x), From(L, "action")) = 0
        /\ Load("action", Of("action", x), From(M, "action")) = 0
    BY <1>3, <2>1, <2>2, <2>3
  <2>5. QED
    BY <2>2, <2>3, <2>4 DEF ToThink, ToEnter, ToTell
<1>5. ASSUME NEW x PROVE Cardinality(WholeEntries(x)) = 0 /\ IsFiniteSet(WholeEntries(x))
  BY <1>1, FS_EmptySet
<1>6. ASSUME NEW x PROVE Cardinality(Of("memory", x)) = 0
  BY <1>2, FS_EmptySet DEF Consumers
<1>7. mishaps = 0 /\ backfills = 0
  BY DEF PipelineInit
<1>8. QED
  BY <1>4, <1>5, <1>6, <1>7 DEF Accounted, Entries, Tellings, Upstream

LEMMA NextOneRow ==
  ASSUME PTypes, OneRow, PipelineNext
  PROVE  OneRow'
<1> DEFINE l == Len(episodes) + 1
<1>1. /\ Len(episodes) \in Nat /\ DOMAIN episodes = 1..Len(episodes)
      /\ \A i \in DOMAIN episodes : i \in DOMAIN episodes' /\ episodes'[i] = episodes[i]
      /\ \A i \in DOMAIN episodes' :
           \/ i \in DOMAIN episodes
           \/ /\ i = l /\ episodes'[i] = <<Seq1("memory"), Message("memory")>>
              /\ \A j \in DOMAIN episodes : episodes[j][1] # Seq1("memory")
  BY NextEffects, EpisodesStay
<1>2. ASSUME NEW i \in DOMAIN episodes', NEW j \in DOMAIN episodes',
             episodes'[i][1] = episodes'[j][1]
      PROVE  i = j
  <2>1. CASE i \in DOMAIN episodes /\ j \in DOMAIN episodes
    BY <1>1, <1>2, <2>1 DEF OneRow
  <2>2. CASE i \notin DOMAIN episodes /\ j \notin DOMAIN episodes
    BY <1>1, <2>2
  <2>3. CASE i \in DOMAIN episodes /\ j \notin DOMAIN episodes
    <3>1. episodes'[j][1] = Seq1("memory") /\ episodes[i][1] # Seq1("memory")
      BY <1>1, <2>3
    <3>2. episodes'[i] = episodes[i]
      BY <1>1, <2>3
    <3>3. QED
      BY <1>2, <3>1, <3>2
  <2>4. CASE i \notin DOMAIN episodes /\ j \in DOMAIN episodes
    <3>1. episodes'[i][1] = Seq1("memory") /\ episodes[j][1] # Seq1("memory")
      BY <1>1, <2>4
    <3>2. episodes'[j] = episodes[j]
      BY <1>1, <2>4
    <3>3. QED
      BY <1>2, <3>1, <3>2
  <2>5. QED
    BY <2>1, <2>2, <2>3, <2>4
<1>3. QED
  BY <1>2 DEF OneRow

\* An episode is an outcome, and no two are of the same.
LEMMA EpisodesOf ==
  ASSUME PTypes, OneRow, NEW x
  PROVE  Cardinality({i \in DOMAIN episodes : episodes[i][2].source = x})
           <= Cardinality(Of("memory", x))
<1> DEFINE S == {i \in DOMAIN episodes : episodes[i][2].source = x}
           T == Of("memory", x)
           f == [i \in S |-> episodes[i][1]]
<1>1. \A i \in S : episodes[i][1] \in T
  BY DEF PTypes, Kept, Of, SourceOf
<1>2. \A i, j \in S : episodes[i][1] = episodes[j][1] => i = j
  BY DEF OneRow
<1>3. f \in Injection(S, T)
  <2> HIDE DEF S, T
  <2>1. f \in [S -> T]
    BY <1>1
  <2>2. \A i, j \in S : f[i] = f[j] => i = j
    BY <1>2
  <2>3. QED
    BY <2>1, <2>2 DEF Injection, IsInjective
<1>4. IsFiniteSet(T)
  BY DueTypes
<1> HIDE DEF S, T, f
<1>5. Cardinality(S) <= Cardinality(T)
  BY <1>3, <1>4, FS_Injection
<1>6. QED
  BY <1>5 DEF S, T

LEMMA PInvRepeats == PInv => RepeatsAccountedFor
<1> SUFFICES ASSUME PInv PROVE RepeatsAccountedFor
  OBVIOUS
<1>1. PTypes /\ OneRow /\ Accounted
  BY DEF PInv
<1>2. ASSUME NEW x
      PROVE  /\ Cardinality(WholeEntries(x)) <= 1 + mishaps + backfills
             /\ Cardinality({i \in DOMAIN episodes : episodes[i][2].source = x})
                  <= 1 + mishaps + backfills
  <2>1. IsFiniteSet(WholeEntries(x)) /\ Entries(x) <= 1 + mishaps + backfills
        /\ Tellings(x) <= 1 + mishaps + backfills
    BY <1>1 DEF Accounted
  <2>2. Cardinality(WholeEntries(x)) \in Nat
    BY <2>1, FS_CardinalityType
  <2>3. /\ Upstream(x) \in Nat /\ ToEnter(x) \in Nat /\ ToTell(x) \in Nat
        /\ Cardinality(Of("memory", x)) \in Nat
    BY <1>1, DueTypes
  <2>4. mishaps \in Nat /\ backfills \in Nat
    BY <1>1, LimitsAssumption DEF PTypes, Watching
  <2> DEFINE rows == {i \in DOMAIN episodes : episodes[i][2].source = x}
  <2>5. Cardinality(rows) <= Cardinality(Of("memory", x)) /\ Cardinality(rows) \in Nat
    <3>1. Len(episodes) \in Nat /\ DOMAIN episodes = 1..Len(episodes)
      BY <1>1 DEF PTypes, Kept
    <3>2. IsFiniteSet(rows)
      <4>1. IsFiniteSet(1..Len(episodes)) /\ rows \subseteq 1..Len(episodes)
        BY <3>1, UpToFinite
      <4> HIDE DEF rows
      <4>2. QED
        BY <4>1, FS_Subset
    <3>3. Cardinality(rows) <= Cardinality(Of("memory", x))
      BY <1>1, EpisodesOf
    <3> HIDE DEF rows
    <3>4. QED
      BY <3>2, <3>3, FS_CardinalityType
  <2> HIDE DEF rows
  <2>6. Cardinality(WholeEntries(x)) <= 1 + mishaps + backfills
    BY <2>1, <2>2, <2>3, <2>4 DEF Entries
  <2>7. Cardinality(rows) <= 1 + mishaps + backfills
    BY <2>1, <2>3, <2>4, <2>5 DEF Tellings
  <2>8. QED
    BY <2>6, <2>7 DEF rows
<1>3. \A i, j \in DOMAIN episodes : episodes[i][1] = episodes[j][1] => i = j
  BY <1>1 DEF OneRow
<1>4. QED
  BY <1>2, <1>3 DEF RepeatsAccountedFor

LEMMA InitPInv ==
  ASSUME PipelineInit
  PROVE  PInv
<1>1. PTypes
  BY InitPTypes
<1>2. Accounted
  BY <1>1, InitAccounted
<1>3. \A c \in Consumers : stream[c] = <<>> /\ acked[c] = {} /\ pc[c] = "idle"
  BY DEF PipelineInit
<1>4. "thinking" \in Consumers /\ "action" \in Consumers /\ "memory" \in Consumers
  BY DEF Consumers
<1>5. HandedOn
  BY <1>3, <1>4 DEF HandedOn, PipelineInit
<1>6. AtHead /\ EntryAtHead
  BY <1>3, <1>4 DEF AtHead, EntryAtHead, PipelineInit
<1>7. OneRow
  BY DEF OneRow, PipelineInit
<1>8. SuccessIsReported
  <2>1. Outcomes = {}
    BY <1>3, <1>4 DEF Outcomes, Range
  <2>2. \A d \in DOMAIN report, i \in BOOLEAN : report[d][i] = <<>>
    BY DEF PipelineInit
  <2>3. WellSeparated(<<>>)
    BY DEF WellSeparated
  <2>4. QED
    BY <2>1, <2>2, <2>3 DEF SuccessIsReported
<1>9. QED
  BY <1>1, <1>2, <1>5, <1>6, <1>7, <1>8 DEF PInv

\* What nothing happens to stays.
LEMMA PInvStays ==
  ASSUME PInv, UNCHANGED pipeline
  PROVE  PInv'
<1>1. UNCHANGED <<mailbox, posts, alerts, seen, away, labelled, ids, current, stream, acked, out, buf,
                  pc, request, entryStatus, ev, report, reminders, episodes, db, notified, lost,
                  backfills, mishaps>>
  BY DEF pipeline, incoming, gmail, nats, local, effects, memory
<1>2. PTypes /\ HandedOn /\ AtHead /\ SuccessIsReported /\ EntryAtHead /\ Accounted /\ OneRow
  BY DEF PInv
<1>3. Scenario' /\ Streams' /\ Watching'
  BY <1>1, <1>2 DEF PTypes, Scenario, Streams, Watching
<1>4. Buffers'
  BY <1>1, <1>2 DEF PTypes, Buffers
<1>5. Handlers'
  BY <1>1, <1>2 DEF PTypes, Handlers, Message, Seq1
<1>6. Kept' /\ OneRow'
  BY <1>1, <1>2 DEF PTypes, Kept, OneRow
<1>7. /\ \A id : HasStimulus(id)' <=> HasStimulus(id)
      /\ \A n : HasRequest(n)' <=> HasRequest(n)
      /\ \A n : HasOutcome(n)' <=> HasOutcome(n)
      /\ \A n : HasReminders(n)' <=> HasReminders(n)
      /\ \A n : HasNotification(n)' <=> HasNotification(n)
      /\ \A n : HasEpisode(n)' <=> HasEpisode(n)
      /\ \A n, j : HasRemindersBefore(n, j)' <=> HasRemindersBefore(n, j)
      /\ \A n : Reported(n)' <=> Reported(n)
  BY <1>1 DEF HasStimulus, HasRequest, HasOutcome, HasReminders, HasNotification, HasEpisode,
     HasRemindersBefore, Reported, Requests, Outcomes
<1>8. HandedOn'
  BY <1>1, <1>2, <1>7 DEF HandedOn
<1>9. AtHead' /\ EntryAtHead'
  BY <1>1, <1>2, <1>7 DEF AtHead, EntryAtHead, Seq1
<1>10. SuccessIsReported'
  BY <1>1, <1>2, <1>7 DEF SuccessIsReported, Outcomes
<1>11. Accounted'
  <2>1. ASSUME NEW x
        PROVE  /\ WholeEntries(x)' = WholeEntries(x) /\ Of("memory", x)' = Of("memory", x)
               /\ Upstream(x)' = Upstream(x)
               /\ ToEnter(x)' = ToEnter(x) /\ ToTell(x)' = ToTell(x)
    <3>1. WholeEntries(x)' = WholeEntries(x)
      BY <1>1, <1>2, StreamsStay, WholeSame DEF PTypes, StreamStep
    <3>2. ToThink(x)' = ToThink(x) /\ ToEnter(x)' = ToEnter(x) /\ ToTell(x)' = ToTell(x)
      BY <1>1, ThinkSame, EnterSame, TellSame
    <3>3. QED
      BY <1>1, <3>1, <3>2, UpstreamSame, ToldSame DEF incoming
  <2>2. ASSUME NEW x PROVE Entries(x)' = Entries(x) /\ Tellings(x)' = Tellings(x)
    BY <2>1 DEF Entries, Tellings
  <2>3. QED
    BY <1>1, <1>2, <2>1, <2>2 DEF Accounted
<1>12. QED
  BY <1>3, <1>4, <1>5, <1>6, <1>8, <1>9, <1>10, <1>11 DEF PInv, PTypes

LEMMA PipelineInvariance == PipelineSpec => []PInv
<1>1. PipelineInit => PInv
  BY InitPInv
<1>2. PInv /\ [PipelineNext]_pipeline => PInv'
  <2>1. ASSUME PInv, PipelineNext PROVE PInv'
    <3>1. PTypes /\ HandedOn /\ AtHead /\ SuccessIsReported /\ EntryAtHead /\ Accounted /\ OneRow
      BY <2>1 DEF PInv
    <3>2. PTypes' /\ Accounted' /\ OneRow'
      BY <2>1, <3>1, NextPTypes, NextAccounted, NextOneRow
    <3>3. HandedOn' /\ AtHead'
      BY <2>1, <3>1, NextHandedOn, NextAtHead
    <3>4. SuccessIsReported' /\ EntryAtHead'
      BY <2>1, <3>1, NextSuccess, NextEntryAtHead
    <3>5. QED
      BY <3>2, <3>3, <3>4 DEF PInv
  <2>2. ASSUME PInv, UNCHANGED pipeline PROVE PInv'
    BY <2>2, PInvStays
  <2>3. QED
    BY <2>1, <2>2
<1>3. QED
  BY <1>1, <1>2, PTL DEF PipelineSpec

-----------------------------------------------------------------------------
(* Induction, by the least counterexample *)

LEMMA Least ==
  ASSUME NEW T \in SUBSET Nat, T # {}
  PROVE  \E x \in T : \A y \in T : x <= y
<1>1. PICK x \in T : \A y \in T : ~(<<y, x>> \in OpToRel(<, Nat))
  BY NatLessThanWellFounded, WFMin
<1>2. \A y \in T : ~(y < x)
  BY <1>1 DEF OpToRel
<1>3. QED
  BY <1>2

\* What holds of 0, and of each number if of the one before, holds of all: the
\* numbers are those of a set.
LEMMA AllUpTo ==
  ASSUME NEW n \in Nat, NEW G, 0 \in G,
         \A m \in 0..n : m # 0 /\ m - 1 \in G => m \in G
  PROVE  \A m \in 0..n : m \in G
<1> DEFINE Bad == (0..n) \ G
<1>1. SUFFICES ASSUME Bad # {} PROVE FALSE
  OBVIOUS
<1>2. Bad \in SUBSET Nat
  OBVIOUS
<1>3. PICK m \in Bad : \A y \in Bad : m <= y
  BY <1>1, <1>2, Least
<1>4. m \in 0..n /\ m \notin G /\ m # 0 /\ m - 1 \in 0..n /\ ~(m <= m - 1)
  BY <1>3
<1>5. m - 1 \in G
  BY <1>3, <1>4
<1>6. QED
  BY <1>4, <1>5

-----------------------------------------------------------------------------
(* The recursive functions do what their definitions say *)

FoundUpTo(f, results, n) ==
  f = [k \in 0..n |-> IF k = 0 THEN NothingFound ELSE Merge(f[k - 1], results[k])]

LEMMA FoundUpToExists ==
  ASSUME NEW results, NEW n \in Nat
  PROVE  \E f : FoundUpTo(f, results, n)
<1> DEFINE G == {m \in 0..n : \E f : FoundUpTo(f, results, m)}
<1>1. 0 \in G
  <2>1. FoundUpTo([k \in 0..0 |-> NothingFound], results, 0)
    BY DEF FoundUpTo
  <2>2. QED
    BY <2>1
<1>2. ASSUME NEW m \in 0..n, m # 0, m - 1 \in G PROVE m \in G
  <2>1. PICK f : FoundUpTo(f, results, m - 1)
    BY <1>2
  <2> DEFINE g == [k \in 0..m |-> IF k = m THEN Merge(f[m - 1], results[m]) ELSE f[k]]
             h == [k \in 0..m |-> IF k = 0 THEN NothingFound ELSE Merge(g[k - 1], results[k])]
  <2>2. ASSUME NEW k \in 0..m PROVE g[k] = h[k]
    <3>1. k # 0 => k - 1 \in 0..m /\ k - 1 # m /\ g[k - 1] = f[k - 1]
      BY <1>2
    <3>2. CASE k = m
      BY <1>2, <3>1, <3>2
    <3>3. CASE k # m
      <4>1. k \in 0..(m - 1)
        BY <1>2, <3>3
      <4>2. f[k] = IF k = 0 THEN NothingFound ELSE Merge(f[k - 1], results[k])
        BY <2>1, <4>1 DEF FoundUpTo
      <4>3. QED
        BY <3>1, <3>3, <4>2
    <3>4. QED
      BY <3>2, <3>3
  <2>3. g = h
    BY <2>2
  <2>4. FoundUpTo(g, results, m)
    BY <2>3 DEF FoundUpTo
  <2>5. QED
    BY <2>4
<1> HIDE DEF G
<1>3. \A m \in 0..n : m \in G
  BY <1>1, <1>2, AllUpTo
<1>4. QED
  BY <1>3 DEF G

LEMMA FirstFoundIs ==
  ASSUME NEW S, NEW results \in Seq(S)
  PROVE  \E f : /\ FoundUpTo(f, results, Len(results))
                /\ FirstFound(results) = f[Len(results)]
<1>1. \E f : FoundUpTo(f, results, Len(results))
  <2>1. Len(results) \in Nat
    OBVIOUS
  <2>2. QED
    BY <2>1, FoundUpToExists
<1>2. QED
  BY <1>1 DEF FirstFound, FoundUpTo

JoinedUpTo(f, seqs, n) ==
  f = [i \in 1..n |-> IF i = 1 THEN seqs[i] ELSE f[i - 1] \o seqs[i]]

LEMMA JoinedUpToExists ==
  ASSUME NEW seqs, NEW n \in Nat
  PROVE  \E f : JoinedUpTo(f, seqs, n)
<1> DEFINE G == {m \in 0..n : \E f : JoinedUpTo(f, seqs, m)}
<1>1. 0 \in G
  <2>1. JoinedUpTo([i \in 1..0 |-> 0], seqs, 0)
    BY DEF JoinedUpTo
  <2>2. QED
    BY <2>1
<1>2. ASSUME NEW m \in 0..n, m # 0, m - 1 \in G PROVE m \in G
  <2>1. PICK f : JoinedUpTo(f, seqs, m - 1)
    BY <1>2
  <2> DEFINE last == IF m = 1 THEN seqs[m] ELSE f[m - 1] \o seqs[m]
             g == [i \in 1..m |-> IF i = m THEN last ELSE f[i]]
             h == [i \in 1..m |-> IF i = 1 THEN seqs[i] ELSE g[i - 1] \o seqs[i]]
  <2>2. ASSUME NEW i \in 1..m PROVE g[i] = h[i]
    <3>1. i # 1 => i - 1 \in 1..m /\ i - 1 # m /\ g[i - 1] = f[i - 1]
      BY <1>2
    <3>2. CASE i = m
      BY <1>2, <3>1, <3>2
    <3>3. CASE i # m
      <4>1. i \in 1..(m - 1)
        BY <1>2, <3>3
      <4>2. f[i] = IF i = 1 THEN seqs[i] ELSE f[i - 1] \o seqs[i]
        BY <2>1, <4>1 DEF JoinedUpTo
      <4>3. QED
        BY <3>1, <3>3, <4>2
    <3>4. QED
      BY <3>2, <3>3
  <2>3. g = h
    BY <2>2
  <2>4. JoinedUpTo(g, seqs, m)
    BY <2>3 DEF JoinedUpTo
  <2>5. QED
    BY <2>4
<1> HIDE DEF G
<1>3. \A m \in 0..n : m \in G
  BY <1>1, <1>2, AllUpTo
<1>4. QED
  BY <1>3 DEF G

LEMMA FlattenSeqIs ==
  ASSUME NEW S, NEW seqs \in Seq(S)
  PROVE  \E f : /\ JoinedUpTo(f, seqs, Len(seqs))
                /\ FlattenSeq(seqs) = IF Len(seqs) = 0 THEN seqs ELSE f[Len(seqs)]
<1>1. \E f : JoinedUpTo(f, seqs, Len(seqs))
  <2>1. Len(seqs) \in Nat
    OBVIOUS
  <2>2. QED
    BY <2>1, JoinedUpToExists
<1>2. QED
  BY <1>1 DEF FlattenSeq, JoinedUpTo

Among(f, parts) == [i \in DOMAIN parts |-> f[parts[i]]]

\* From the node m on, f is the walk of FindTextParts, and g that of Bodies.
Walked(f, g, tree, m) ==
  /\ f = [n \in m..Len(tree) |-> FoundIn(tree[n], Among(f, tree[n].parts))]
  /\ g = [n \in m..Len(tree) |-> BodiesIn(tree[n], Among(g, tree[n].parts))]

LEMMA WalkedExists ==
  ASSUME NEW tree, IsTree(tree)
  PROVE  \E f, g : Walked(f, g, tree, 1)
<1> DEFINE l == Len(tree)
           G == {k \in 0..l : \E f, g : Walked(f, g, tree, l + 1 - k)}
<1>1. l \in Nat /\ DOMAIN tree = 1..l
  BY DEF IsTree
<1>2. 0 \in G
  <2>1. Walked([n \in (l + 1)..l |-> 0], [n \in (l + 1)..l |-> 0], tree, l + 1)
    BY <1>1 DEF Walked
  <2>2. QED
    BY <1>1, <2>1
<1>3. ASSUME NEW k \in 0..l, k # 0, k - 1 \in G PROVE k \in G
  <2> DEFINE m == l + 1 - k
  <2>1. m \in 1..l /\ l + 1 - (k - 1) = m + 1 /\ m \in Nat
    BY <1>1, <1>3
  <2>2. PICK f, g : Walked(f, g, tree, m + 1)
    BY <1>3, <2>1
  <2> HIDE DEF m
  <2> DEFINE ff == [n \in m..l |-> IF n = m THEN FoundIn(tree[m], Among(f, tree[m].parts))
                                    ELSE f[n]]
             gg == [n \in m..l |-> IF n = m THEN BodiesIn(tree[m], Among(g, tree[m].parts))
                                    ELSE g[n]]
             fh == [n \in m..l |-> FoundIn(tree[n], Among(ff, tree[n].parts))]
             gh == [n \in m..l |-> BodiesIn(tree[n], Among(gg, tree[n].parts))]
  <2>3. ASSUME NEW n \in m..l
        PROVE  /\ Among(ff, tree[n].parts) = Among(f, tree[n].parts)
               /\ Among(gg, tree[n].parts) = Among(g, tree[n].parts)
    <3>1. n \in DOMAIN tree /\ n \in Nat
      BY <1>1, <2>1
    <3>2. \A i \in DOMAIN tree[n].parts : tree[n].parts[i] \in (n + 1)..l
      BY <3>1 DEF IsTree
    <3>3. \A j \in (n + 1)..l : j \in m..l /\ j # m
      BY <1>1, <2>1, <3>1
    <3>4. \A i \in DOMAIN tree[n].parts :
            /\ ff[tree[n].parts[i]] = f[tree[n].parts[i]]
            /\ gg[tree[n].parts[i]] = g[tree[n].parts[i]]
      BY <3>2, <3>3
    <3> HIDE DEF ff, gg
    <3>5. QED
      BY <3>4 DEF Among
  <2>4. ASSUME NEW n \in m..l PROVE ff[n] = fh[n] /\ gg[n] = gh[n]
    <3>1. CASE n = m
      BY <2>3, <3>1
    <3>2. CASE n # m
      <4>1. n \in (m + 1)..l
        BY <1>1, <2>1, <3>2
      <4>2. /\ f[n] = FoundIn(tree[n], Among(f, tree[n].parts))
            /\ g[n] = BodiesIn(tree[n], Among(g, tree[n].parts))
        BY <2>2, <4>1 DEF Walked
      <4>3. QED
        BY <2>3, <3>2, <4>2
    <3>3. QED
      BY <3>1, <3>2
  <2>5. ff = fh /\ gg = gh
    BY <2>4
  <2>6. Walked(ff, gg, tree, m)
    BY <2>5 DEF Walked
  <2>7. QED
    BY <2>6 DEF m
<1> HIDE DEF G
<1>4. \A k \in 0..l : k \in G
  BY <1>1, <1>2, <1>3, AllUpTo
<1>5. l \in G
  BY <1>1, <1>4
<1>6. l + 1 - l = 1
  BY <1>1
<1>7. QED
  BY <1>5, <1>6 DEF G

LEMMA WalksAre ==
  ASSUME NEW tree, IsTree(tree)
  PROVE  \E f, g : /\ Walked(f, g, tree, 1)
                   /\ FindTextParts(tree) = f[1] /\ Bodies(tree) = g[1]
<1>1. DOMAIN tree = 1..Len(tree)
  BY DEF IsTree
<1>2. PICK f, g : Walked(f, g, tree, 1)
  BY WalkedExists
<1>3. /\ f = [n \in DOMAIN tree |->
                FoundIn(tree[n], [i \in DOMAIN tree[n].parts |-> f[tree[n].parts[i]]])]
      /\ g = [n \in DOMAIN tree |->
                BodiesIn(tree[n], [i \in DOMAIN tree[n].parts |-> g[tree[n].parts[i]]])]
  BY <1>1, <1>2 DEF Walked, Among
<1>4. \E h : /\ h = [n \in DOMAIN tree |->
                      FoundIn(tree[n], [i \in DOMAIN tree[n].parts |-> h[tree[n].parts[i]]])]
             /\ FindTextParts(tree) = h[1]
  BY <1>3 DEF FindTextParts
<1>5. \E h : /\ h = [n \in DOMAIN tree |->
                      BodiesIn(tree[n], [i \in DOMAIN tree[n].parts |-> h[tree[n].parts[i]]])]
             /\ Bodies(tree) = h[1]
  BY <1>3 DEF Bodies
<1>6. QED
  BY <1>1, <1>4, <1>5 DEF Walked, Among

-----------------------------------------------------------------------------
(* The first text of a sequence of bodies *)

LEMMA FirstOf ==
  ASSUME NEW P, NEW bodies \in Seq(P), NEW type
  PROVE  /\ Written(bodies, type) = {} <=> FirstText(bodies, type) = Empty
         /\ \A i \in Written(bodies, type) :
              (\A j \in Written(bodies, type) : i <= j)
                => FirstText(bodies, type) = bodies[i].data
         /\ Written(bodies, type) # {} =>
              \E i \in Written(bodies, type) : \A j \in Written(bodies, type) : i <= j
<1> DEFINE W == Written(bodies, type)
<1>1. W \in SUBSET Nat
  BY DEF Written
<1>2. W # {} => \E i \in W : \A j \in W : i <= j
  BY <1>1, Least
<1>3. W # {} => Min(W) \in W /\ \A j \in W : Min(W) <= j
  BY <1>2 DEF Min
<1>4. \A i \in W : (\A j \in W : i <= j) => i = Min(W)
  BY <1>1, <1>3
<1>5. \A i \in W : bodies[i].data # Empty
  BY DEF Written
<1>6. QED
  BY <1>2, <1>3, <1>4, <1>5 DEF FirstText

LEMMA FirstOfJoin ==
  ASSUME NEW P, NEW a \in Seq(P), NEW b \in Seq(P), NEW type
  PROVE  FirstText(a \o b, type) =
           IF FirstText(a, type) # Empty THEN FirstText(a, type) ELSE FirstText(b, type)
<1> DEFINE c == a \o b
<1>1. /\ c \in Seq(P) /\ Len(a) \in Nat /\ Len(b) \in Nat /\ Len(c) = Len(a) + Len(b)
      /\ DOMAIN a = 1..Len(a) /\ DOMAIN b = 1..Len(b) /\ DOMAIN c = 1..Len(c)
      /\ \A i \in 1..Len(a) : c[i] = a[i]
      /\ \A i \in 1..Len(b) : c[Len(a) + i] = b[i]
  OBVIOUS
<1> HIDE DEF c
<1>2. \A i \in DOMAIN c : i \in DOMAIN a \/ \E j \in DOMAIN b : i = Len(a) + j
  <2>1. \A i \in 1..(Len(a) + Len(b)) :
           i \in 1..Len(a) \/ (i - Len(a) \in 1..Len(b) /\ i = Len(a) + (i - Len(a)))
    BY <1>1
  <2>2. QED
    BY <1>1, <2>1
<1>3. \A i \in 1..Len(a) : i \in DOMAIN c
  BY <1>1
<1>4. \A i \in 1..Len(b) : Len(a) + i \in DOMAIN c
  BY <1>1
<1>5. \A i \in Written(a, type) : i \in Written(c, type)
  BY <1>1, <1>3 DEF Written
<1>6. \A j \in Written(b, type) : Len(a) + j \in Written(c, type)
  BY <1>1, <1>4 DEF Written
<1>7. \A i \in Written(c, type) :
        i \in Written(a, type) \/ \E j \in Written(b, type) : i = Len(a) + j
  BY <1>1, <1>2 DEF Written
<1>8. /\ \A i \in Written(a, type) : i \in 1..Len(a)
      /\ \A i \in Written(b, type) : i \in 1..Len(b)
  BY <1>1 DEF Written
<1>9. CASE Written(a, type) # {}
  <2>1. PICK i \in Written(a, type) : \A j \in Written(a, type) : i <= j
    BY <1>9, FirstOf
  <2>2. \A j \in Written(c, type) : i <= j
    BY <1>1, <1>7, <1>8, <2>1
  <2>3. FirstText(c, type) = c[i].data /\ FirstText(a, type) = a[i].data
    BY <1>1, <1>5, <2>1, <2>2, FirstOf
  <2>4. c[i] = a[i] /\ FirstText(a, type) # Empty
    BY <1>1, <1>8, <1>9, FirstOf
  <2>5. QED
    BY <2>3, <2>4 DEF c
<1>10. CASE Written(a, type) = {} /\ Written(b, type) # {}
  <2>1. PICK i \in Written(b, type) : \A j \in Written(b, type) : i <= j
    BY <1>10, FirstOf
  <2>2. \A j \in Written(c, type) : Len(a) + i <= j
    BY <1>1, <1>7, <1>8, <1>10, <2>1
  <2>3. FirstText(c, type) = c[Len(a) + i].data /\ FirstText(b, type) = b[i].data
    BY <1>1, <1>6, <2>1, <2>2, FirstOf
  <2>4. c[Len(a) + i] = b[i] /\ FirstText(a, type) = Empty
    BY <1>1, <1>8, <1>10, FirstOf
  <2>5. QED
    BY <2>3, <2>4 DEF c
<1>11. CASE Written(a, type) = {} /\ Written(b, type) = {}
  <2>1. Written(c, type) = {}
    BY <1>7, <1>11
  <2>2. FirstText(a, type) = Empty /\ FirstText(b, type) = Empty /\ FirstText(c, type) = Empty
    BY <1>1, <1>11, <2>1, FirstOf
  <2>3. QED
    BY <2>2 DEF c
<1>12. QED
  BY <1>9, <1>10, <1>11

-----------------------------------------------------------------------------
(* What is found is what a reader would take *)

\* What was found says of the bodies, unless it is an error: the first plain
\* text, and the first HTML if there is no plain text.
Agrees(got, bodies) ==
  /\ DOMAIN got = {"plain", "html", "err"} /\ got.err \in BOOLEAN
  /\ ~got.err =>
       /\ got.plain = FirstText(bodies, "plain")
       /\ got.plain = Empty => got.html = FirstText(bodies, "html")

LEMMA AgreesNothing == Agrees(NothingFound, <<>>)
<1>1. Written(<<>>, "plain") = {} /\ Written(<<>>, "html") = {}
  BY DEF Written
<1>2. QED
  BY <1>1 DEF Agrees, NothingFound, FirstText

LEMMA AgreesMerge ==
  ASSUME NEW P, NEW a \in Seq(P), NEW b \in Seq(P),
         NEW got, NEW more, Agrees(got, a), Agrees(more, b)
  PROVE  Agrees(Merge(got, more), a \o b)
<1>1. /\ FirstText(a \o b, "plain") =
           IF FirstText(a, "plain") # Empty THEN FirstText(a, "plain")
                                            ELSE FirstText(b, "plain")
      /\ FirstText(a \o b, "html") =
           IF FirstText(a, "html") # Empty THEN FirstText(a, "html")
                                           ELSE FirstText(b, "html")
  BY FirstOfJoin
<1>2. CASE got.err \/ got.plain # Empty
  BY <1>1, <1>2 DEF Agrees, Merge
<1>3. CASE ~got.err /\ got.plain = Empty /\ more.err
  BY <1>3 DEF Agrees, Merge, Unreadable, NothingFound
<1>4. CASE ~got.err /\ got.plain = Empty /\ ~more.err
  <2> DEFINE both == [more EXCEPT !.html = IF got.html = Empty THEN more.html ELSE got.html]
  <2>1. Merge(got, more) = both
    BY <1>4 DEF Merge
  <2>2. /\ DOMAIN both = {"plain", "html", "err"} /\ both.err = more.err
        /\ both.plain = more.plain
        /\ both.html = IF got.html = Empty THEN more.html ELSE got.html
    BY DEF Agrees
  <2> HIDE DEF both
  <2>3. QED
    BY <1>1, <1>4, <2>1, <2>2 DEF Agrees
<1>5. QED
  BY <1>2, <1>3, <1>4 DEF Agrees

LEMMA AgreesAll ==
  ASSUME NEW P, NEW seqs \in Seq(Seq(P)), NEW S, NEW results \in Seq(S),
         Len(results) = Len(seqs),
         \A i \in 1..Len(seqs) : Agrees(results[i], seqs[i])
  PROVE  /\ Agrees(FirstFound(results), FlattenSeq(seqs)) /\ FlattenSeq(seqs) \in Seq(P)
<1> DEFINE l == Len(seqs)
<1>1. PICK f : FoundUpTo(f, results, l) /\ FirstFound(results) = f[l]
  BY FirstFoundIs
<1>2. PICK g : JoinedUpTo(g, seqs, l) /\ FlattenSeq(seqs) = IF l = 0 THEN seqs ELSE g[l]
  BY FlattenSeqIs
<1>3. l \in Nat /\ \A i \in 1..l : seqs[i] \in Seq(P)
  OBVIOUS
<1> DEFINE at(k) == IF k = 0 THEN <<>> ELSE g[k]
           G == {k \in 0..l : Agrees(f[k], at(k)) /\ at(k) \in Seq(P)}
<1>4. 0 \in G
  <2>1. f[0] = NothingFound
    BY <1>1, <1>3 DEF FoundUpTo
  <2>2. QED
    BY <1>3, <2>1, AgreesNothing
<1>5. ASSUME NEW k \in 0..l, k # 0, k - 1 \in G PROVE k \in G
  <2>1. k \in 1..l /\ k - 1 \in 0..l
    BY <1>3, <1>5
  <2>2. f[k] = Merge(f[k - 1], results[k])
    BY <1>1, <1>5 DEF FoundUpTo
  <2>3. g[k] = IF k = 1 THEN seqs[k] ELSE g[k - 1] \o seqs[k]
    BY <1>2, <2>1 DEF JoinedUpTo
  <2>4. at(k) = at(k - 1) \o seqs[k]
    <3>1. CASE k = 1
      BY <1>3, <2>1, <2>3, <3>1
    <3>2. CASE k # 1
      <4>1. k # 0 /\ k - 1 # 0
        BY <1>3, <2>1, <3>2
      <4>2. at(k) = g[k] /\ at(k - 1) = g[k - 1]
        BY <4>1
      <4>3. QED
        BY <2>3, <3>2, <4>2
    <3>3. QED
      BY <3>1, <3>2
  <2>5. Agrees(f[k - 1], at(k - 1)) /\ at(k - 1) \in Seq(P)
    BY <1>5
  <2>6. Agrees(results[k], seqs[k]) /\ seqs[k] \in Seq(P)
    BY <1>3, <2>1
  <2> HIDE DEF at
  <2>7. Agrees(Merge(f[k - 1], results[k]), at(k - 1) \o seqs[k])
    BY <2>5, <2>6, AgreesMerge
  <2>8. at(k - 1) \o seqs[k] \in Seq(P)
    BY <2>5, <2>6
  <2>9. QED
    BY <2>2, <2>4, <2>7, <2>8
<1> HIDE DEF G
<1>6. \A k \in 0..l : k \in G
  BY <1>3, <1>4, <1>5, AllUpTo
<1>7. l \in G
  BY <1>3, <1>6
<1>8. FlattenSeq(seqs) = at(l)
  <2>1. l = 0 => seqs = <<>>
    OBVIOUS
  <2>2. QED
    BY <1>2, <2>1
<1>9. QED
  BY <1>1, <1>7, <1>8 DEF G

LEMMA AgreesPart ==
  ASSUME NEW P, NEW part \in P, NEW seqs \in Seq(Seq(P)), NEW S, NEW results \in Seq(S),
         Len(results) = Len(seqs),
         \A i \in 1..Len(seqs) : Agrees(results[i], seqs[i])
  PROVE  Agrees(FoundIn(part, results), BodiesIn(part, seqs)) /\ BodiesIn(part, seqs) \in Seq(P)
<1>1. CASE ~(part.name = NoName /\ IsText(part))
  BY <1>1, AgreesAll DEF FoundIn, BodiesIn
<1>2. CASE part.name = NoName /\ IsText(part)
  <2>1. BodiesIn(part, seqs) = <<part>> /\ <<part>> \in Seq(P)
    BY <1>2 DEF BodiesIn
  <2>2. CASE DecodeBody(part.data) = Garbled
    BY <1>2, <2>1, <2>2 DEF FoundIn, Agrees, Unreadable, NothingFound
  <2>3. CASE DecodeBody(part.data) # Garbled
    <3> DEFINE text == DecodeBody(part.data)
               got == TextFound(part.type, text)
    <3>1. FoundIn(part, seqs) = got /\ FoundIn(part, results) = got
      BY <1>2, <2>3 DEF FoundIn
    <3>2. part.type \in {"plain", "html"}
      BY <1>2 DEF IsText
    <3>3. /\ DOMAIN got = {"plain", "html", "err"} /\ got.err = FALSE
          /\ got.plain = IF part.type = "plain" THEN text ELSE Empty
          /\ got.html = IF part.type = "html" THEN text ELSE Empty
      <4>1. CASE part.type = "plain"
        BY <4>1 DEF TextFound, NothingFound
      <4>2. CASE part.type = "html"
        BY <4>2 DEF TextFound, NothingFound
      <4>3. QED
        BY <3>2, <4>1, <4>2
    <3>4. \A type : FirstText(<<part>>, type) = IF part.type = type THEN text ELSE Empty
      <4> SUFFICES ASSUME NEW type
                   PROVE  FirstText(<<part>>, type) = IF part.type = type THEN text ELSE Empty
        OBVIOUS
      <4>1. CASE part.type = type /\ part.data \notin {NoBody, Empty}
        <5>1. Written(<<part>>, type) = {1}
          BY <4>1 DEF Written
        <5>2. FirstText(<<part>>, type) = part.data
          <6>1. FirstText(<<part>>, type) = <<part>>[1].data
            BY <2>1, <5>1, FirstOf
          <6>2. QED
            BY <6>1
        <5>3. QED
          BY <4>1, <5>2 DEF DecodeBody
      <4>2. CASE ~(part.type = type /\ part.data \notin {NoBody, Empty})
        <5>1. Written(<<part>>, type) = {}
          BY <4>2 DEF Written
        <5>2. FirstText(<<part>>, type) = Empty
          BY <5>1 DEF FirstText
        <5>3. QED
          BY <4>2, <5>2 DEF DecodeBody
      <4>3. QED
        BY <4>1, <4>2
    <3> HIDE DEF got
    <3>5. Agrees(got, <<part>>)
      BY <3>2, <3>3, <3>4 DEF Agrees
    <3>6. QED
      BY <2>1, <3>1, <3>5
  <2>4. QED
    BY <2>2, <2>3
<1>3. QED
  BY <1>1, <1>2

\* The text of a mail, if it can be read, is the text a reader would take.
LEMMA ExtractBodyIsBestText ==
  ASSUME NEW tree, IsTree(tree), ~FindTextParts(tree).err
  PROVE  ExtractBody(FindTextParts(tree)) = BestText(tree)
<1> DEFINE l == Len(tree)
           P == Range(tree)
<1>1. /\ l \in Nat /\ l >= 1 /\ DOMAIN tree = 1..l /\ \A n \in 1..l : tree[n] \in P
  BY DEF IsTree
<1>2. PICK f, g : /\ Walked(f, g, tree, 1)
                  /\ FindTextParts(tree) = f[1] /\ Bodies(tree) = g[1]
  BY WalksAre
<1> DEFINE G == {k \in 0..l : \A n \in (l + 1 - k)..l : Agrees(f[n], g[n]) /\ g[n] \in Seq(P)}
<1>3. 0 \in G
  BY <1>1
<1>4. ASSUME NEW k \in 0..l, k # 0, k - 1 \in G PROVE k \in G
  <2> DEFINE m == l + 1 - k
  <2>1. m \in 1..l /\ l + 1 - (k - 1) = m + 1
    BY <1>1, <1>4
  <2>2. \A n \in (m + 1)..l : Agrees(f[n], g[n]) /\ g[n] \in Seq(P)
    BY <1>4, <2>1
  <2> HIDE DEF m
  <2> DEFINE parts == tree[m].parts
             results == Among(f, parts)
             seqs == Among(g, parts)
             S == {f[n] : n \in 1..l}
  <2>3. parts \in Seq(Nat) /\ \A i \in DOMAIN parts : parts[i] \in (m + 1)..l
    BY <1>1, <2>1 DEF IsTree
  <2>4. /\ Len(parts) \in Nat /\ DOMAIN parts = 1..Len(parts)
        /\ \A i \in 1..Len(parts) : parts[i] \in (m + 1)..l /\ parts[i] \in 1..l
    BY <1>1, <2>1, <2>3
  <2> HIDE DEF parts, S
  <2>5. /\ results = [i \in 1..Len(parts) |-> f[parts[i]]]
        /\ seqs = [i \in 1..Len(parts) |-> g[parts[i]]]
    BY <2>4 DEF Among
  <2>6. /\ results \in Seq(S) /\ Len(results) = Len(parts)
    <3>1. \A i \in 1..Len(parts) : f[parts[i]] \in S
      BY <2>4 DEF S
    <3>2. QED
      BY <2>4, <2>5, <3>1
  <2>7. /\ seqs \in Seq(Seq(P)) /\ Len(seqs) = Len(parts)
    <3>1. \A i \in 1..Len(parts) : g[parts[i]] \in Seq(P)
      BY <2>2, <2>4
    <3>2. QED
      BY <2>4, <2>5, <3>1
  <2>8. \A i \in 1..Len(seqs) : Agrees(results[i], seqs[i])
    BY <2>2, <2>4, <2>5, <2>7
  <2>9. f[m] = FoundIn(tree[m], results) /\ g[m] = BodiesIn(tree[m], seqs)
    BY <1>2, <2>1 DEF Walked, parts
  <2>10. tree[m] \in P
    BY <1>1, <2>1
  <2> HIDE DEF results, seqs
  <2>11. Agrees(f[m], g[m]) /\ g[m] \in Seq(P)
    BY <2>6, <2>7, <2>8, <2>9, <2>10, AgreesPart
  <2>12. \A n \in m..l : n = m \/ n \in (m + 1)..l
    BY <1>1, <2>1
  <2>13. \A n \in m..l : Agrees(f[n], g[n]) /\ g[n] \in Seq(P)
    BY <2>2, <2>11, <2>12
  <2>14. QED
    BY <2>13 DEF m
<1> HIDE DEF G
<1>5. \A k \in 0..l : k \in G
  BY <1>1, <1>3, <1>4, AllUpTo
<1>6. l \in G /\ 1 \in (l + 1 - l)..l
  BY <1>1, <1>5
<1>7. Agrees(f[1], g[1]) /\ g[1] \in Seq(P)
  BY <1>6 DEF G
<1>8. /\ f[1].plain = FirstText(g[1], "plain")
      /\ f[1].plain = Empty => f[1].html = FirstText(g[1], "html")
  BY <1>2, <1>7 DEF Agrees
<1>9. Written(g[1], "plain") = {} <=> FirstText(g[1], "plain") = Empty
  BY <1>7, FirstOf
<1>10. QED
  BY <1>2, <1>8, <1>9 DEF ExtractBody, BestText

-----------------------------------------------------------------------------
(* The CLI's copy *)

\* Every text part is a body to both copies: no attached file, and readable.
TextsAreBodies(tree) ==
  \A n \in DOMAIN tree : IsText(tree[n]) => tree[n].name = NoName /\ tree[n].data # Garbled

LEMMA SameOfPart ==
  ASSUME NEW part, NEW results, IsText(part) => part.name = NoName /\ part.data # Garbled
  PROVE  BackfillFoundIn(part, results) = FoundIn(part, results)
<1>1. CASE IsText(part)
  <2>1. part.name = NoName /\ part.data # Garbled /\ DecodeBody(part.data) # Garbled
    BY <1>1, BodiesAssumption DEF DecodeBody
  <2>2. QED
    BY <1>1, <2>1 DEF BackfillFoundIn, FoundIn
<1>2. CASE ~IsText(part)
  BY <1>2 DEF BackfillFoundIn, FoundIn
<1>3. QED
  BY <1>1, <1>2

LEMMA SameFound ==
  ASSUME NEW tree, IsTree(tree), TextsAreBodies(tree)
  PROVE  FindBackfillTextParts(tree) = FindTextParts(tree)
<1> DEFINE l == Len(tree)
<1>1. l \in Nat /\ l >= 1 /\ DOMAIN tree = 1..l
  BY DEF IsTree
<1>2. PICK f, g : Walked(f, g, tree, 1) /\ FindTextParts(tree) = f[1]
  BY WalksAre
<1>3. \A n \in 1..l : \A results : BackfillFoundIn(tree[n], results) = FoundIn(tree[n], results)
  BY <1>1, SameOfPart DEF TextsAreBodies
<1>4. f = [n \in 1..l |-> FoundIn(tree[n], Among(f, tree[n].parts))]
  BY <1>2 DEF Walked
<1>5. f = [n \in DOMAIN tree |->
             BackfillFoundIn(tree[n], [i \in DOMAIN tree[n].parts |-> f[tree[n].parts[i]]])]
  <2> DEFINE e == [n \in 1..l |-> BackfillFoundIn(tree[n], Among(f, tree[n].parts))]
  <2>1. \A n \in 1..l : e[n] = f[n]
    BY <1>3, <1>4
  <2>2. e = f
    BY <1>4, <2>1
  <2>3. QED
    BY <1>1, <2>2 DEF Among
<1>6. \E e : /\ e = [n \in DOMAIN tree |->
                      BackfillFoundIn(tree[n], [i \in DOMAIN tree[n].parts |-> e[tree[n].parts[i]]])]
             /\ FindBackfillTextParts(tree) = e[1]
  BY <1>5 DEF FindBackfillTextParts
<1>7. PICK h : /\ h = [n \in DOMAIN tree |->
                      BackfillFoundIn(tree[n], [i \in DOMAIN tree[n].parts |-> h[tree[n].parts[i]]])]
               /\ FindBackfillTextParts(tree) = h[1]
  BY <1>6
<1>8. h = [n \in 1..l |-> FoundIn(tree[n], Among(h, tree[n].parts))]
  BY <1>1, <1>3, <1>7 DEF Among
<1> DEFINE G == {k \in 0..l : \A n \in (l + 1 - k)..l : h[n] = f[n]}
<1>9. 0 \in G
  BY <1>1
<1>10. ASSUME NEW k \in 0..l, k # 0, k - 1 \in G PROVE k \in G
  <2> DEFINE m == l + 1 - k
  <2>1. m \in 1..l /\ l + 1 - (k - 1) = m + 1
    BY <1>1, <1>10
  <2>2. \A n \in (m + 1)..l : h[n] = f[n]
    BY <1>10, <2>1
  <2> HIDE DEF m
  <2>3. \A i \in DOMAIN tree[m].parts : tree[m].parts[i] \in (m + 1)..l
    BY <1>1, <2>1 DEF IsTree
  <2>4. Among(h, tree[m].parts) = Among(f, tree[m].parts)
    BY <2>2, <2>3 DEF Among
  <2>5. h[m] = FoundIn(tree[m], Among(h, tree[m].parts))
    BY <1>8, <2>1
  <2>6. f[m] = FoundIn(tree[m], Among(f, tree[m].parts))
    BY <1>4, <2>1
  <2>7. \A n \in m..l : n = m \/ n \in (m + 1)..l
    BY <1>1, <2>1
  <2>8. \A n \in m..l : h[n] = f[n]
    BY <2>2, <2>4, <2>5, <2>6, <2>7
  <2>9. QED
    BY <2>8 DEF m
<1> HIDE DEF G
<1>11. \A k \in 0..l : k \in G
  BY <1>1, <1>9, <1>10, AllUpTo
<1>12. l \in G /\ 1 \in (l + 1 - l)..l
  BY <1>1, <1>11
<1>13. h[1] = f[1]
  BY <1>12 DEF G
<1>14. QED
  BY <1>2, <1>7, <1>13

\* The CLI's copy of the MIME walk (schoolbackfill.go:29, 170-202) has drifted
\* from the watcher's: it takes attached texts for bodies, and garbled ones for
\* empty.  These are the only differences: of any other mail that the watcher can
\* read, school-backfill makes the same stimulus, but for the attachments it
\* leaves out and the tag that says where it comes from.
THEOREM BackfillReadsTheSame ==
  ASSUME NEW mail, IsTree(mail.payload), TextsAreBodies(mail.payload),
         mail.payload # NoPayload, BuildStimulus(mail) # Failed
  PROVE  /\ DOMAIN BuildBackfillStimulus(mail) = DOMAIN BuildStimulus(mail)
         /\ \A field \in DOMAIN BuildStimulus(mail) \ {"attachments", "backfill"} :
              BuildBackfillStimulus(mail)[field] = BuildStimulus(mail)[field]
<1>1. FindBackfillTextParts(mail.payload) = FindTextParts(mail.payload)
  BY SameFound
<1>2. BuildStimulus(mail) = GmailStimulus(mail, ExtractBody(FindTextParts(mail.payload)),
                                          ExtractAttachments(mail.payload), FALSE)
  BY DEF BuildStimulus
<1>3. BuildBackfillStimulus(mail) =
        GmailStimulus(mail, ExtractBody(FindTextParts(mail.payload)), <<>>, TRUE)
  BY <1>1 DEF BuildBackfillStimulus
<1>4. ASSUME NEW text, NEW files
      PROVE  /\ DOMAIN GmailStimulus(mail, text, <<>>, TRUE) =
                  DOMAIN GmailStimulus(mail, text, files, FALSE)
             /\ \A field \in DOMAIN GmailStimulus(mail, text, files, FALSE)
                               \ {"attachments", "backfill"} :
                  GmailStimulus(mail, text, <<>>, TRUE)[field] =
                    GmailStimulus(mail, text, files, FALSE)[field]
  BY DEF GmailStimulus
<1>5. QED
  BY <1>2, <1>3, <1>4

-----------------------------------------------------------------------------
(* The text of a mail on its way *)

\* A stimulus of a mail that was not injected is what the watcher builds.
OfMail(s) ==
  s.source \in DOMAIN mailbox /\ ~s.backfill => s = Built[mailbox[s.source]] /\ s # Failed

MailsTold == \A s \in Range(stream["thinking"]) : OfMail(s)

LEMMA PublishedOfMail ==
  ASSUME PTypes, MailsTold, mailbox' = mailbox,
         NEW s \in Msgs("thinking"), OfMail(s), PublishTo("thinking", s)
  PROVE  MailsTold'
<1>1. "thinking" \in Consumers
  BY DEF Consumers
<1>2. /\ DOMAIN stream["thinking"] = 1..Len(stream["thinking"])
      /\ DOMAIN stream'["thinking"] = 1..(Len(stream["thinking"]) + 1)
      /\ Len(stream["thinking"]) \in Nat
      /\ stream'["thinking"][Len(stream["thinking"]) + 1] = s
      /\ \A n \in DOMAIN stream["thinking"] : stream'["thinking"][n] = stream["thinking"][n]
  BY <1>1, OneMessageMore DEF PTypes
<1>3. \A n \in DOMAIN stream'["thinking"] :
        n \in DOMAIN stream["thinking"] \/ n = Len(stream["thinking"]) + 1
  BY <1>2
<1>4. \A r \in Range(stream'["thinking"]) : r \in Range(stream["thinking"]) \/ r = s
  BY <1>2, <1>3 DEF Range
<1>5. QED
  BY <1>4 DEF MailsTold, OfMail

LEMMA NextMailsTold ==
  ASSUME PTypes, MailsTold, PipelineNext
  PROVE  MailsTold'
<1>0. mailbox' = mailbox
  BY NextScenario
<1>1. ASSUME stream'["thinking"] = stream["thinking"] PROVE MailsTold'
  BY <1>0, <1>1 DEF MailsTold, OfMail
<1>2. ASSUME NEW id \in ids, PublishMail(id) \/ PublishMailFails(id) PROVE MailsTold'
  <2>1. /\ Built[mailbox[id]] # Failed
        /\ PublishTo("thinking", Built[mailbox[id]]) \/ UNCHANGED stream
    BY <1>2 DEF PublishMail, PublishMailFails, PublishToFails
  <2>2. Built[mailbox[id]] \in Msgs("thinking") /\ Built[mailbox[id]].source = id
    BY <2>1, RightMessages DEF PTypes, Watching
  <2>3. OfMail(Built[mailbox[id]])
    BY <2>1, <2>2 DEF OfMail
  <2>4. QED
    BY <1>0, <1>1, <2>1, <2>2, <2>3, PublishedOfMail
<1>3. ASSUME NEW id \in DOMAIN mailbox, Backfill(id) PROVE MailsTold'
  <2> DEFINE s == WithDefaults(BuiltBackfill[mailbox[id]])
  <2>1. /\ BuiltBackfill[mailbox[id]] # Failed /\ PublishTo("thinking", s)
    BY <1>3 DEF Backfill
  <2>2. s \in Msgs("thinking")
    BY <2>1, RightMessages
  <2>3. mailbox[id] \in Mails
    <3>1. PICK sc \in Scenarios : mailbox = sc.mails
      BY DEF PTypes, Scenario
    <3>2. QED
      BY <3>1 DEF Mails, Range
  <2>4. s.backfill
    BY <2>1, <2>3 DEF BuiltBackfill, BuildBackfillStimulus, GmailStimulus, WithDefaults
  <2>5. OfMail(s)
    BY <2>4 DEF OfMail
  <2> HIDE DEF s
  <2>6. QED
    BY <1>0, <2>1, <2>2, <2>5, PublishedOfMail
<1>4. ASSUME NEW post \in posts, PerceiveCLI(post) PROVE MailsTold'
  <2>1. PublishTo("thinking", BuildCLIStimulus(post)) \/ UNCHANGED stream
    BY <1>4 DEF PerceiveCLI, PublishToFails
  <2>2. BuildCLIStimulus(post) \in Msgs("thinking") /\ BuildCLIStimulus(post).source = post.id
    BY RightMessages
  <2>3. OfMail(BuildCLIStimulus(post))
    BY <2>2, OfOneKind DEF OfMail
  <2>4. QED
    BY <1>0, <1>1, <2>1, <2>2, <2>3, PublishedOfMail
<1>5. ASSUME NEW s \in alerts, Alert(s) PROVE MailsTold'
  <2>1. PublishTo("thinking", WithDefaults(s))
    BY <1>5 DEF Alert
  <2>2. WithDefaults(s) \in Msgs("thinking") /\ WithDefaults(s).source = s.source
    BY RightMessages
  <2>3. OfMail(WithDefaults(s))
    BY <2>2, OfOneKind DEF OfMail
  <2>4. QED
    BY <1>0, <2>1, <2>2, <2>3, PublishedOfMail
<1>6. CASE PublishRequest \/ PublishRequestFails
  <2>1. Request \in Msgs("action")
    BY <1>6, RightMessages DEF PublishRequest, PublishRequestFails
  <2>2. PublishTo("action", Request) \/ UNCHANGED stream
    BY <1>6 DEF PublishRequest, PublishRequestFails, PublishToFails
  <2>3. stream'["thinking"] = stream["thinking"]
    BY <2>1, <2>2, OneMessageMore DEF PTypes, Consumers
  <2>4. QED
    BY <1>1, <2>3
<1>7. CASE PublishOutcome \/ PublishOutcomeFails
  <2>1. Outcome \in Msgs("memory")
    BY <1>7, RightMessages DEF PublishOutcome, PublishOutcomeFails
  <2>2. PublishTo("memory", Outcome) \/ UNCHANGED stream
    BY <1>7 DEF PublishOutcome, PublishOutcomeFails, PublishToFails
  <2>3. stream'["thinking"] = stream["thinking"]
    BY <2>1, <2>2, OneMessageMore DEF PTypes, Consumers
  <2>4. QED
    BY <1>1, <2>3
<1>8. ASSUME UNCHANGED stream PROVE MailsTold'
  BY <1>1, <1>8
<1>9. ASSUME NEW id \in ids, SkipMessage(id) PROVE MailsTold'
  BY <1>8, <1>9 DEF SkipMessage
<1>10. CASE Poll \/ AddLabel \/ RestartPerception \/ Outage \/ Reconnect \/ OwnerActs
  BY <1>8, <1>10 DEF Poll, AddLabel, RestartPerception, Outage, Reconnect, OwnerActs
<1>11. CASE \E c \in Consumers : Deliver(c) \/ Ack(c) \/ Expire(c) \/ RestartService(c)
  BY <1>8, <1>11 DEF Deliver, Ack, Expire, RestartService
<1>12. CASE Think \/ AppendReportEntry \/ AppendReportEntryFails \/ SaveEvent \/ SaveEventFails
            \/ Notify \/ WriteEpisode \/ WriteEpisodeFails
  BY <1>8, <1>12 DEF Think, AppendReportEntry, AppendReportEntryFails, SaveEvent,
     SaveEventFails, Notify, WriteEpisode, WriteEpisodeFails
<1>13. QED
  BY <1>2, <1>3, <1>4, <1>5, <1>6, <1>7, <1>9, <1>10, <1>11, <1>12
  DEF PipelineNext, Watcher, Intake, Consume, Thinking, Action, Memory

LEMMA MailsToldBest == PTypes /\ MailsTold => BodyIsBestText
<1> SUFFICES ASSUME PTypes, MailsTold,
                    NEW s \in Range(stream["thinking"]),
                    s.source \in DOMAIN mailbox, ~s.backfill
             PROVE  s.text = BestText(mailbox[s.source].payload)
  BY DEF BodyIsBestText
<1> DEFINE mail == mailbox[s.source]
           tree == mail.payload
<1>1. s = Built[mail] /\ s # Failed
  BY DEF MailsTold, OfMail
<1>2. PICK sc \in Scenarios : mailbox = sc.mails
  BY DEF PTypes, Scenario
<1>3. mail \in Mails /\ (tree = NoPayload \/ IsTree(tree))
  BY <1>2, MailsAssumption DEF Mails, Range
<1>4. s = BuildStimulus(mail)
  BY <1>1, <1>3 DEF Built
<1> HIDE DEF mail
<1>5. tree # NoPayload /\ ~FindTextParts(tree).err /\ s.text = ExtractBody(FindTextParts(tree))
  BY <1>1, <1>4 DEF BuildStimulus, GmailStimulus
<1> HIDE DEF tree
<1>6. ExtractBody(FindTextParts(tree)) = BestText(tree)
  BY <1>3, <1>5, ExtractBodyIsBestText
<1>7. QED
  BY <1>5, <1>6 DEF tree, mail

LEMMA MailsToldInvariance == PipelineSpec => []MailsTold
<1>1. PipelineInit => MailsTold
  BY DEF PipelineInit, MailsTold, Consumers, Range
<1>2. PInv /\ MailsTold /\ [PipelineNext]_pipeline => MailsTold'
  <2>1. ASSUME PInv, MailsTold, PipelineNext PROVE MailsTold'
    BY <2>1, NextMailsTold DEF PInv
  <2>2. ASSUME MailsTold, UNCHANGED pipeline PROVE MailsTold'
    BY <2>2 DEF pipeline, incoming, MailsTold, OfMail
  <2>3. QED
    BY <2>1, <2>2
<1>3. QED
  BY <1>1, <1>2, PipelineInvariance, PTL DEF PipelineSpec

-----------------------------------------------------------------------------
\* What is listed, delivered, acknowledged and counted is there, and each
\* handler that is at work has a message to be at work with.
THEOREM PipelineTypeCorrect == PipelineSpec => []PipelineTypeOK
<1>1. PInv => PipelineTypeOK
  BY PTypesTypeOK DEF PInv
<1>2. QED
  BY <1>1, PipelineInvariance, PTL

\* No stage acknowledges what the next one does not have, unless its handler
\* gave up (consumer.go, dispatch.go): for any mails, rules' answers, crashes,
\* failed calls and late ACKs.
THEOREM HandedOnHolds == PipelineSpec => []HandedOn
<1>1. PInv => HandedOn
  BY DEF PInv
<1>2. QED
  BY <1>1, PipelineInvariance, PTL

\* What is entered or recorded again had a mishap or an injection to cause it
\* (gmailwatcher.go, the streams' redelivery, episodes.go).
THEOREM RepeatsAccountedForHolds == PipelineSpec => []RepeatsAccountedFor
<1>1. QED
  BY PInvRepeats, PipelineInvariance, PTL

\* An outcome "success" has its entry in the report, whole and separated from
\* the others (report.go).
THEOREM SuccessIsReportedHolds == PipelineSpec => []SuccessIsReported
<1>1. PInv => SuccessIsReported
  BY DEF PInv
<1>2. QED
  BY <1>1, PipelineInvariance, PTL

\* The text of a mail's stimulus is the first plain text of its MIME tree, or
\* else the first HTML, for any tree (findTextParts, extractBody).
THEOREM BodyIsBestTextHolds == PipelineSpec => []BodyIsBestText
<1>1. PInv /\ MailsTold => BodyIsBestText
  BY MailsToldBest DEF PInv
<1>2. QED
  BY <1>1, PipelineInvariance, MailsToldInvariance, PTL

-----------------------------------------------------------------------------
(* The system monitor *)

\* What is pending was observed so often in a row, but for the counts above
\* MostPolls.
Sustaining ==
  \A k \in Keys :
    /\ pending[k] # NoPending =>
         /\ pending[k][2] >= 1
         /\ run[k] >= pending[k][2] \/ run[k] = MostPolls
    /\ pending[k][2] < MostPolls + faults

\* Without a gap, the polls that found the severity were in a row.
Unbroken == \A k \in Keys : ~gap[k] => unbroken[k] = run[k]

\* The committed severity was told, or is a baseline.
Committed ==
  \A k \in Keys :
    /\ unsure[k] = "no" => state[k] = told[k] \/ (told[k] = Unseen /\ state[k] = "ok")
    /\ unsure[k] = "restarted" => state[k] \in {Unseen, "ok"}

IInv ==
  TypeOK /\ Sustaining /\ Unbroken /\ Committed /\ StatusExplained /\ HeldForGrace

-----------------------------------------------------------------------------

\* Division rounds up: so many polls span the period.
LEMMA RoundUp ==
  ASSUME NEW i \in Nat \ {0}, NEW d \in Nat \ {0}
  PROVE  /\ (d + i - 1) \div i \in Nat /\ (d + i - 1) \div i >= 1
         /\ ((d + i - 1) \div i) * i >= d
<1> DEFINE q == (d + i - 1) \div i
           r == (d + i - 1) % i
<1>1. q \in Int /\ r \in 0..(i - 1) /\ d + i - 1 = i * q + r
  OBVIOUS
<1> HIDE DEF q, r
<1>2. i * q >= d
  BY <1>1
<1>3. q >= 1
  BY <1>1, <1>2
<1>4. QED
  BY <1>1, <1>2, <1>3 DEF q

\* A longer period takes no fewer polls.
LEMMA Monotone ==
  ASSUME NEW i \in Nat \ {0}, NEW d \in Nat, NEW e \in Nat, d <= e
  PROVE  (d + i - 1) \div i <= (e + i - 1) \div i
  OBVIOUS

LEMMA GracePolls ==
  ASSUME NEW k \in Keys
  PROVE  /\ Grace(k) \in Nat /\ GracePollsFor(Grace(k)) \in Nat \ {0}
         /\ GracePollsFor(Grace(k)) <= MostPolls /\ MostPolls \in Nat \ {0}
         /\ GracePollsFor(Grace(k)) * Interval >= Grace(k)
<1> DEFINE longest == IF ThresholdGrace > ServiceGrace THEN ThresholdGrace
                                                        ELSE ServiceGrace
<1>1. /\ Grace(k) \in Nat /\ longest \in Nat /\ Grace(k) <= longest
      /\ Interval \in Nat \ {0}
  BY BoundsAssumption DEF Grace
<1>2. MostPolls = GracePollsFor(longest)
  BY DEF MostPolls
<1> HIDE DEF longest
<1>3. ASSUME NEW d \in Nat
      PROVE  /\ GracePollsFor(d) \in Nat \ {0} /\ GracePollsFor(d) * Interval >= d
  <2>1. CASE d = 0
    BY <1>1, <2>1 DEF GracePollsFor
  <2>2. CASE d > 0
    BY <1>1, <2>2, RoundUp DEF GracePollsFor
  <2>3. QED
    BY <2>1, <2>2
<1>4. GracePollsFor(Grace(k)) <= GracePollsFor(longest)
  <2>1. CASE Grace(k) = 0
    BY <1>1, <1>3, <2>1 DEF GracePollsFor
  <2>2. CASE Grace(k) > 0
    BY <1>1, <2>2, Monotone DEF GracePollsFor
  <2>3. QED
    BY <1>1, <2>1, <2>2
<1>5. QED
  BY <1>1, <1>2, <1>3, <1>4

\* The elements of a finite set, in a sequence.
LEMMA SetToSeqType ==
  ASSUME NEW S, IsFiniteSet(S) PROVE SetToSeq(S) \in Seq(S)
<1>1. PICK n \in Nat : ExistsBijection(1..n, S)
  BY FS_NatBijection
<1>2. Cardinality(S) = n
  BY <1>1, FS_CountingElements
<1>3. PICK f \in [1..n -> S] : IsInjective(f)
  BY <1>1 DEF ExistsBijection, Bijection, Injection, IsInjective
<1>4. SetToSeq(S) \in [1..n -> S]
  BY <1>2, <1>3 DEF SetToSeq
<1>5. QED
  BY <1>4

-----------------------------------------------------------------------------

\* Nothing was seen, and nothing is pending.
LEMMA InitIInv == Init => IInv
<1> SUFFICES ASSUME Init PROVE IInv
  OBVIOUS
<1>1. checks \in Configurations /\ checks \in Seq(Checks) /\ Len(checks) >= 1
  BY ChecksAssumption DEF Init
<1>2. MostPolls \in Nat \ {0}
  BY BoundsAssumption, RoundUp DEF MostPolls, GracePollsFor
<1>3. TypeOK
  BY <1>1, <1>2, BoundsAssumption DEF Init, TypeOK, NoPending, Severities
<1>4. Sustaining
  BY <1>2 DEF Init, Sustaining, NoPending
<1>5. Unbroken /\ Committed /\ StatusExplained /\ HeldForGrace
  BY DEF Init, Unbroken, Committed, StatusExplained, HeldForGrace, Published
<1>6. QED
  BY <1>3, <1>4, <1>5 DEF IInv

\* A check finds severities of keys.
LEMMA FindsTypes ==
  ASSUME TypeOK, NEW c \in Checks, NEW fs \in Seq(Keys \X Severities), Finds(c, fs)
  PROVE  TypeOK'
<1>1. checks \in Seq(Checks) /\ Len(checks) >= 1
  BY ChecksAssumption DEF TypeOK
<1>2. turn' \in 1..Len(checks)
  BY <1>1 DEF TypeOK, Finds
<1>3. /\ unbroken' \in [Keys -> 0..MostPolls] /\ gap' \in [Keys -> BOOLEAN]
      /\ run' \in [Keys -> 0..MostPolls]
  <2>1. \A k \in Keys : MostPolls \in Nat
    BY GracePolls
  <2>2. QED
    BY <2>1 DEF TypeOK, Finds
<1>4. QED
  BY <1>2, <1>3 DEF TypeOK, Finds, watcher, budgets

LEMMA KeysOf ==
  /\ \A c \in Checks : CheckKey(c) \in Keys
  /\ \A c \in InternalChecks, d \in Dependencies : DepKey(c, d) \in Keys
  /\ {"ok", "warning", "critical"} = Severities
  BY DEF Keys, Severities

LEMMA RunCheckTypes == TypeOK /\ RunCheck => TypeOK'
<1> SUFFICES ASSUME TypeOK, RunCheck PROVE TypeOK'
  OBVIOUS
<1>1. ASSUME NEW c \in Checks, NEW s \in Severities
      PROVE  <<<<CheckKey(c), s>>>> \in Seq(Keys \X Severities)
  BY KeysOf
<1>2. ASSUME NEW c \in ThresholdChecks, Measure(c) \/ MeasureFails(c) PROVE TypeOK'
  <2>1. ASSUME NEW v \in Readings PROVE DeriveSeverity(c, v) \in Severities
    BY KeysOf DEF DeriveSeverity
  <2>2. CASE MeasureFails(c)
    <3>1. <<>> \in Seq(Keys \X Severities)
      OBVIOUS
    <3>2. QED
      BY <2>2, <3>1, FindsTypes DEF MeasureFails, Checks
  <2>3. CASE Measure(c)
    <3>1. PICK v \in Readings : Finds(c, <<<<CheckKey(c), DeriveSeverity(c, v)>>>>)
      BY <2>3 DEF Measure
    <3>2. QED
      BY <1>1, <2>1, <3>1, FindsTypes DEF Checks
  <2>4. QED
    BY <1>2, <2>2, <2>3
<1>3. ASSUME NEW c \in ServiceChecks, Probe(c) PROVE TypeOK'
  <2>1. PICK answer \in Answers :
          Finds(c, <<<<CheckKey(c), IF Healthy(answer) THEN "ok" ELSE "critical">>>>)
    BY <1>3 DEF Probe
  <2>2. (IF Healthy(answer) THEN "ok" ELSE "critical") \in Severities
    BY KeysOf
  <2>3. QED
    BY <1>1, <2>1, <2>2, FindsTypes DEF Checks
<1>4. ASSUME NEW c \in InternalChecks, FetchFails(c) PROVE TypeOK'
  BY <1>1, <1>4, FindsTypes, KeysOf DEF FetchFails, Checks
<1>5. ASSUME NEW c \in InternalChecks, Fetch(c) PROVE TypeOK'
  <2>1. PICK reported \in SUBSET Dependencies : \E down \in SUBSET reported :
          Finds(c, <<<<CheckKey(c), "ok">>>>
                     \o SetToSeq({<<DepKey(c, d), IF d \in down THEN "critical" ELSE "ok">> :
                                    d \in reported}))
    BY <1>5 DEF Fetch
  <2>2. PICK down \in SUBSET reported :
          Finds(c, <<<<CheckKey(c), "ok">>>>
                     \o SetToSeq({<<DepKey(c, d), IF d \in down THEN "critical" ELSE "ok">> :
                                    d \in reported}))
    BY <2>1
  <2> DEFINE f == [d \in reported |-> <<DepKey(c, d), IF d \in down THEN "critical"
                                                                  ELSE "ok">>]
             S == {<<DepKey(c, d), IF d \in down THEN "critical" ELSE "ok">> :
                     d \in reported}
  <2>3. S \subseteq Keys \X Severities
    BY KeysOf
  <2>4. IsFiniteSet(S)
    <3>1. IsFiniteSet(reported)
      BY ChecksAssumption, FS_Subset
    <3>2. f \in Surjection(reported, S)
      BY DEF Surjection
    <3>3. QED
      BY <3>1, <3>2, FS_Surjection
  <2>5. SetToSeq(S) \in Seq(S)
    BY <2>4, SetToSeqType
  <2>6. SetToSeq(S) \in Seq(Keys \X Severities)
    BY <2>3, <2>5
  <2>7. <<<<CheckKey(c), "ok">>>> \o SetToSeq(S) \in Seq(Keys \X Severities)
    BY <1>1, <2>6, KeysOf DEF Checks
  <2>8. QED
    BY <2>2, <2>7, FindsTypes DEF Checks
<1>6. QED
  BY <1>2, <1>3, <1>4, <1>5 DEF RunCheck

\* What is found of a key that is observed, and its run.
LEMMA ObserveTypes ==
  ASSUME TypeOK, NEW k \in Keys, NEW s \in Severities, Observe(k, s)
  PROVE  /\ found' \in Seq(Keys \X Severities)
         /\ status' \in [Keys -> Severities \cup {Unseen}]
         /\ run' \in [Keys -> 0..MostPolls]
         /\ run'[k] = (IF status[k] = s THEN Count(run[k]) ELSE Count(0))
         /\ run'[k] >= 1
         /\ \A j \in Keys \ {k} : status'[j] = status[j] /\ run'[j] = run[j]
         /\ status'[k] = s
         /\ UNCHANGED <<checks, turn, crashes>>
<1>1. MostPolls \in Nat \ {0}
  BY GracePolls
<1>2. \A n \in 0..MostPolls : Count(n) \in 0..MostPolls /\ Count(n) >= 1
  BY <1>1 DEF Count
<1>3. found' \in Seq(Keys \X Severities)
  BY DEF TypeOK, Observe
<1>4. /\ status' = [status EXCEPT ![k] = s]
      /\ run' = [run EXCEPT ![k] = IF status[k] = s THEN Count(@) ELSE Count(0)]
      /\ UNCHANGED <<checks, turn, crashes>>
  BY DEF Observe
<1>5. /\ status \in [Keys -> Severities \cup {Unseen}]
      /\ run \in [Keys -> 0..MostPolls]
  BY DEF TypeOK
<1>6. status' \in [Keys -> Severities \cup {Unseen}] /\ status'[k] = s
  BY <1>4, <1>5
<1>7. /\ run'[k] = (IF status[k] = s THEN Count(run[k]) ELSE Count(0))
      /\ run' \in [Keys -> 0..MostPolls]
  BY <1>1, <1>2, <1>4, <1>5
<1>8. \A j \in Keys \ {k} : status'[j] = status[j] /\ run'[j] = run[j]
  BY <1>4, <1>5
<1>9. run'[k] >= 1
  BY <1>1, <1>2, <1>5, <1>7
<1>10. QED
  BY <1>3, <1>4, <1>6, <1>7, <1>8, <1>9

\* An observation closes no gap and opens none.
LEMMA ObserveUnbroken ==
  ASSUME TypeOK, NEW k \in Keys, NEW s \in Severities, Observe(k, s)
  PROVE  /\ unbroken' \in [Keys -> 0..MostPolls] /\ gap' \in [Keys -> BOOLEAN]
         /\ Unbroken => Unbroken'
<1>1. \A n \in 0..MostPolls : Count(n) \in 0..MostPolls
  BY GracePolls DEF Count
<1>2. /\ unbroken' = [unbroken EXCEPT ![k] = IF status[k] = s THEN Count(@) ELSE Count(0)]
      /\ run' = [run EXCEPT ![k] = IF status[k] = s THEN Count(@) ELSE Count(0)]
      /\ gap' = [gap EXCEPT ![k] = @ /\ status[k] = s]
  BY DEF Observe
<1>3. /\ unbroken \in [Keys -> 0..MostPolls] /\ run \in [Keys -> 0..MostPolls]
      /\ gap \in [Keys -> BOOLEAN] /\ MostPolls \in Nat
  BY GracePolls DEF TypeOK
<1>4. gap' \in [Keys -> BOOLEAN] /\ (~gap'[k] => ~gap[k] \/ status[k] # s)
  BY <1>2, <1>3
<1>5. unbroken' \in [Keys -> 0..MostPolls]
  BY <1>1, <1>2, <1>3
<1>6. ASSUME Unbroken, NEW j \in Keys, ~gap'[j] PROVE unbroken'[j] = run'[j]
  <2>1. CASE j = k
    BY <1>2, <1>3, <1>4, <1>6, <2>1 DEF Unbroken
  <2>2. CASE j # k
    BY <1>2, <1>3, <1>6, <2>2 DEF Unbroken
  <2>3. QED
    BY <2>1, <2>2
<1>7. QED
  BY <1>4, <1>5, <1>6 DEF Unbroken

\* A pending transition that this observation sustains.
LEMMA SustainedTypes ==
  ASSUME TypeOK, Sustaining, NEW k \in Keys, NEW s \in Severities
  PROVE  /\ Sustained(k, s)[1] = s
         /\ Sustained(k, s)[2] \in 1..(MostPolls + faults)
         /\ Sustained(k, s) \in Severities \X Nat
         /\ Sustained(k, s) # NoPending
<1>1. MostPolls \in Nat \ {0} /\ faults \in Nat
  BY GracePolls, BoundsAssumption DEF TypeOK
<1>2. pending[k] \in Severities \X Nat /\ pending[k][2] < MostPolls + faults
  BY <1>1, BoundsAssumption DEF TypeOK, Sustaining
<1>3. QED
  BY <1>1, <1>2 DEF Sustained, NoPending

\* It was observed as often in a row as it is pending.
LEMMA SustainedRun ==
  ASSUME TypeOK, Sustaining, StatusExplained, NEW k \in Keys, NEW s \in Severities,
         Observe(k, s)
  PROVE  run'[k] >= Sustained(k, s)[2] \/ run'[k] = MostPolls
<1>1. MostPolls \in Nat \ {0} /\ run[k] \in 0..MostPolls
  BY GracePolls DEF TypeOK
<1>2. run'[k] >= 1 /\ run'[k] = (IF status[k] = s THEN Count(run[k]) ELSE Count(0))
  BY ObserveTypes
<1>3. CASE pending[k][1] = s /\ pending[k] # NoPending
  <2>1. status[k] = s
    BY <1>3 DEF StatusExplained
  <2>2. pending[k][2] \in Nat /\ (run[k] >= pending[k][2] \/ run[k] = MostPolls)
    BY <1>1, <1>3, BoundsAssumption DEF TypeOK, Sustaining
  <2>3. Sustained(k, s)[2] = pending[k][2] + 1
    BY <1>3 DEF Sustained
  <2>4. QED
    BY <1>1, <1>2, <2>1, <2>2, <2>3 DEF Count
<1>4. CASE ~(pending[k][1] = s /\ pending[k] # NoPending)
  <2>1. Sustained(k, s)[2] = 1
    <3>1. CASE pending[k][1] # s
      BY <3>1 DEF Sustained
    <3>2. CASE pending[k] = NoPending
      BY <3>2 DEF Sustained, NoPending
    <3>3. QED
      BY <1>4, <3>1, <3>2
  <2>2. QED
    BY <1>1, <1>2, <2>1
<1>5. QED
  BY <1>3, <1>4

\* Every step keeps the types of the variables.
LEMMA NextTypeOK == TypeOK /\ Sustaining /\ [Next]_vars => TypeOK'
<1> SUFFICES ASSUME TypeOK, Sustaining, [Next]_vars PROVE TypeOK'
  OBVIOUS
<1>0. \A k \in Keys : MostPolls \in Nat \ {0}
  BY GracePolls
<1>1. CASE RunCheck
  BY <1>1, RunCheckTypes
<1>2. ASSUME NEW k \in Keys, NEW s \in Severities,
             \/ Steady(k, s) \/ Baseline(k, s) \/ Wait(k, s)
             \/ Publish(k, s) \/ PublishFails(k, s)
      PROVE  TypeOK'
  <2>1. Observe(k, s)
    BY <1>2 DEF Steady, Baseline, Wait, Publish, PublishFails, Changing
  <2>2. /\ found' \in Seq(Keys \X Severities)
        /\ status' \in [Keys -> Severities \cup {Unseen}]
        /\ run' \in [Keys -> 0..MostPolls]
        /\ UNCHANGED <<checks, turn, crashes>>
        /\ unbroken' \in [Keys -> 0..MostPolls] /\ gap' \in [Keys -> BOOLEAN]
    BY <2>1, ObserveTypes, ObserveUnbroken
  <2>3. MostPolls \in Nat \ {0} /\ faults \in 0..MaxFaults /\ MaxFaults \in Nat
    BY <1>0, BoundsAssumption DEF TypeOK
  <2>4. NoPending \in Severities \X (0..(MostPolls + MaxFaults))
    BY <2>3, KeysOf DEF NoPending
  <2>5. Sustained(k, s) \in Severities \X (0..(MostPolls + MaxFaults))
    BY <2>3, SustainedTypes DEF Sustained
  <2>6. /\ state' \in [Keys -> Severities \cup {Unseen}]
        /\ pending' \in [Keys -> Severities \X (0..(MostPolls + MaxFaults))]
    <3>1. /\ state' = state \/ state' = [state EXCEPT ![k] = s]
          /\ \/ pending' = [pending EXCEPT ![k] = NoPending]
             \/ pending' = [pending EXCEPT ![k] = Sustained(k, s)]
      BY <1>2 DEF Steady, Baseline, Wait, Publish, PublishFails, Forget
    <3>2. /\ state \in [Keys -> Severities \cup {Unseen}]
          /\ pending \in [Keys -> Severities \X (0..(MostPolls + MaxFaults))]
      BY DEF TypeOK
    <3>3. QED
      BY <2>4, <2>5, <3>1, <3>2
  <2>7. /\ sent' \in (Keys \X Severities) \cup {Nothing}
        /\ told' \in [Keys -> Severities \cup {Unseen}]
        /\ unsure' \in [Keys -> {"no", "restarted", "failed"}]
        /\ faults' \in 0..MaxFaults
    <3>1. /\ sent' \in {Nothing, <<k, s>>}
          /\ told' = told \/ told' = [told EXCEPT ![k] = s]
          /\ \/ unsure' = unsure
             \/ \E u \in {"no", "failed"} : unsure' = [unsure EXCEPT ![k] = u]
          /\ faults' = faults \/ (faults < MaxFaults /\ faults' = faults + 1)
      BY <1>2 DEF Steady, Baseline, Wait, Publish, PublishFails, Stimulus
    <3>2. /\ told \in [Keys -> Severities \cup {Unseen}]
          /\ unsure \in [Keys -> {"no", "restarted", "failed"}]
      BY DEF TypeOK
    <3>3. QED
      BY <2>3, <3>1, <3>2
  <2>8. QED
    BY <2>2, <2>6, <2>7 DEF TypeOK
<1>3. CASE Restart
  <2>1. checks \in Seq(Checks) /\ Len(checks) >= 1
    BY ChecksAssumption DEF TypeOK
  <2>2. /\ pending' \in [Keys -> Severities \X (0..(MostPolls + MaxFaults))]
        /\ run' \in [Keys -> 0..MostPolls] /\ unbroken' \in [Keys -> 0..MostPolls]
        /\ gap' \in [Keys -> BOOLEAN]
    BY <1>0, <1>3, KeysOf, BoundsAssumption DEF Restart, NoPending
  <2>3. /\ state' \in [Keys -> Severities \cup {Unseen}]
        /\ status' \in [Keys -> Severities \cup {Unseen}]
        /\ unsure' \in [Keys -> {"no", "restarted", "failed"}]
        /\ turn' = 1 /\ found' = <<>> /\ sent' = Nothing
        /\ UNCHANGED <<checks, told, faults>>
    BY <1>3 DEF Restart
  <2>4. crashes' \in 0..MaxCrashes
    BY <1>3, BoundsAssumption DEF TypeOK, Restart
  <2>5. turn' \in 1..Len(checks') /\ found' \in Seq(Keys \X Severities)
    BY <2>1, <2>3
  <2>6. QED
    BY <2>2, <2>3, <2>4, <2>5 DEF TypeOK
<1>4. CASE UNCHANGED vars
  BY <1>4 DEF TypeOK, vars, poller, watcher, history, budgets
<1>5. QED
  BY <1>1, <1>2, <1>3, <1>4 DEF Next, PublishTransition

\* What a check that is run leaves alone.
LEMMA RunCheckKeeps ==
  RunCheck => UNCHANGED <<watcher, told, unsure, run, faults>> /\ sent' = Nothing
  BY DEF RunCheck, Measure, MeasureFails, Probe, Fetch, FetchFails, Finds, budgets

\* The counts follow the observations, and the committed severity what was told.
LEMMA NextSustaining == IInv /\ [Next]_vars => Sustaining'
<1> SUFFICES ASSUME IInv, [Next]_vars PROVE Sustaining'
  OBVIOUS
<1>0. \A k \in Keys : /\ MostPolls \in Nat \ {0} /\ faults \in Nat /\ faults' \in Nat
                      /\ GracePollsFor(Grace(k)) \in Nat
                      /\ GracePollsFor(Grace(k)) <= MostPolls
  <2>1. faults \in 0..MaxFaults /\ faults' \in 0..MaxFaults /\ MaxFaults \in Nat
    BY NextTypeOK, BoundsAssumption DEF IInv, TypeOK
  <2>2. QED
    BY <2>1, GracePolls
<1>1. ASSUME UNCHANGED <<watcher, run, faults>> PROVE Sustaining'
  BY <1>1 DEF IInv, Sustaining, watcher
<1>2. ASSUME NEW k \in Keys, NEW s \in Severities,
             \/ Steady(k, s) \/ Baseline(k, s) \/ Wait(k, s)
             \/ Publish(k, s) \/ PublishFails(k, s)
      PROVE  Sustaining'
  <2>1. Observe(k, s)
    BY <1>2 DEF Steady, Baseline, Wait, Publish, PublishFails, Changing
  <2>2. /\ run'[k] >= Sustained(k, s)[2] \/ run'[k] = MostPolls
        /\ Sustained(k, s)[2] \in 1..(MostPolls + faults)
    BY <2>1, SustainedRun, SustainedTypes DEF IInv
  <2>3. \/ pending' = [pending EXCEPT ![k] = NoPending] /\ faults' = faults
        \/ /\ pending' = [pending EXCEPT ![k] = Sustained(k, s)]
           /\ \/ faults' = faults /\ Sustained(k, s)[2] < GracePollsFor(Grace(k))
              \/ faults' = faults + 1
    BY <1>2 DEF Steady, Baseline, Wait, Publish, PublishFails, Forget
  <2>4. pending'[k] = NoPending \/
          /\ pending'[k] = Sustained(k, s) /\ Sustained(k, s)[2] < MostPolls + faults'
    <3>1. pending \in [Keys -> Severities \X (0..(MostPolls + MaxFaults))]
      BY DEF IInv, TypeOK
    <3>2. pending'[k] = NoPending \/ pending'[k] = Sustained(k, s)
      BY <2>3, <3>1
    <3>3. CASE pending' = [pending EXCEPT ![k] = NoPending] /\ faults' = faults
      BY <3>1, <3>3
    <3>4. CASE \/ faults' = faults /\ Sustained(k, s)[2] < GracePollsFor(Grace(k))
               \/ faults' = faults + 1
      BY <1>0, <2>2, <3>2, <3>4
    <3>5. QED
      BY <2>3, <3>3, <3>4
  <2>5. ASSUME NEW j \in Keys \ {k}
        PROVE  /\ pending'[j] = pending[j] /\ run'[j] = run[j]
               /\ pending[j][2] \in Nat /\ faults' >= faults
    <3>1. run'[j] = run[j]
      BY <2>1, ObserveTypes DEF IInv
    <3>2. pending \in [Keys -> Severities \X (0..(MostPolls + MaxFaults))]
      BY DEF IInv, TypeOK
    <3>3. pending'[j] = pending[j] /\ faults' >= faults
      BY <1>0, <2>3, <3>2
    <3>4. QED
      BY <1>0, <3>1, <3>2, <3>3, BoundsAssumption
  <2>6. ASSUME NEW j \in Keys
        PROVE  /\ pending'[j] # NoPending =>
                    /\ pending'[j][2] >= 1
                    /\ run'[j] >= pending'[j][2] \/ run'[j] = MostPolls
               /\ pending'[j][2] < MostPolls + faults'
    <3>1. CASE j = k
      <4>1. NoPending[2] = 0
        BY DEF NoPending
      <4>2. QED
        BY <1>0, <2>2, <2>4, <3>1, <4>1
    <3>2. CASE j # k
      BY <1>0, <2>5, <3>2 DEF IInv, Sustaining
    <3>3. QED
      BY <3>1, <3>2
  <2>7. QED
    BY <2>6 DEF Sustaining
<1>3. CASE Restart
  <2>1. \A k \in Keys : pending'[k] = NoPending /\ NoPending[2] = 0
    BY <1>3 DEF Restart, NoPending
  <2>2. QED
    BY <1>0, <2>1 DEF Sustaining
<1>4. CASE RunCheck \/ UNCHANGED vars
  BY <1>1, <1>4, RunCheckKeeps DEF vars, history, budgets
<1>5. QED
  BY <1>2, <1>3, <1>4 DEF Next, PublishTransition

LEMMA NextUnbroken == IInv /\ [Next]_vars => Unbroken'
<1> SUFFICES ASSUME IInv, [Next]_vars PROVE Unbroken'
  OBVIOUS
<1>1. ASSUME NEW k \in Keys, NEW s \in Severities,
             \/ Steady(k, s) \/ Baseline(k, s) \/ Wait(k, s)
             \/ Publish(k, s) \/ PublishFails(k, s)
      PROVE  Unbroken'
  <2>1. Observe(k, s)
    BY <1>1 DEF Steady, Baseline, Wait, Publish, PublishFails, Changing
  <2>2. QED
    BY <2>1, ObserveUnbroken DEF IInv
<1>2. ASSUME NEW c \in Checks, NEW fs, Finds(c, fs) PROVE Unbroken'
  BY <1>2 DEF Finds, Unbroken, IInv
<1>3. CASE RunCheck
  <2>1. \E c \in Checks : \E fs : Finds(c, fs)
    BY <1>3 DEF RunCheck, Measure, MeasureFails, Probe, Fetch, FetchFails, Checks
  <2>2. QED
    BY <1>2, <2>1
<1>4. CASE Restart
  BY <1>4 DEF Restart, Unbroken
<1>5. CASE UNCHANGED vars
  BY <1>5 DEF IInv, Unbroken, vars, history
<1>6. QED
  BY <1>1, <1>3, <1>4, <1>5 DEF Next, PublishTransition

LEMMA NextCommitted == IInv /\ [Next]_vars => Committed'
<1> SUFFICES ASSUME IInv, [Next]_vars PROVE Committed'
  OBVIOUS
<1>0. /\ state \in [Keys -> Severities \cup {Unseen}]
      /\ told \in [Keys -> Severities \cup {Unseen}]
      /\ unsure \in [Keys -> {"no", "restarted", "failed"}]
  BY DEF IInv, TypeOK
<1>1. ASSUME UNCHANGED <<state, told, unsure>> PROVE Committed'
  BY <1>1 DEF IInv, Committed
<1>2. ASSUME NEW k \in Keys, NEW s \in Severities, Steady(k, s) \/ Wait(k, s)
      PROVE  Committed'
  BY <1>1, <1>2 DEF Steady, Wait
<1>3. ASSUME NEW k \in Keys, NEW s \in Severities, Baseline(k, s) PROVE Committed'
  <2>1. /\ state[k] = Unseen /\ state' = [state EXCEPT ![k] = "ok"]
        /\ UNCHANGED <<told, unsure>>
    BY <1>3 DEF Baseline
  <2>2. QED
    BY <1>0, <2>1 DEF IInv, Committed
<1>4. ASSUME NEW k \in Keys, NEW s \in Severities, Publish(k, s) PROVE Committed'
  <2>1. /\ state' = [state EXCEPT ![k] = s] /\ told' = [told EXCEPT ![k] = s]
        /\ unsure' = [unsure EXCEPT ![k] = "no"]
    BY <1>4 DEF Publish
  <2>2. QED
    BY <1>0, <2>1 DEF IInv, Committed
<1>5. ASSUME NEW k \in Keys, NEW s \in Severities, PublishFails(k, s) PROVE Committed'
  <2>1. /\ UNCHANGED state
        /\ \/ UNCHANGED <<told, unsure>>
           \/ /\ told' = [told EXCEPT ![k] = s]
              /\ unsure' = [unsure EXCEPT ![k] = "failed"]
    BY <1>5 DEF PublishFails
  <2>2. QED
    BY <1>0, <2>1 DEF IInv, Committed
<1>6. CASE Restart
  BY <1>6 DEF Restart, Committed
<1>7. CASE RunCheck \/ UNCHANGED vars
  BY <1>1, <1>7, RunCheckKeeps DEF vars, watcher, history
<1>8. QED
  BY <1>2, <1>3, <1>4, <1>5, <1>6, <1>7 DEF Next, PublishTransition

LEMMA NextStatusExplained == IInv /\ [Next]_vars => StatusExplained'
<1> SUFFICES ASSUME IInv, [Next]_vars PROVE StatusExplained'
  OBVIOUS
<1>1. ASSUME UNCHANGED watcher PROVE StatusExplained'
  BY <1>1 DEF IInv, StatusExplained, watcher
<1>2. ASSUME NEW k \in Keys, NEW s \in Severities,
             \/ Steady(k, s) \/ Baseline(k, s) \/ Wait(k, s)
             \/ Publish(k, s) \/ PublishFails(k, s)
      PROVE  StatusExplained'
  <2>1. Observe(k, s)
    BY <1>2 DEF Steady, Baseline, Wait, Publish, PublishFails, Changing
  <2>2. status'[k] = s /\ \A j \in Keys \ {k} : status'[j] = status[j]
    BY <2>1, ObserveTypes DEF IInv
  <2>3. Sustained(k, s)[1] = s /\ Sustained(k, s) # NoPending
    BY SustainedTypes DEF IInv
  <2>4. /\ pending \in [Keys -> Severities \X (0..(MostPolls + MaxFaults))]
        /\ state \in [Keys -> Severities \cup {Unseen}]
    BY DEF IInv, TypeOK
  <2>5. \/ /\ pending' = [pending EXCEPT ![k] = NoPending]
           /\ state' = [state EXCEPT ![k] = s] \/ (state' = state /\ state[k] = s)
        \/ /\ pending' = [pending EXCEPT ![k] = Sustained(k, s)]
           /\ state' = state /\ state[k] # s
    BY <1>2 DEF Steady, Baseline, Wait, Publish, PublishFails, Changing, Forget
  <2>6. \A j \in Keys \ {k} : pending'[j] = pending[j] /\ state'[j] = state[j]
    BY <2>4, <2>5
  <2>7. IF pending'[k] = NoPending THEN status'[k] = state'[k]
        ELSE status'[k] = pending'[k][1] /\ status'[k] # state'[k]
    BY <2>2, <2>3, <2>4, <2>5
  <2>8. QED
    BY <2>2, <2>6, <2>7 DEF IInv, StatusExplained
<1>3. CASE Restart
  BY <1>3 DEF Restart, StatusExplained
<1>4. CASE RunCheck \/ UNCHANGED vars
  BY <1>1, <1>4, RunCheckKeeps DEF vars
<1>5. QED
  BY <1>2, <1>3, <1>4 DEF Next, PublishTransition

\* A stimulus is sent when the count has reached what spans the grace period.
LEMMA NextHeldForGrace == IInv /\ [Next]_vars => HeldForGrace'
<1> SUFFICES ASSUME IInv, [Next]_vars PROVE HeldForGrace'
  OBVIOUS
<1>1. ASSUME sent' = Nothing PROVE HeldForGrace'
  BY <1>1 DEF HeldForGrace, Published
<1>2. ASSUME NEW k \in Keys, NEW s \in Severities, Publish(k, s) \/ PublishFails(k, s),
             sent' = <<k, s>>
      PROVE  HeldForGrace'
  <2>1. Observe(k, s) /\ Sustained(k, s)[2] >= GracePollsFor(Grace(k))
    BY <1>2 DEF Publish, PublishFails, Changing
  <2>2. /\ status'[k] = s /\ run'[k] >= 1 /\ run'[k] \in Nat
        /\ run'[k] >= Sustained(k, s)[2] \/ run'[k] = MostPolls
        /\ Sustained(k, s)[2] \in Nat
    <3>1. MostPolls \in Nat /\ faults \in Nat
      BY GracePolls, BoundsAssumption DEF IInv, TypeOK
    <3>2. status'[k] = s /\ run'[k] >= 1 /\ run'[k] \in 0..MostPolls
      BY <2>1, ObserveTypes DEF IInv
    <3>3. Sustained(k, s)[2] \in 1..(MostPolls + faults)
      BY SustainedTypes DEF IInv
    <3>4. QED
      BY <2>1, <3>1, <3>2, <3>3, SustainedRun DEF IInv
  <2>3. /\ GracePollsFor(Grace(k)) \in Nat /\ Grace(k) \in Nat /\ Interval \in Nat
        /\ MostPolls >= GracePollsFor(Grace(k)) /\ MostPolls \in Nat
        /\ GracePollsFor(Grace(k)) * Interval >= Grace(k)
    BY GracePolls, BoundsAssumption
  <2>4. run'[k] >= GracePollsFor(Grace(k))
    BY <2>1, <2>2, <2>3
  <2>5. run'[k] * Interval >= Grace(k)
    <3>1. \A n, m, i \in Nat : n >= m => n * i >= m * i
      OBVIOUS
    <3>2. run'[k] * Interval >= GracePollsFor(Grace(k)) * Interval
      BY <2>2, <2>3, <2>4, <3>1
    <3>3. QED
      BY <2>2, <2>3, <3>2
  <2>6. Span(k, run'[k]) /\ (~gap'[k] => Span(k, unbroken'[k]))
    BY <2>2, <2>5, NextUnbroken DEF Span, Unbroken
  <2>7. QED
    BY <1>2, <2>2, <2>6 DEF HeldForGrace, Published, Span, Grace
<1>3. ASSUME NEW k \in Keys, NEW s \in Severities,
             \/ Steady(k, s) \/ Baseline(k, s) \/ Wait(k, s)
             \/ Publish(k, s) \/ PublishFails(k, s)
      PROVE  HeldForGrace'
  BY <1>1, <1>2, <1>3 DEF Steady, Baseline, Wait, Publish, PublishFails, Stimulus
<1>4. CASE RunCheck \/ Restart
  BY <1>1, <1>4, RunCheckKeeps DEF Restart
<1>5. CASE UNCHANGED vars
  BY <1>5 DEF IInv, HeldForGrace, Published, vars, watcher, history
<1>6. QED
  BY <1>3, <1>4, <1>5 DEF Next, PublishTransition

LEMMA Invariance == Spec => []IInv
<1>1. IInv /\ [Next]_vars => IInv'
  BY NextTypeOK, NextSustaining, NextUnbroken, NextCommitted, NextStatusExplained,
     NextHeldForGrace DEF IInv
<1>2. QED
  BY InitIInv, <1>1, PTL DEF Spec

-----------------------------------------------------------------------------

\* The severities, counts and stimuli keep their shape (Watcher).
THEOREM TypeCorrect == Spec => []TypeOK
<1>1. IInv => TypeOK
  BY DEF IInv
<1>2. QED
  BY <1>1, Invariance, PTL

\* A stimulus is about a severity that was found on as many polls as span its
\* grace period, for any interval, also one the period is no multiple of; in a
\* row, but for polls that found nothing of the key (publishTransition,
\* gracePollsFor).
THEOREM HeldForGraceHolds == Spec => []HeldForGrace
<1>1. IInv => HeldForGrace
  BY DEF IInv
<1>2. QED
  BY <1>1, Invariance, PTL

\* The status that is shown is the committed severity or the pending one
\* (recordStatus, publishTransition).
THEOREM StatusExplainedHolds == Spec => []StatusExplained
<1>1. IInv => StatusExplained
  BY DEF IInv
<1>2. QED
  BY <1>1, Invariance, PTL

\* A stimulus is about a change, or repeats what may not have been told
\* (publishTransition).
THEOREM EdgeTriggeredHolds == Spec => EdgeTriggered
<1> DEFINE Edge ==
      sent' \in Keys \X Severities =>
        LET k == sent'[1]
        IN  \/ unsure[k] = "failed"
            \/ sent'[2] = "ok" /\ told[k] \in Alerts
            \/ sent'[2] # "ok" /\ (told[k] # sent'[2] \/ unsure[k] = "restarted")
<1>1. ASSUME IInv, Next PROVE Edge
  <2>1. CASE sent' = Nothing
    BY <2>1, NamesAssumption
  <2>2. ASSUME NEW k \in Keys, NEW s \in Severities, Changing(k, s), sent' = <<k, s>>
        PROVE  Edge
    <3>1. state[k] # s /\ ~(state[k] = Unseen /\ s = "ok")
      BY <2>2 DEF Changing
    <3>2. /\ state[k] \in {"ok", "warning", "critical", Unseen}
          /\ unsure[k] \in {"no", "restarted", "failed"}
      BY <1>1, KeysOf DEF IInv, TypeOK
    <3>3. /\ unsure[k] = "no" => state[k] = told[k] \/ (told[k] = Unseen /\ state[k] = "ok")
          /\ unsure[k] = "restarted" => state[k] \in {Unseen, "ok"}
      BY <1>1 DEF IInv, Committed
    <3>4. Unseen \notin {"ok", "warning", "critical"}
      BY NamesAssumption, KeysOf
    <3>5. CASE s = "ok"
      BY <2>2, <3>1, <3>2, <3>3, <3>5 DEF Alerts
    <3>6. CASE s # "ok"
      BY <2>2, <3>1, <3>2, <3>3, <3>4, <3>6, KeysOf
    <3>7. QED
      BY <3>5, <3>6
  <2>3. ASSUME NEW k \in Keys, NEW s \in Severities,
               \/ Steady(k, s) \/ Baseline(k, s) \/ Wait(k, s)
               \/ Publish(k, s) \/ PublishFails(k, s)
        PROVE  Edge
    <3>1. sent' = Nothing \/ (Changing(k, s) /\ sent' = <<k, s>>)
      BY <2>3 DEF Steady, Baseline, Wait, Publish, PublishFails, Stimulus
    <3>2. QED
      BY <2>1, <2>2, <3>1
  <2>4. CASE RunCheck \/ Restart
    BY <2>1, <2>4, RunCheckKeeps DEF Restart
  <2>5. QED
    BY <1>1, <2>3, <2>4 DEF Next, PublishTransition
<1>2. IInv /\ [Next]_vars => [Edge]_vars
  BY <1>1
<1>3. QED
  BY <1>2, Invariance, PTL DEF Spec, EdgeTriggered
=============================================================================
