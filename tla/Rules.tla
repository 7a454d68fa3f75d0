-------------------------------- MODULE Rules --------------------------------
(***************************************************************************)
(* thinking-svc: the rules that turn a stimulus into an action request,    *)
(* two of them with an answer of the LLM (rules/, llm/deepseek.go).        *)
(*                                                                         *)
(* A reply of the LLM is what its text parses to, or Unavailable: no       *)
(* answer, an error status, or an answer that is not the JSON asked for.   *)
(***************************************************************************)
EXTENDS Mail

CONSTANTS
  SchoolAddresses, \* those in a configured domain; none: the rule is off
  Extractions,     \* events an answer may list: sequences of dates
  Unavailable

Matches(rule, s) ==
  CASE rule = "school-email"   -> s.channel = "gmail" /\ s.sender \in SchoolAddresses
    [] rule = "error-report"   -> s.channel = "folder-watcher"
    [] rule = "gmail-triage"   -> s.channel = "gmail"
    [] rule = "cli-note"       -> s.channel = "cli-note"
    [] rule = "system-monitor" -> s.channel = "system-monitor"
    [] rule = "log-error"      -> s.channel = "log-error"

\* main puts the school rule first.
Registry == <<"school-email", "error-report", "gmail-triage", "cli-note",
              "system-monitor", "log-error">>

\* Match: the first rule that applies, in a sequence of at most one.
Match(s) ==
  LET matching == {i \in DOMAIN Registry : Matches(Registry[i], s)}
  IN  IF matching = {} THEN <<>>
      ELSE <<Registry[CHOOSE i \in matching : \A j \in matching : i <= j]>>

\* What the LLM may answer where it is asked.
Replies(s) ==
  CASE Match(s) = <<"school-email">> -> Extractions \cup {Unavailable}
    [] Match(s) = <<"gmail-triage">> -> BOOLEAN \cup {Unavailable}
    [] OTHER -> {Unavailable}

\* Fails closed: a mail is important only if the LLM says so.
ClassifyImportance(reply) == reply # Unavailable /\ reply

ExtractSchoolEvents(reply) == IF reply = Unavailable THEN <<>> ELSE reply

\* A recovery is as important as an outage.
SystemMonitorImportant(s) == s.severity \in {"critical", "ok"}

ActionRequest(s, hint, important, events) ==
  [hint |-> hint, source |-> s.source, text |-> s.text, important |-> important,
   occurred |-> s.occurred, thread |-> s.thread, events |-> events]

ReportEntry(s, important) ==
  ActionRequest(s, "append_daily_report_entry", important, <<>>)

\* The rules that ask nobody.
HandleErrorReport(s)   == ReportEntry(s, TRUE)
HandleCLINote(s)       == ReportEntry(s, TRUE)
HandleLogError(s)      == ReportEntry(s, TRUE)
HandleSystemMonitor(s) == ReportEntry(s, SystemMonitorImportant(s))

HandleGmailTriage(s, reply) ==
  ActionRequest(s, "triage_gmail_email", ClassifyImportance(reply), <<>>)

HandleSchoolEmail(s, reply) ==
  LET events == ExtractSchoolEvents(reply)
  IN  ActionRequest(s, "process_school_event", events # <<>>, events)

\* No rule matches: nothing to ask of action-svc.
NoRequest == [hint |-> "none"]

Process(s, reply) ==
  IF Match(s) = <<>> THEN NoRequest
  ELSE CASE Match(s)[1] = "school-email"   -> HandleSchoolEmail(s, reply)
         [] Match(s)[1] = "gmail-triage"   -> HandleGmailTriage(s, reply)
         [] Match(s)[1] = "error-report"   -> HandleErrorReport(s)
         [] Match(s)[1] = "cli-note"       -> HandleCLINote(s)
         [] Match(s)[1] = "log-error"      -> HandleLogError(s)
         [] Match(s)[1] = "system-monitor" -> HandleSystemMonitor(s)
=============================================================================
