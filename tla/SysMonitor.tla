----------------------------- MODULE SysMonitor -----------------------------
(***************************************************************************)
(* perception-svc/sysmonitor: disk, memory, CPU and service checks become  *)
(* a stimulus when their severity changes and the change has lasted.       *)
(*                                                                         *)
(* One goroutine polls the configured checks in turn.  A check yields a    *)
(* severity for its key, or nothing when the measurement fails; an         *)
(* internal_health check yields one for itself and, when the service can   *)
(* be reached, one for each dependency the service reports.                *)
(* publishTransition turns the severities of a key into stimuli.  All of   *)
(* this is in memory, and a restart forgets it.                            *)
(***************************************************************************)
EXTENDS Integers, Sequences, FiniteSets, SequencesExt

CONSTANTS
  ThresholdChecks, \* disk_space, memory and cpu checks
  ServiceChecks,   \* service_health checks
  InternalChecks,  \* internal_health checks
  Dependencies,    \* what the internal_health targets may report on
  WarningAt,       \* WarningAt[c], CriticalAt[c]: thresholds in percent;
  CriticalAt,      \* critical 0 stands for no such threshold
  Readings,        \* percentages that are measured
  Configurations,  \* sequences of checks that may be configured
  Interval,        \* minutes from one poll to the next
  ThresholdGrace,  \* thresholdGracePeriod, in minutes
  ServiceGrace,    \* serviceGracePeriod, in minutes
  Unseen,          \* no severity yet
  Nothing,         \* no stimulus
  MaxCrashes,      \* bound: crashes of perception-svc
  MaxFaults        \* bound: failed publishes

Checks == ThresholdChecks \cup ServiceChecks \cup InternalChecks

ASSUME ChecksAssumption ==
  /\ ThresholdChecks \cap ServiceChecks = {}
  /\ (ThresholdChecks \cup ServiceChecks) \cap InternalChecks = {}
  /\ WarningAt \in [ThresholdChecks -> 1..100]
  /\ CriticalAt \in [ThresholdChecks -> 0..100]
  /\ Readings \subseteq 0..100
  /\ Configurations \subseteq Seq(Checks) \ {<<>>}
  /\ IsFiniteSet(Dependencies)

ASSUME BoundsAssumption ==
  /\ Interval \in Nat \ {0} /\ ThresholdGrace \in Nat /\ ServiceGrace \in Nat
  /\ MaxCrashes \in Nat /\ MaxFaults \in Nat

\* checkKey, and the key of a dependency of an internal_health check.
CheckKey(c) == <<c>>
DepKey(c, d) == <<c, d>>

Keys == {CheckKey(c) : c \in Checks}
          \cup {DepKey(c, d) : c \in InternalChecks, d \in Dependencies}

Severities == {"ok", "warning", "critical"}
Alerts == {"warning", "critical"}

ASSUME NamesAssumption == Unseen \notin Severities /\ Nothing \notin Keys \X Severities

VARIABLES
  checks,   \* Watcher.checks
  turn,     \* poll: the check that is next
  found,    \* severities it has found and not handed on: <<key, severity>>
  state,    \* Watcher.state
  pending,  \* Watcher.pending: <<severity, count>>
  status,   \* Watcher.status: the severity shown for a key
  sent,     \* history: the stimulus published in the last step
  told,     \* history: told[k] severity in the last stimulus about k
  unsure,   \* history: why state[k] need not be told[k]
  run,      \* history: run[k] polls found k's severity since it changed
  unbroken, \* history: unbroken[k] polls, the last ones, found it
  gap,      \* history: since it changed some poll found nothing of k
  crashes, faults \* what the bounds count

poller  == <<checks, turn, found>>
watcher == <<state, pending, status>>
history == <<sent, told, unsure, run, unbroken, gap>>
budgets == <<crashes, faults>>
vars == <<poller, watcher, history, budgets>>

GracePollsFor(d) == IF d <= 0 THEN 1 ELSE (d + Interval - 1) \div Interval

Grace(k) == IF k[1] \in ThresholdChecks THEN ThresholdGrace ELSE ServiceGrace

\* Counts above this one say nothing more.
MostPolls == GracePollsFor(IF ThresholdGrace > ServiceGrace THEN ThresholdGrace
                                                            ELSE ServiceGrace)
Count(n) == IF n < MostPolls THEN n + 1 ELSE n

NoPending == <<"ok", 0>>

Init ==
  /\ checks \in Configurations
  /\ turn = 1 /\ found = <<>>
  /\ state = [k \in Keys |-> Unseen]
  /\ pending = [k \in Keys |-> NoPending]
  /\ status = [k \in Keys |-> Unseen]
  /\ sent = Nothing
  /\ told = [k \in Keys |-> Unseen]
  /\ unsure = [k \in Keys |-> "no"]
  /\ run = [k \in Keys |-> 0] /\ unbroken = [k \in Keys |-> 0]
  /\ gap = [k \in Keys |-> FALSE]
  /\ crashes = 0 /\ faults = 0

-----------------------------------------------------------------------------
(* runCheck: what a check finds *)

DeriveSeverity(c, value) ==
  IF CriticalAt[c] > 0 /\ value >= CriticalAt[c] THEN "critical"
  ELSE IF value >= WarningAt[c] THEN "warning"
  ELSE "ok"

\* The keys of c that are not among the severities fs.
Unfound(c, fs) == {k \in Keys : k[1] = c} \ {f[1] : f \in Range(fs)}

\* The check c finds the severities fs.  What it finds nothing of keeps its
\* status, its severity and its count.
Finds(c, fs) ==
  /\ found = <<>> /\ checks[turn] = c
  /\ found' = fs
  /\ turn' = (turn % Len(checks)) + 1
  /\ sent' = Nothing
  /\ unbroken' = [k \in Keys |-> IF k \in Unfound(c, fs) THEN 0 ELSE unbroken[k]]
  /\ gap' = [k \in Keys |-> gap[k] \/ k \in Unfound(c, fs)]
  /\ UNCHANGED <<checks, watcher, told, unsure, run, budgets>>

Measure(c) ==
  \E value \in Readings :
    Finds(c, <<<<CheckKey(c), DeriveSeverity(c, value)>>>>)

\* A system call that fails, or the first reading of the CPU, which has none to
\* compare with: the poll is skipped.
MeasureFails(c) == Finds(c, <<>>)

\* What a probe may get: no answer within its timeout, a TCP connection, or
\* an HTTP status.
Answers == {"none", "connected", "2xx", "other status"}
Healthy(answer) == answer \in {"connected", "2xx"}

Probe(c) ==
  \E answer \in Answers :
    Finds(c, <<<<CheckKey(c), IF Healthy(answer) THEN "ok" ELSE "critical">>>>)

\* /health gives no answer, no 2xx status or no JSON: nothing is known of the
\* dependencies.
FetchFails(c) == Finds(c, <<<<CheckKey(c), "critical">>>>)

\* The service reports on some dependencies, of which some are down.
Fetch(c) ==
  \E reported \in SUBSET Dependencies : \E down \in SUBSET reported :
    Finds(c,
          <<<<CheckKey(c), "ok">>>>
            \o SetToSeq({<<DepKey(c, d), IF d \in down THEN "critical" ELSE "ok">> :
                           d \in reported}))

-----------------------------------------------------------------------------
(* publishTransition *)

\* recordStatus, and the transition of k to s as far as it has got: the next
\* severity found is k's.
Observe(k, s) ==
  /\ found # <<>> /\ Head(found) = <<k, s>>
  /\ found' = Tail(found)
  /\ status' = [status EXCEPT ![k] = s]
  /\ run' = [run EXCEPT ![k] = IF status[k] = s THEN Count(@) ELSE Count(0)]
  /\ unbroken' = [unbroken EXCEPT ![k] = IF status[k] = s THEN Count(@) ELSE Count(0)]
  /\ gap' = [gap EXCEPT ![k] = @ /\ status[k] = s]
  /\ UNCHANGED <<checks, turn, crashes>>

Forget(k) == pending' = [pending EXCEPT ![k] = NoPending]

\* A mutant: an observation of the committed severity leaves the count alone.
SteadyKeepsCount(k, s) ==
  /\ Observe(k, s)
  /\ state[k] = s
  /\ sent' = Nothing
  /\ UNCHANGED <<state, pending, told, unsure, faults>>

\* The committed severity: what was pending was noise.
Steady(k, s) ==
  /\ Observe(k, s)
  /\ state[k] = s
  /\ Forget(k)
  /\ sent' = Nothing
  /\ UNCHANGED <<state, told, unsure, faults>>

\* A key that is first seen healthy: no stimulus.
Baseline(k, s) ==
  /\ Observe(k, s)
  /\ state[k] = Unseen /\ s = "ok"
  /\ state' = [state EXCEPT ![k] = s]
  /\ Forget(k)
  /\ sent' = Nothing
  /\ UNCHANGED <<told, unsure, faults>>

\* A mutant: the count goes on when the pending severity is another one.
SustainedAny(k, s) == <<s, pending[k][2] + 1>>

\* The pending transition, with this observation.
Sustained(k, s) == <<s, IF pending[k][1] = s THEN pending[k][2] + 1 ELSE 1>>

Changing(k, s) ==
  /\ Observe(k, s)
  /\ state[k] # s /\ ~(state[k] = Unseen /\ s = "ok")

Wait(k, s) ==
  /\ Changing(k, s)
  /\ Sustained(k, s)[2] < GracePollsFor(Grace(k))
  /\ pending' = [pending EXCEPT ![k] = Sustained(k, s)]
  /\ sent' = Nothing
  /\ UNCHANGED <<state, told, unsure, faults>>

Stimulus(k, s) == <<k, s>>

\* A mutant: what was published is not committed.
PublishForgets(k, s) ==
  /\ Changing(k, s)
  /\ Sustained(k, s)[2] >= GracePollsFor(Grace(k))
  /\ Forget(k)
  /\ sent' = Stimulus(k, s)
  /\ told' = [told EXCEPT ![k] = s]
  /\ unsure' = [unsure EXCEPT ![k] = "no"]
  /\ UNCHANGED <<state, faults>>

Publish(k, s) ==
  /\ Changing(k, s)
  /\ Sustained(k, s)[2] >= GracePollsFor(Grace(k))
  /\ state' = [state EXCEPT ![k] = s]
  /\ Forget(k)
  /\ sent' = Stimulus(k, s)
  /\ told' = [told EXCEPT ![k] = s]
  /\ unsure' = [unsure EXCEPT ![k] = "no"]
  /\ UNCHANGED faults

\* A mutant: a publish that fails is taken for done.
PublishFailsCommits(k, s) ==
  /\ Changing(k, s)
  /\ Sustained(k, s)[2] >= GracePollsFor(Grace(k))
  /\ faults < MaxFaults /\ faults' = faults + 1
  /\ state' = [state EXCEPT ![k] = s]
  /\ Forget(k)
  /\ sent' = Nothing
  /\ UNCHANGED <<told, unsure>>

\* The publish reports an error, though the stream may have the stimulus:
\* nothing is committed, and the count is kept.
PublishFails(k, s) ==
  /\ Changing(k, s)
  /\ Sustained(k, s)[2] >= GracePollsFor(Grace(k))
  /\ faults < MaxFaults /\ faults' = faults + 1
  /\ pending' = [pending EXCEPT ![k] = Sustained(k, s)]
  /\ \/ sent' = Nothing /\ UNCHANGED <<told, unsure>>
     \/ /\ sent' = Stimulus(k, s)
        /\ told' = [told EXCEPT ![k] = s]
        /\ unsure' = [unsure EXCEPT ![k] = "failed"]
  /\ UNCHANGED state

-----------------------------------------------------------------------------
\* perception-svc stops, and newWatcher starts over.
Restart ==
  /\ crashes < MaxCrashes
  /\ crashes' = crashes + 1
  /\ turn' = 1 /\ found' = <<>>
  /\ state' = [k \in Keys |-> Unseen]
  /\ pending' = [k \in Keys |-> NoPending]
  /\ status' = [k \in Keys |-> Unseen]
  /\ sent' = Nothing
  /\ unsure' = [k \in Keys |-> "restarted"]
  /\ run' = [k \in Keys |-> 0] /\ unbroken' = [k \in Keys |-> 0]
  /\ gap' = [k \in Keys |-> FALSE]
  /\ UNCHANGED <<checks, told, faults>>

RunCheck ==
  \/ \E c \in ThresholdChecks : Measure(c) \/ MeasureFails(c)
  \/ \E c \in ServiceChecks : Probe(c)
  \/ \E c \in InternalChecks : Fetch(c) \/ FetchFails(c)

PublishTransition ==
  \E k \in Keys : \E s \in Severities :
    \/ Steady(k, s) \/ Baseline(k, s) \/ Wait(k, s)
    \/ Publish(k, s) \/ PublishFails(k, s)

Next == RunCheck \/ PublishTransition \/ Restart

Spec == Init /\ [][Next]_vars

\* pollLoop goes on; a check returns within its timeout.
Fairness == WF_vars(RunCheck) /\ WF_vars(PublishTransition)

FairSpec == Spec /\ Fairness

-----------------------------------------------------------------------------
(* Properties *)

TypeOK ==
  /\ checks \in Configurations /\ turn \in 1..Len(checks)
  /\ found \in Seq(Keys \X Severities)
  /\ state \in [Keys -> Severities \cup {Unseen}]
  /\ pending \in [Keys -> Severities \X (0..(MostPolls + MaxFaults))]
  /\ status \in [Keys -> Severities \cup {Unseen}]
  /\ sent \in (Keys \X Severities) \cup {Nothing}
  /\ told \in [Keys -> Severities \cup {Unseen}]
  /\ unsure \in [Keys -> {"no", "restarted", "failed"}]
  /\ run \in [Keys -> 0..MostPolls] /\ unbroken \in [Keys -> 0..MostPolls]
  /\ gap \in [Keys -> BOOLEAN]
  /\ crashes \in 0..MaxCrashes /\ faults \in 0..MaxFaults

Published == sent # Nothing

\* So many polls span the grace period of k.
Span(k, n) == n >= 1 /\ n * Interval >= Grace(k)

\* A stimulus is published for a severity that was "observed for gracePolls
\* consecutive polls" (sysmonitor.go:93-95, 366-371), with an exception the
\* comments do not name: a poll that finds nothing of the key (a measurement
\* that failed, a service that was not reached, a dependency that was not
\* reported) is passed over, and the polls before and after it that did find
\* the severity, and no other, are so many.
HeldForGrace ==
  Published => LET k == sent[1]
               IN  /\ status[k] = sent[2]
                   /\ Span(k, unbroken[k]) \/ (gap[k] /\ Span(k, run[k]))

\* Stimuli are about changes: "a published ok is never a steady-state ping"
\* (thinking-svc/rules/system_monitor.go:79-84) but follows an alert, and an
\* alert is repeated only by a new process, or when its publish seemed to
\* fail (sysmonitor.go:97-99, 374-376).
EdgeTriggered ==
  [][sent' \in Keys \X Severities =>
       LET k == sent'[1]
       IN  \/ unsure[k] = "failed"
           \/ sent'[2] = "ok" /\ told[k] \in Alerts
           \/ sent'[2] # "ok" /\ (told[k] # sent'[2] \/ unsure[k] = "restarted")]_vars

\* What the status endpoint shows of a key and what its alerts are based on
\* agree: the last severity seen is the committed one, or is pending
\* (sysmonitor.go:72-76, 86-88).
StatusExplained ==
  \A k \in Keys :
    IF pending[k] = NoPending THEN status[k] = state[k]
    ELSE status[k] = pending[k][1] /\ status[k] # state[k]

\* The severity of k stays s, and k is measured for ever.
Lasts(k, s) ==
  /\ []<>(found # <<>> /\ Head(found)[1] = k)
  /\ <>[](status[k] = s)

\* A severity that lasts is what people are told last, however it flapped
\* before, unless the last stimulus is one whose publish seemed to fail; a
\* recovery is also not told by a process that did not tell the alert
\* (sysmonitor.go:97-99, 374-376).
LastingIsTold ==
  \A k \in Keys :
    /\ \A s \in Alerts : Lasts(k, s) => <>[](told[k] = s \/ unsure[k] = "failed")
    /\ Lasts(k, "ok") => <>[](told[k] \in {"ok", Unseen} \/ unsure[k] # "no")
=============================================================================
