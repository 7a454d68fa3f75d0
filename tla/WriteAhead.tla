----------------------------- MODULE WriteAhead -----------------------------
(***************************************************************************)
(* What memory-svc promises about the order of things (storage/writer.go): *)
(* a stimulus gets into the file log before it becomes a row, and before   *)
(* its message is acknowledged.  Each of the three happens one stimulus at *)
(* a time, and none is undone.                                             *)
(***************************************************************************)
CONSTANTS
  Stimuli,
  Skipped    \* those acknowledged without being written

VARIABLES
  logged,    \* stimuli that were written to the file log
  stored,    \* stimuli that are rows of raw_inputs
  acked      \* stimuli whose message is acknowledged

Init == logged = {} /\ stored = {} /\ acked = {}

AppendStimulus(m) ==
  /\ logged' = logged \cup {m}
  /\ UNCHANGED <<stored, acked>>

InsertRawInput(m) ==
  /\ m \in logged
  /\ stored' = stored \cup {m}
  /\ UNCHANGED <<logged, acked>>

Ack(m) ==
  /\ m \in logged \cup Skipped
  /\ acked' = acked \cup {m}
  /\ UNCHANGED <<logged, stored>>

Next == \E m \in Stimuli : AppendStimulus(m) \/ InsertRawInput(m) \/ Ack(m)

Spec == Init /\ [][Next]_<<logged, stored, acked>>
=============================================================================
