---------------------------- MODULE MCLogMonitor ----------------------------
(* LogMonitor on small instances: one file, two messages. *)
EXTENDS LogMonitor

CONSTANTS f1, m1, m2
=============================================================================
