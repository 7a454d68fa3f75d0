---------------------------- MODULE MCSysMonitor ----------------------------
(* SysMonitor on small instances: a disk, a service, and a service with a  *)
(* dependency.                                                             *)
EXTENDS SysMonitor

CONSTANTS disk, memory, web, memorySvc, postgres

MCWarningAt == [c \in ThresholdChecks |-> 80]
MCCriticalAt == [c \in ThresholdChecks |-> IF c = memory THEN 0 ELSE 95]

MCConfigurations == {<<disk, web>>, <<memory>>, <<memorySvc>>}
=============================================================================
