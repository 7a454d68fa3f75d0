\* Three configurations; a grace period of two polls, not a multiple of one.
SPECIFICATION FairSpec
CONSTANTS
  disk = disk
  memory = memory
  web = web
  memorySvc = memorySvc
  postgres = postgres
  ThresholdChecks = {disk, memory}
  ServiceChecks = {web}
  InternalChecks = {memorySvc}
  Dependencies = {postgres}
  WarningAt <- MCWarningAt
  CriticalAt <- MCCriticalAt
  Readings = {79, 80, 95}
  Configurations <- MCConfigurations
  Interval = 5
  ThresholdGrace = 12
  ServiceGrace = 8
  Unseen = Unseen
  Nothing = Nothing
  MaxCrashes = 1
  MaxFaults = 1
INVARIANTS HeldForGrace StatusExplained
PROPERTIES EdgeTriggered LastingIsTold
\* The poll loop goes on for ever, so nothing stops.
