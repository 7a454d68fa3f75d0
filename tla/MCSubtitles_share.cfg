\* Two calls, two troubles of any kinds.
SPECIFICATION FairSpec
CONSTANTS
  v1 = v1
  v2 = v2
  c1 = c1
  c2 = c2
  Callers = {c1, c2}
  Versions = {v1, v2}
  Streams <- MCStreams
  Tracks <- MCTracks
  All = All
  Gone = Gone
  NoDir = NoDir
  NoCaller = NoCaller
  Nothing = Nothing
  MaxTroubles = 2
INVARIANTS OneConversion NeverStale ErrorHasCause
PROPERTY EveryCallReturns
\* What is asked is answered, and nothing more happens.
CHECK_DEADLOCK FALSE
