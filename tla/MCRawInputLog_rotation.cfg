\* Postgres is out and the log rotates twice; nothing else fails.
SPECIFICATION Spec
CONSTANTS
  s1 = s1
  s2 = s2
  bad = bad
  Stimuli = {s1, s2, bad}
  Malformed = {bad}
  Oversize = {}
  NoStimulus = NoStimulus
  MaxSize = 1
  MaxCopies = 1
  MaxCrashes = 0
  MaxOutages = 1
  MaxFaults = 0
INVARIANT AckedSurvives
