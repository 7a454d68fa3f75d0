\* One crash, one outage, one fault; one stimulus too long for a scan. A second
\* rotation needs four lines.
SPECIFICATION FairSpec
CONSTANTS
  s1 = s1
  s2 = s2
  bad = bad
  Stimuli = {s1, s2, bad}
  Malformed = {bad}
  Oversize = {s2}
  NoStimulus = NoStimulus
  MaxSize = 2
  MaxCopies = 1
  MaxCrashes = 1
  MaxOutages = 1
  MaxFaults = 1
INVARIANTS AckedIsDurable SyncedIsStored
PROPERTIES ImplementsWriteAhead EventuallyAcked RestartStoresPending
