\* One file that two lines fit in, two messages; one of each mishap.
SPECIFICATION FairSpec
CONSTANTS
  f1 = f1
  m1 = m1
  m2 = m2
  Files = {f1}
  Messages = {m1, m2}
  NoLine = NoLine
  Fragment = Fragment
  NoEntry = NoEntry
  NoFile = NoFile
  MaxLines = 2
  MaxTruncations = 1
  MaxCrashes = 1
  MaxFaults = 1
INVARIANTS PassedIsPublished PublishedOnce HistoryIsSilent
PROPERTY EventuallyPublished
\* The system stops when every line is read.
CHECK_DEADLOCK FALSE
