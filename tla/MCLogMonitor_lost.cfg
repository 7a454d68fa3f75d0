\* One crash between the truncation and the write of the checkpoint file.
SPECIFICATION Spec
CONSTANTS
  f1 = f1
  m1 = m1
  m2 = m2
  Files = {f1}
  Messages = {m1, m2}
  NoLine = NoLine
  Fragment = Fragment
  NoEntry = NoEntry
  NoFile = NoFile
  MaxLines = 2
  MaxTruncations = 0
  MaxCrashes = 1
  MaxFaults = 0
INVARIANT RestartSkipsNothing
\* The system stops when every line is read.
CHECK_DEADLOCK FALSE
