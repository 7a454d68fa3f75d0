\* One name and a temporary one, and two contents.
SPECIFICATION FairSpec
CONSTANTS
  f1 = f1
  tmp1 = tmp1
  a = a
  b = b
  Files = {f1, tmp1}
  TempFiles = {tmp1}
  Contents = {a, b}
  Absent = Absent
  Empty = Empty
  NoEntry = NoEntry
  NoFile = NoFile
  NoThread = NoThread
  QueueSize = 1
  MaxChanges = 3
  MaxCrashes = 1
  MaxFaults = 1
INVARIANTS MarkedIsPublished RepublishedForCause
PROPERTY ContentSettles
\* The reconciliation scan goes on for ever, so nothing stops.
