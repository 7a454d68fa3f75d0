\* Two events of one group, two emails processed, one crash or failed call.
SPECIFICATION FairSpec
CONSTANTS
  e1 = e1
  e2 = e2
  Events = {e1, e2}
  Date <- MCDate
  Slot <- MCSlot
  Empty = Empty
  Corrupt = Corrupt
  NoEvent = NoEvent
  Free = Free
  MaxTime = 7
  MaxDeliveries = 2
  MaxMishaps = 1
INVARIANTS ResolvedWasSent RemindersAccountedFor
PROPERTY EventuallyReminded
\* Time ends at MaxTime.
CHECK_DEADLOCK FALSE
