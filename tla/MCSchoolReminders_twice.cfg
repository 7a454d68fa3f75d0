\* One event, whose email is processed again; nothing fails.
SPECIFICATION Spec
CONSTANTS
  e1 = e1
  e2 = e2
  Events = {e1}
  Date <- MCDate
  Slot <- MCSlot
  Empty = Empty
  Corrupt = Corrupt
  NoEvent = NoEvent
  Free = Free
  MaxTime = 7
  MaxDeliveries = 2
  MaxMishaps = 0
INVARIANT FiresOnce
\* Time ends at MaxTime.
CHECK_DEADLOCK FALSE
