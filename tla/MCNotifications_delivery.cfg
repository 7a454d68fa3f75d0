\* Two items, two timer goroutines, one crash, one fault.
SPECIFICATION FairSpec
CONSTANTS
  i1 = i1
  i2 = i2
  b1 = b1
  b2 = b2
  Items = {i1, i2}
  Batchers = {b1, b2}
  Free = Free
  MaxCrashes = 1
  MaxFaults = 1
INVARIANTS ItemsAccountedFor DeliveredOnce NotStranded
PROPERTY EventuallyOut
