\* One edit to any state, one crash, one fault.
SPECIFICATION FairSpec
CONSTANTS
  c1 = c1
  c2 = c2
  Prompts = {1, 2}
  Callers = {c1, c2}
  Free = Free
  NoPrompt = NoPrompt
  EditStates = {"NOT_STARTED", "CREATING_SPEC", "IMPLEMENTING", "DONE"}
  Unlaunchable = {}
  MaxEdits = 1
  MaxCrashes = 1
  MaxFaults = 1
INVARIANTS AtMostOneCreatingSpec OneSpecWriter LaunchesAccountedFor ReportFreesSlot
PROPERTIES ImplementsSlot EventuallyLaunched EditUnsticksQueue
\* The system stops when every prompt is DONE.
CHECK_DEADLOCK FALSE
