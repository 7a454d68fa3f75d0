\* Five scenarios, one mishap.
SPECIFICATION FairPipeline
CONSTANTS
  m1 = m1 m2 = m2 p1 = p1 p2 = p2 a1 = a1 a2 = a2
  school = school friend = friend txt = txt
  plain = plain html = html log = log thread = thread
  NoName = NoName NoBody = NoBody Empty = Empty Garbled = Garbled
  NoPayload = NoPayload Failed = Failed
  Unavailable = Unavailable
  NoDay = NoDay BadDate = BadDate NoMail = NoMail
  AddressOf <- MCAddressOf
  SchoolAddresses = {school}
  Extractions <- MCExtractions
  Scenarios <- MCScenarios
  Trailing <- MCTrailing
  Days = {1, 2}
  Today = 2
  Texts = {plain, html, log}
  MaxBackfills = 1
  MaxMishaps = 1
INVARIANTS PipelineTypeOK HandedOn RepeatsAccountedFor SuccessIsReported BodyIsBestText
PROPERTY EventuallyRecorded
\* What has come in is handled in the end, and nothing more happens.
CHECK_DEADLOCK FALSE
