\* A prompt device nobody else uses: every operation, every entry.
SPECIFICATION Spec
CONSTANTS
  Entries <- GuardEntries
  Overrides = {}
  Calls <- StatefulCalls
  RawCalls <- MalformedRaw
  ForeignFrames = {}
  AnswerBytes = {1, 2, 4}
  OddTids = {}
  OddSizes = {}
  Prompt = TRUE
  Settings <- TwoSettings
INVARIANTS FreshAnswer ReadBack WireDiscipline AttemptAccounting
