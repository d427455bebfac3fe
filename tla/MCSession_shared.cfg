\* A slow device shared with a second host.
SPECIFICATION Spec
CONSTANTS
  Entries <- TheKeyboard
  Overrides = {255}
  Calls <- SharedCalls
  RawCalls <- SharedRaw
  ForeignFrames <- Foreign
  AnswerBytes = {2, 3}
  OddTids = {}
  OddSizes = {81}
  Prompt = FALSE
  Settings <- OneSetting
INVARIANTS TypeOK WireDiscipline AttemptAccounting AcceptedAnswersRequest
PROPERTIES RetrySpacing
