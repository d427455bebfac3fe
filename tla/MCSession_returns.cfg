\* Every call ends, on a slow device shared with a second host.
SPECIFICATION FairSpec
CONSTANTS
  Entries <- TheKeyboard
  Overrides = {}
  Calls <- OtherCalls
  RawCalls <- ContractRaw
  ForeignFrames <- Foreign
  AnswerBytes = {2, 4}
  OddTids = {0}
  OddSizes = {}
  Prompt = FALSE
  Settings <- OneSetting
PROPERTIES CallReturns KeepsContract
