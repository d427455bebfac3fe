\* Two signals, anywhere.
SPECIFICATION FairSpec
CONSTANTS
  MaxSignals = 2
  Polls = 3
INVARIANTS TypeOK PortReenabledUnlessTorn DownIsFlagged
PROPERTIES Terminates
