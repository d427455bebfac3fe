\* The promise of the docstring, with one signal.
SPECIFICATION Spec
CONSTANTS
  MaxSignals = 1
  Polls = 3
INVARIANT PortReenabled
