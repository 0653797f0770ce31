\* Two configurations, four starts.
SPECIFICATION Spec
CONSTANTS
  Targets = 2
  MaxStarts = 4
INVARIANTS EnabledMeansReady PilesOnlyOverCut
PROPERTY StaysInOrder
