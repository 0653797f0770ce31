\* A copy that was cut short is mounted by the next start.
SPECIFICATION Spec
CONSTANTS
  Targets = 2
  MaxStarts = 3
INVARIANT OkMeansConfigured
