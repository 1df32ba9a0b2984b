SPECIFICATION Spec
CONSTANTS
  Minute = 4
  Samples = 3
INVARIANTS FiresOnce EveryMinuteSampled
