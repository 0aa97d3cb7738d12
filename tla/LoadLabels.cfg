CONSTANTS
  Components <- TwoCompressors
  Style <- Plain
  Delays = {1, 2}
  StartTime = 5
  MaxEvents = 8
  SampleSizes = {0, 1, 3}
  MaxSamples = 2
SPECIFICATION Spec
INVARIANT LoadsAsLabelled
CHECK_DEADLOCK FALSE
