\* Every option and run length, cut at any byte, and inputs of noise.
SPECIFICATION Spec
CONSTANTS
  Settings <- MCSettings
  NoiseOf <- MCNoiseOf
  MaxAhead = 1
INVARIANTS TypeOK WithinMaxSamples
PROPERTIES DeliversTheSource
CHECK_DEADLOCK FALSE
