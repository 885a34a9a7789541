SPECIFICATION FairSpeed
CONSTANTS
  Setups <- MCSetups
  FDs = {0, 1}
  Can = {"exec", "exit", "detach", "refused", "elide", "noitimer"}
  MaxSamples = 3
  MaxOpens = 1
  MaxExecs = 1
INVARIANTS SpeedInv SamplesKept OwnDescriptors
PROPERTIES SamplingGoesOn ExitReturns
CHECK_DEADLOCK FALSE
