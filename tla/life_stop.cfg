SPECIFICATION FairSpec
CONSTANTS
  GGPOModes = {FALSE}
  GuestThrows = FALSE
PROPERTY StopReturns
CHECK_DEADLOCK FALSE
