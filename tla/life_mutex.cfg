SPECIFICATION Spec
CONSTANTS
  GGPOModes = {TRUE}
  GuestThrows = FALSE
INVARIANT NoMutualWait
CHECK_DEADLOCK FALSE
