SPECIFICATION FairSpec
CONSTANTS
  GGPOModes = {FALSE, TRUE}
  GuestThrows = TRUE
INVARIANTS TypeOK RunVerified ResetVerified ThreadJoined SessionOpenInFrame
PROPERTIES StopEnds ErrorNoticed
CHECK_DEADLOCK FALSE
