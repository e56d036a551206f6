SPECIFICATION FairSpec
CONSTANTS
  Ctx = {c1, c2}
  NoCtx = NoCtx
  MaxQueue = 4
  AutoSkipFrame = 0
  EmulateFramebuffer = FALSE
  DelayFrameSwapping = FALSE
  FrameSkipping = FALSE
  Rollbacks = TRUE
  StopAllowed = TRUE
  ForeignStop = FALSE
  RendererFails = FALSE
  SpuriousWakeup = FALSE
  GuestWaitsForDone = TRUE
PROPERTIES
  StopReturns
  FrameRendered
  EmuWaitEnds
  RollbackStarts
