SPECIFICATION Spec
CONSTANTS
  Ctx = {c1, c2, c3}
  NoCtx = NoCtx
  MaxQueue = 4
  AutoSkipFrame = 1
  EmulateFramebuffer = FALSE
  DelayFrameSwapping = TRUE
  FrameSkipping = TRUE
  Rollbacks = TRUE
  StopAllowed = TRUE
  ForeignStop = TRUE
  RendererFails = TRUE
  SpuriousWakeup = TRUE
  GuestWaitsForDone = FALSE
SYMMETRY ContextSymmetry
INVARIANTS
  TypeOK
  FrameNotOrphaned
  RenderedFrameInSlot
  ContextConserved
  RollbackAfterProcess
  NoLostWakeup
