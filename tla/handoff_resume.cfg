SPECIFICATION Spec
CONSTANTS
  Ctx = {c1, c2, c3}
  NoCtx = NoCtx
  MaxQueue = 3
  AutoSkipFrame = 0
  EmulateFramebuffer = FALSE
  DelayFrameSwapping = FALSE
  FrameSkipping = FALSE
  Rollbacks = FALSE
  StopAllowed = TRUE
  ForeignStop = FALSE
  RendererFails = FALSE
  SpuriousWakeup = FALSE
  GuestWaitsForDone = TRUE
SYMMETRY ContextSymmetry
PROPERTY RenderEndInOrder
