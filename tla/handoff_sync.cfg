SPECIFICATION Spec
CONSTANTS
  Ctx = {c1, c2, c3}
  NoCtx = NoCtx
  MaxQueue = 3
  AutoSkipFrame = 1
  EmulateFramebuffer = FALSE
  DelayFrameSwapping = FALSE
  FrameSkipping = TRUE
  Rollbacks = FALSE
  StopAllowed = FALSE
  ForeignStop = FALSE
  RendererFails = TRUE
  SpuriousWakeup = FALSE
  GuestWaitsForDone = TRUE
SYMMETRY ContextSymmetry
PROPERTY RenderEndInOrder
