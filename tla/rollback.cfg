SPECIFICATION LiveSpec
CONSTANTS
  Players = {me, A, B}
  Local = me
  Inputs = {n, x}
  Neutral = n
  P1 = P1
  P2 = P2
  A = A
  B = B
  Pages = {P1, P2}
  Moves <- MCMoves
  Delay <- MCDelay
  Dirty <- MCDirty
  MaxPrediction = 3
  Ring = 3
  SkipEvery = 2
  MaxFrames = 4
  MaxSkips = 1
  MaxSessions = 2
INVARIANTS TypeOK RollbackExact NoFaultLoop TargetSaved InputsKept Converged
PROPERTIES ImplementsLockStep BarrierLifts
CHECK_DEADLOCK FALSE
