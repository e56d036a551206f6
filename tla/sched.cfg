SPECIFICATION Spec
CONSTANTS
  MaxSlots = 2
  Half = 8
  MainClock = 3
  TimeSlice = 2
  Delays = {0, 3}
  SaveAt = {14}
INVARIANTS TypeOK RequestsKept NextIsSoonest JitterInRange
PROPERTIES PeriodicWithoutDrift ImplementsTimers
