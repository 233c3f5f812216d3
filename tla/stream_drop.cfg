SPECIFICATION Spec
CONSTANTS
  Slots <- TwoSlots
  Time <- LateEvent
  Delays <- OneDelay
  QueueSize = 2
  MaxEvents = 3
  MaxReplaced = 1
CHECK_DEADLOCK FALSE
INVARIANT NothingMissedWhileConnected
