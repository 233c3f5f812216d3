SPECIFICATION ViewSpec
CONSTANTS
  Slots <- TwoSlots
  MaxLoads = 2
  Time <- LateEvent
  Delays <- BothDelays
  QueueSize = 1
  History = 2
  MaxEvents = 3
  MaxReplaced = 1
  MaxWithPanel = 3
CHECK_DEADLOCK FALSE
INVARIANT ViewTypeOK
INVARIANT DeliveredOnce
INVARIANT NothingMissedWhileSubscribed
INVARIANT PanelIsExact
PROPERTY TakenIsDelivered
PROPERTY Reconnects
