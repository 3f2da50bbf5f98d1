SPECIFICATION RunSpec
CONSTANTS
  Capacity = 2
  MaxSequence = 4
  MaxEvents = 6
  MaxCancelFailures = 1
  NoPayload = NoPayload
  Subscription = {s1}
  Reader = {r1, r2}
  Event <- BusinessEvent
  MaxGeneration = 2
  CursorCapacity = 1
  CursorSequence = 3
  CursorEvents = 3
  NoReader = NoReader
CHECK_DEADLOCK FALSE
INVARIANTS
  FramesFaithful
  DisclosureKept
PROPERTIES
  CancelIsFinal
  SubscriptionEnds
  CancelWakes
