SPECIFICATION KernelSpec
CONSTANTS
  Tasks = {t1}
  Sessions = {s1}
  NoSession = NoSession
  MaxRounds = 2
  MaxEvents = 9
  MaxTools = 2
  EventKinds <- BridgeKinds
  MayFail = FALSE
  MayDelete = FALSE
  MayCrash = FALSE
INVARIANTS
  CallsAccounted
  AnnouncedRoundsStored
PROPERTIES
  ForwardedAsPublished
CHECK_DEADLOCK FALSE
