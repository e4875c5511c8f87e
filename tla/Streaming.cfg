SPECIFICATION FairSpec
CHECK_DEADLOCK FALSE
CONSTANTS
  c1 = c1
  Processor = processor
  Clients = {c1}
  ClientDistrict <- MCClientDistrict
  Sources = {"rate", "stock"}
  EventDistrict <- MCEventDistrict
  NoDistrict = none
  CriticalSources = {"rate"}
  MaxEvents = 2
  MaxBroadcasts = 2
  MaxMessages = 3
  Broadcast <- MCBroadcast
  Faults = {"redis", "process", "snapshot", "subscribe", "timeout"}
INVARIANTS TypeOK SignalsAreStored BusyMeansSending TableIsLive
PROPERTY CriticalInOrder UnlistedLeave
