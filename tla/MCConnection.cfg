SPECIFICATION Spec
CONSTANTS
  Clients = {c1}
  NoClient = none
  MaxClients = 2
  MinClients = 2
  Challenges = {1}
  MaxSpawn = 2
  MaxInFlight = 2
  MaxWaiting = 2
INVARIANTS
  TypeOK
  OneSlotPerClient
  PlaysLoadedLevel
  SeatsAgree
  NotDroppedWhilePlaying
PROPERTIES
  EventuallyPlays
  EventuallyReclaimed
