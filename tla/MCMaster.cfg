SPECIFICATION Spec
CONSTANTS
  Servers = {s1, s2}
  Challenge = {1, 2, 3, 4}
  MaxServers = 2
  MaxPending = 1
  ServerTimeout = 2
  ValidationTimeout = 1
  MaxFaults = 2
  MaxLost = 2
INVARIANTS
  TypeOK
  NotRelisted
PROPERTIES
  EventuallyListed
  EventuallyRemoved
