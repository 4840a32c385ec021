SPECIFICATION Spec
CONSTANTS
  PACKET_BACKUP = 8
  MAX_ENTITIES = 2
  MaxClients = 2
  MaxFrame = 6
  MaxChanges = 1
  MaxInFlight = 1
INVARIANT DecodesWhatWasBuilt
CHECK_DEADLOCK FALSE
