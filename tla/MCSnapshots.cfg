SPECIFICATION Spec
CONSTANTS
  PACKET_BACKUP = 6
  MAX_ENTITIES = 2
  MaxClients = 1
  MaxFrame = 7
  MaxChanges = 2
  MaxInFlight = 2
INVARIANTS TypeOK DecodesWhatWasBuilt NeverUndecodable
CHECK_DEADLOCK FALSE
