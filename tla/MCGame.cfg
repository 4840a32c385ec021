SPECIFICATION Spec
CONSTANTS
  Clients = {c1, c2, b1}
  Bots = {b1}
  Teams = {red, blue}
  NoTeam = none
  Nobody = nobody
  Threshold = 50
  CaptureLimit = 2
  Candidates = 2
  AutoJoin = TRUE
  Backlog = FALSE
  CarriersAtChange = FALSE
CHECK_DEADLOCK FALSE
SYMMETRY Symmetry
INVARIANTS
  TypeOK
  OneFlagEach
  CarrierPlays
  VotesOfPresent
  LevelEndsOnce
