SPECIFICATION Spec
CONSTANTS
  MaxSequence <- Sequence
  MaxReliable <- Reliable
INVARIANTS TypeOK InOrderExactlyOnce FreedOnlyWhenDelivered NoSpuriousRetransmit
PROPERTY StreamSpec
CHECK_DEADLOCK FALSE
