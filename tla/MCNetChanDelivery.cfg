SPECIFICATION DeliverySpec
CONSTANTS
  MaxSequence <- Sequence
  MaxReliable <- Reliable
  MaxLosses = 2
  Window = 1
  MaxLead = 1
  LastWrite = 2
PROPERTIES EventuallyDelivered
CHECK_DEADLOCK FALSE
