SPECIFICATION PacketsSpec
CONSTANTS
  MaxLogins = 2
  MaxPackets = 7
  MaxProcessed = 1
INVARIANTS
  ForItsPlayer
PROPERTIES
  InOrder
  NoneStuck
CHECK_DEADLOCK FALSE
