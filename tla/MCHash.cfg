SPECIFICATION MCSpec
CONSTANTS
  R = 3
  MaxMsg = 7
  MaxOut = 9
  CounterMax = 3
  BlockBits = 6
  WordBits = 7
  LenBytes = 4
  DigestLen = 4
  MaxText = 20
  MaxKey = 10
INVARIANTS
  RoomForPadding
  DigestsAreSM3
PROPERTIES
  ImplementsXOF
  LoopsAdvance
  IncImplementsXOF
