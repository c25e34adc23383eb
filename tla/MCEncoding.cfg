SPECIFICATION EncodingSpec
CONSTANTS
  K = 2
  N = 5
  OMEGA = 3
  PolyN = 16
INVARIANTS
  StaysInPositions
  Canonical
  PackingIsLossless
  LayoutsAgree
PROPERTIES
  RoundTrip
CHECK_DEADLOCK FALSE
