SPECIFICATION MCSpec
CONSTANTS
  Parts = 88
  Reach = 2
  Spread = 0
  Sums <- MCSums
  Schemes = {}
  Exponents = {}
  Factors <- MCFactors
  Margin = 0
  BETA = 78
  GAMMA2 <- MCGAMMA2
  Ws <- MCWs
  Cs2 <- MCCs2
  Ct0 <- MCCt0
INVARIANTS
  DocumentedRange
CHECK_DEADLOCK FALSE
