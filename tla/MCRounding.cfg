SPECIFICATION MCSpec
CONSTANTS
  Parts = 88
  Reach = 2
  Spread = 0
  Sums <- MCSums
  Schemes = {"kyber", "aigis_enc", "ml_dsa"}
  Exponents = {0, 1, 2, 3, 5, 17, 64, 85, 127, 128, 129, 200, 254, 255}
  Factors <- MCFactors
  Margin = 1
  BETA = 78
  GAMMA2 <- MCGAMMA2
  Ws <- MCWs
  Cs2 <- MCCs2
  Ct0 <- MCCt0
INVARIANTS
  DecomposeExact
  HintRecovers
  HintIsExact
  HighBitsKept
  KeyCoefficients
  CoefficientsFit
  DomainMultiplies
  BitSurvives
  VerifierRecovers
CHECK_DEADLOCK FALSE
