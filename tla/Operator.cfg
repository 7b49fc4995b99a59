SPECIFICATION FairSpec
CONSTANTS
  RateUnit <- MCRateUnit
  attackRates <- MCattackRates
  linearRates <- MClinearRates
  Reg20 <- MCReg20
  Reg40 <- MCReg40
  Reg60 <- MCReg60
  Reg80 <- MCReg80
  ChanData <- MCData
CONSTRAINT OneOfTwo
INVARIANTS
  TypeOK
  RatesCoherent
  SoundCoherent
PROPERTIES
  SkipKeepsEnvelope
  EnvelopeContract
  ReleaseEnds
  AttackEnds
