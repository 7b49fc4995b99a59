SPECIFICATION Spec
CONSTRAINT OneOfTwo
CONSTANTS
  NChan = 6
  Opl2Chan = 5
  FourOpFirst = {0}
  DrumChan = 2
  Played <- MCPlayed
  FreqLo = {0, 1}
  FreqHi = {0, 1}
  C0Value <- MCC0Value
  BDValue <- MCBDValue
INVARIANTS
  TypeOK
  HandlersFit
  WalkStaysInBank
  DrumKeysFollowBD
PROPERTIES
  SoundFollowsC0
  PairStaysInStep
  NoStuckNote
