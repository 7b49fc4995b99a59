SPECIFICATION Spec
CONSTANTS
  NChan = 6
  Opl2Chan = 5
  FourOpFirst = {0}
  DrumChan = 2
  Played <- MCPlayed
  FreqLo = {}
  FreqHi = {}
  C0Value <- MCC0Value
  BDValue <- MCBDValue
PROPERTIES
  ModeSwitchReachesAllChannels
