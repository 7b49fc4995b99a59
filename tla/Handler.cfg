SPECIFICATION HandlerFairSpec
CONSTRAINT OneOfTwo
CONSTANTS
  NChan = 18
  Opl2Chan = 9
  DrumChan = 6
  FourOpFirst <- MCFourOpFirst
  Played <- Chan
  FreqLo <- MCFreqLo
  FreqHi <- MCFreqHi
  C0Value <- MCC0Value
  BDValue <- MCBDValue
  LfoMax = 5
  lfoAdd = 3
  VibratoTable <- MCVibratoTable
  TremoloHalf = 2
  NoiseUnit = 2
  NoiseWrap = 4
  NoiseTop = 2
  Taps = {1, 2}
  MaxSamples = 3
  BufLen = 12
  OutChannels = 2
  Requests = {1, 4}
  PortWrites <- MCPortWrites
INVARIANTS
  HandlerTypeOK
  SetupResets
  NoiseNeverDies
  RegistersMeet
  SamplesWhole
PROPERTIES
  LfoContract
  BlockEnds
