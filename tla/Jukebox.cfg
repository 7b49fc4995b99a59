SPECIFICATION Spec
CONSTANTS
  LastSong <- MCLastSong
  Writes <- MCWrites
CHECK_DEADLOCK FALSE
INVARIANTS
  TypeOK
  VectorHandedOver
  PairsWhole
  StopReleasesChannels
