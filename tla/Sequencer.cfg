SPECIFICATION FairSpec
CONSTANTS
  Channels = 2
  Rows = 3
  Length = 3
  MaxSpeed = 3
  FadeMax = 2
  Drums = {0, 1}
  Jumps <- MCJumps
INVARIANTS
  TypeOK
  ClockInSong
  FadesExclusive
  DrumsReachChip
PROPERTIES
  PlaysOn
  FadeOutEnds
