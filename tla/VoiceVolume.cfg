SPECIFICATION Spec
CONSTANTS
  Notes <- OneNote
  Instruments <- LevelPatches
  EffectLevels = {0, 2}
  Slides = {1}
  LowWidth = 2
  LevelMax = 3
  First = TRUE
  Rest = 4
  Fades = FALSE
INVARIANTS
  VolumeFollows
