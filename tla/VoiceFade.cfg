SPECIFICATION Spec
CONSTANTS
  Notes <- OneNote
  Instruments <- LevelPatches
  EffectLevels = {0, 2}
  Slides = {}
  LowWidth = 4
  LevelMax = 3
  First = FALSE
  Rest = 0
  Fades = TRUE
INVARIANTS
  FadeOutSilences
