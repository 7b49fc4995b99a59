SPECIFICATION Spec
CONSTANTS
  Notes <- TwoNotes
  Instruments <- TunedPatches
  EffectLevels = {}
  Slides = {1}
  LowWidth = 4
  LevelMax = 1
  First = FALSE
  Rest = 0
  Fades = TRUE
INVARIANTS
  TypeOK
  HeardIsHeld
  HeardInTune
  NoteSounds
