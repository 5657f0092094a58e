SPECIFICATION MCSpec
CONSTANTS
  SplitWidth = 1
  MinLength = 4
  EmptyLength = 1
  Kinds <- VerticalOnly
  Areas <- GrowingAreas
  CanShrink = FALSE
  MaxNotebooks = 4
  Pointer = {1, 10, 19}
  main = main
  dialog = dialog
  NoWindow = NoWindow
INVARIANTS
  EffectsSound
PROPERTIES
  EverythingEnds
CHECK_DEADLOCK FALSE
