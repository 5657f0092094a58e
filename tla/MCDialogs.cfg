SPECIFICATION MCSpec
CONSTANTS
  MaxOpen = 2
  MaxWait = 1
  Item = {"a", "b", "d"}
  Separator = {"p", "q"}
  SubMenu = {"s", "t"}
  Section = {"sec"}
  top = "top"
  Contents <- Filling
  Hides = {"a"}
  Fades = {"s"}
  Spare = {"q"}
  Moves = {"q"}
  Dies = {"b", "s"}
  None = None
INVARIANTS
  DialogSound
  MenuSound
PROPERTIES
  CountdownEnds
  SeparatorsPart
CHECK_DEADLOCK FALSE
