SPECIFICATION MCSpec
CONSTANTS
  a1 = a1
  a2 = a2
  a3 = a3
  w1 = w1
  w2 = w2
  e1 = e1
  e2 = e2
  e3 = e3
  Actor = {a1, a2, a3}
  Widget = {w1, w2}
  NORMAL = NORMAL
  Null = Null
  overview = a1
  Other = {a2}
  RefuseCtrlClick = FALSE
SYMMETRY Symmetry
INVARIANTS
  StackSound
  PagesSound
  ExtensionsSound
  InputSourcesSound
PROPERTIES
  ImplementsService
CHECK_DEADLOCK FALSE
