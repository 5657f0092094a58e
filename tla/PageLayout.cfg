CONSTANTS
  Client = {c1, c2, c3}
  Notebook = {n1, n2, n3}
  Split = {s1, s2}
  MaxViewports = 2
  AutoRefocus = TRUE
  Null = Null
SYMMETRY Symmetry
SPECIFICATION Spec
INVARIANTS
  PointersAreSound
  OneView
  SelectedIsMostRecent
  FocusIsVisible
PROPERTIES
  TabsStayPut
  ImplementsModes
