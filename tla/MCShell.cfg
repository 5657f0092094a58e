SPECIFICATION MCSpec
CONSTANTS
  a1 = a1
  a2 = a2
  f1 = f1
  f2 = f2
  NoWeeks = NoWeeks
  overview = overview
  Other = {a1, a2}
  RefuseCtrlClick = FALSE
INVARIANTS
  OverviewSound
  AppsSound
  SearchSound
  SwitcherSound
  ListsSound
PROPERTIES
  InputFollows
  AllEnd
CHECK_DEADLOCK FALSE
