SPECIFICATION MCSpec
CONSTANTS
  MaxPending = 1
  Actor = {panel, pane, other}
  Struts = {panel}
  TrackFullscreen = {panel}
  CoverPane = pane
  Time = {0, 1, 2}
  Distance = {3, 5}
  PressureThreshold = 5
  PressureTimeout = 1
  MaxDistance = 2
  MaxHandlers = 3
  Icons = {icon}
  Thumbnails = {}
  Clones = {window}
  app1 = app1
  app2 = app2
  win = win
  dlg = dlg
  NoWindow = NoWindow
  Placeholder = Placeholder
  Target = Target
  NoDrop = NoDrop
  Unplaced = Unplaced
  NoDraggable = NoDraggable
INVARIANTS
  ShieldSound
  ChromeSound
  TrackerSound
PROPERTIES
  StepsAreSafe
CHECK_DEADLOCK FALSE
