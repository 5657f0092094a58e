SPECIFICATION MCSpec
CONSTANTS
  Client <- MCClient
  Sticky <- MCSticky
  MaxWorkspaces = 2
  Held = Held
  Null = Null
  c1 = c1
  c2 = c2
  Helper = {panel, icon, folder}
  Menu = {p1, p2, i1}
  Popup = {f1}
  HelperOf <- Helpers
  Other = {overview, box}
  Over <- Reach
  MaxModal = 4
  panel = panel
  icon = icon
  folder = folder
  p1 = p1
  p2 = p2
  i1 = i1
  f1 = f1
  overview = overview
  w1 = w1
  w2 = w2
  NoLayout = NoLayout
INVARIANT
  AssertsHold
CHECK_DEADLOCK FALSE
