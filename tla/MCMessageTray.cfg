SPECIFICATION MCSpec
CONSTANTS
  Source = {s1, s2}
  Notification = {n1, n2, n3}
  n1 = n1
  n2 = n2
  n3 = n3
  s1 = s1
  s2 = s2
  dev = dev
  wired = wired
  vpn1 = vpn1
  near = near
  hid = hid
  home = home
  cafe = cafe
  app1 = app1
  app2 = app2
  i = i
  j = j
  SourceOf <- OneOfEach
  Transient = {n1}
  Resident = {n2}
  Feedback = {n3}
  Chat = {s2}
  Urgency <- Urgencies
  MAX_NOTIFICATIONS_IN_QUEUE = 2
  MAX_NOTIFICATIONS_PER_SOURCE = 1
  MaxTold = 3
  None = None
INVARIANTS
  TraySound
  NetworkSound
  GtkSound
PROPERTY
  BannerGoes
