\* Two guilds that join, leave, move and trust while an organizer sends.
SPECIFICATION Spec
CONSTANTS
  Guilds = {g1, g2}
  Origins = {g1}
  Admins = {a1, a2}
  Channels = {c1, c2}
  None = None
  Organizers = {o1}
  TTL = 0
  MinDeadline = 1
  MaxDeadline = 1
  Durations = {None}
  MaxMenus = 1
  MaxSelections = 2
  MaxClock = 1
SYMMETRY Symmetry
INVARIANTS
  TypeOK
  TrustHasRow
  TargetsTrustOrigin
  NoStaleSelection
  OneRoundPerSelection
  NumbersAreDistinct
PROPERTIES
  InstallerIsFirst
  TargetsAreCurrent
