\* The organizer takes his time between the command and Send.
SPECIFICATION Spec
CONSTANTS
  Guilds = {g1}
  Origins = {g1}
  Admins = {a1}
  Channels = {c1}
  None = None
  Organizers = {o1}
  TTL = 1
  MinDeadline = 1
  MaxDeadline = 2
  Durations = {0, 1, 2, 3}
  MaxMenus = 1
  MaxSelections = 1
  MaxClock = 2
INVARIANT
  DeadlineIsAhead
