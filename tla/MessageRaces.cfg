\* Two target guilds, two presses, one draft; edits fail and overtake one another.
SPECIFICATION Spec
CONSTANTS
  Guilds = {g1, g2}
  Ticks = {t1}
  PodCapacity = 2
  Threshold = 1
  MaxPresses = 2
  MaxDrafts = 1
  NoGuild = NoGuild
  Sweep = Sweep
SYMMETRY Symmetry
INVARIANTS
  TypeOK
  MessagesAreTrue
  FullTableIsClaimed
  UpdatesReachEveryone
