\* A press that comes too late rewrites the message that told the end.
SPECIFICATION Spec
CONSTANTS
  Guilds = {g1}
  Ticks = {t1}
  PodCapacity = 2
  Threshold = 1
  MaxPresses = 2
  MaxDrafts = 1
  NoGuild = NoGuild
  Sweep = Sweep
PROPERTY
  EndingStays
