\* Two rounds in one sweep, and the cron under fairness: nothing stays stuck.
SPECIFICATION FairSpec
CONSTANTS
  Rounds = {r1, r2}
  Players = {p1}
  Guilds = {g1}
  Ticks = {t1}
  NoGuild = NoGuild
  NoTick = NoTick
  NoRound = NoRound
  PodCapacity = 2
  Thresholds = {1}
  Leads <- SomeLeads
  RetryWindow = 1
  MaxDrafts = 2
PROPERTIES
  SweepsForgetNothing
  OverdueResolves
  StuckResolves
