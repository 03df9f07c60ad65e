\* A retry and the first attempt, or two retries, call createDraft together.
SPECIFICATION Spec
CONSTANTS
  Rounds = {r1}
  Players = {p1, p2}
  Guilds = {g1}
  Ticks = {t1, t2}
  NoGuild = NoGuild
  NoTick = NoTick
  NoRound = NoRound
  PodCapacity = 2
  Thresholds = {2}
  Leads <- PastLeads
  RetryWindow = 2
  MaxDrafts = 2
INVARIANTS
  OneCreateInFlight
