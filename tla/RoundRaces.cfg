\* Two rounds and two overlapping ticks: what a sweep has read of one round
\* changes while it waits for the other.
SPECIFICATION Spec
CONSTANTS
  Rounds = {r1, r2}
  Players = {p1, p2}
  Guilds = {g1}
  Ticks = {t1, t2}
  NoGuild = NoGuild
  NoTick = NoTick
  NoRound = NoRound
  PodCapacity = 2
  Thresholds = {1}
  Leads <- PastLeads
  RetryWindow = 1
  MaxDrafts = 1
SYMMETRY Symmetry
INVARIANTS
  TypeOK
  RosterFitsPod
  OneChatPerRound
  ChatAdmitsRoster
  FiredWithEnough
  ExpiredIsClean
  ShareLinkIsReal
  GivesUpOnlyAfterWindow
  RetryKnowsNoChat
PROPERTIES
  RefinesLifecycle
  RefinesRoundWork
