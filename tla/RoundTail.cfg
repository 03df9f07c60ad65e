\* Two overlapping ticks and the press, a relinked token, two drafts.
SPECIFICATION Spec
CONSTANTS
  Guilds = {g1, g2}
  MaxPastes = 2
  Origin = g1
  Players = {p1, p2}
  Press = Press
  Ticks = {t1, t2}
  Chat = Chat
  None = None
  MaxDrafts = 2
SYMMETRY Symmetry
INVARIANTS
  TypeOK
  RowIsVerified
  NoOlderTokenReturns
  DraftsUseGuildToken
  ChatsAreCleanedUp
  OneWelcome
  PlayersMeetInOneDraft
  EveryoneIsTold
