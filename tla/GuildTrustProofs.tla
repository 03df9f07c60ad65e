---------------------------- MODULE GuildTrustProofs ----------------------------
(***************************************************************************)
(* Trust between guilds, for any number of them: types, grants on rows,    *)
(* and the installer that stays.                                           *)
(***************************************************************************)
EXTENDS GuildTrust, TLAPS

\* What the code guarantees of a guild's row whatever command writes it.
RowKept(old, new) ==
  /\ new \in {Unknown} \cup Rows
  /\ old.state # "none" =>
       /\ new.state # "none"
       /\ new.installer = old.installer

\* subscribeGuild makes a row active and moves its channel, nothing else.
LEMMA SubscribedEffect ==
  ASSUME NEW row \in {Unknown} \cup Rows, NEW admin \in Admins, NEW channel \in Channels
  PROVE  /\ Subscribed(row, admin, channel) \in Rows
         /\ RowKept(row, Subscribed(row, admin, channel))
         /\ Subscribed(row, admin, channel).state # "none"
<1>1. CASE row = Unknown
  BY <1>1 DEF Subscribed, RowKept, Unknown, Rows
<1>2. CASE row \in Rows
  BY <1>2 DEF Subscribed, RowKept, Rows
<1> QED BY <1>1, <1>2

\* Unsubscribing keeps the row and its installer.
LEMMA LeftEffect ==
  ASSUME NEW row \in {Unknown} \cup Rows, row.state = "active"
  PROVE  RowKept(row, [row EXCEPT !.state = "left"])
BY DEF RowKept, Unknown, Rows

\* One turn, as far as the rows and the grants go: no command takes a grant
\* back.
GuildStep ==
  /\ subscription' \in [Guilds -> {Unknown} \cup Rows]
  /\ \A g \in Guilds : RowKept(subscription[g], subscription'[g])
  /\ trusted' \subseteq Guilds \X Origins
  /\ trusted \subseteq trusted'
  /\ \A grant \in trusted' : grant \in trusted \/ subscription'[grant[1]].state # "none"

\* Subscribing keeps every row and leaves the guild one.
LEMMA SubscribeStep ==
  ASSUME GuildTypeOK, NEW g \in Guilds, NEW admin \in Admins, NEW channel \in Channels,
         Subscribe(g, admin, channel)
  PROVE  /\ subscription' \in [Guilds -> {Unknown} \cup Rows]
         /\ \A h \in Guilds : RowKept(subscription[h], subscription'[h])
         /\ subscription'[g].state # "none"
<1> DEFINE row == subscription[g]
           new == Subscribed(row, admin, channel)
<1>1. /\ row \in {Unknown} \cup Rows
      /\ subscription' = [subscription EXCEPT ![g] = new]
      /\ subscription \in [Guilds -> {Unknown} \cup Rows]
  BY DEF GuildTypeOK, Subscribe
<1>2. new \in Rows /\ RowKept(row, new) /\ new.state # "none"
  BY <1>1, SubscribedEffect
<1>3. \A h \in Guilds : RowKept(subscription[h], subscription[h])
  BY <1>1 DEF RowKept
<1> HIDE DEF new
<1> QED BY <1>1, <1>2, <1>3

\* The rows stay: every row is kept.
LEMMA SameRows ==
  ASSUME GuildTypeOK, UNCHANGED subscription
  PROVE  /\ subscription' \in [Guilds -> {Unknown} \cup Rows]
         /\ \A h \in Guilds : RowKept(subscription[h], subscription'[h])
BY DEF GuildTypeOK, RowKept

\* Every turn is a GuildStep and keeps the types.
LEMMA NextGuildStep ==
  ASSUME GuildTypeOK, [GuildNext]_guildVars
  PROVE  GuildStep /\ GuildTypeOK'
<1>1. ASSUME NEW g \in Guilds, EscapePodSetup(g)
      PROVE  GuildStep /\ GuildTypeOK'
  <2>1. PICK admin \in Admins, channel \in Channels : Subscribe(g, admin, channel)
    BY <1>1 DEF EscapePodSetup
  <2>2. /\ subscription' \in [Guilds -> {Unknown} \cup Rows]
        /\ \A h \in Guilds : RowKept(subscription[h], subscription'[h])
    BY <2>1, SubscribeStep
  <2>3. UNCHANGED <<trusted, pickers>>
    BY <1>1 DEF EscapePodSetup
  <2> QED BY <2>2, <2>3 DEF GuildStep, GuildTypeOK
<1>2. ASSUME NEW g \in Guilds, UnsubscribeGuild(g)
      PROVE  GuildStep /\ GuildTypeOK'
  <2> DEFINE new == [subscription[g] EXCEPT !.state = "left"]
  <2>1. /\ subscription[g] \in {Unknown} \cup Rows /\ subscription[g].state = "active"
        /\ subscription' = [subscription EXCEPT ![g] = new]
        /\ subscription \in [Guilds -> {Unknown} \cup Rows]
        /\ UNCHANGED <<trusted, pickers>>
    BY <1>2 DEF UnsubscribeGuild, Active, GuildTypeOK
  <2>2. RowKept(subscription[g], new)
    BY <2>1, LeftEffect
  <2>3. \A h \in Guilds : RowKept(subscription[h], subscription[h])
    BY <2>1 DEF RowKept
  <2>4. new \in {Unknown} \cup Rows
    BY <2>2 DEF RowKept
  <2> HIDE DEF new
  <2>5. /\ subscription' \in [Guilds -> {Unknown} \cup Rows]
        /\ \A h \in Guilds : RowKept(subscription[h], subscription'[h])
    BY <2>1, <2>2, <2>3, <2>4
  <2> QED BY <2>1, <2>5 DEF GuildStep, GuildTypeOK
<1>3. ASSUME NEW g \in Guilds, NEW origin \in Origins, AllowGuild(g, origin)
      PROVE  GuildStep /\ GuildTypeOK'
  <2>1. UNCHANGED subscription
    BY <1>3 DEF AllowGuild
  <2>2. /\ subscription' \in [Guilds -> {Unknown} \cup Rows]
        /\ \A h \in Guilds : RowKept(subscription[h], subscription'[h])
    BY <2>1, SameRows
  <2>3. CASE MayTrust(g) /\ trusted' = trusted \cup {<<g, origin>>} /\ UNCHANGED pickers
    BY <2>1, <2>2, <2>3 DEF GuildStep, GuildTypeOK, MayTrust
  <2>4. CASE pickers' = pickers \cup {<<g, origin>>} /\ UNCHANGED trusted
    BY <2>1, <2>2, <2>4 DEF GuildStep, GuildTypeOK
  <2> QED BY <1>3, <2>3, <2>4 DEF AllowGuild
<1>4. ASSUME NEW g \in Guilds, NEW origin \in Origins, SelectChannel(g, origin)
      PROVE  GuildStep /\ GuildTypeOK'
  <2>1. PICK admin \in Admins, channel \in Channels : Subscribe(g, admin, channel)
    BY <1>4 DEF SelectChannel
  <2>2. /\ subscription' \in [Guilds -> {Unknown} \cup Rows]
        /\ \A h \in Guilds : RowKept(subscription[h], subscription'[h])
        /\ subscription'[g].state # "none"
    BY <2>1, SubscribeStep
  <2>3. /\ pickers' = pickers \ {<<g, origin>>}
        /\ trusted' = trusted \cup {<<g, origin>>}
    BY <1>4 DEF SelectChannel
  <2> QED BY <2>2, <2>3 DEF GuildStep, GuildTypeOK
<1>5. ASSUME UNCHANGED guildVars
      PROVE  GuildStep /\ GuildTypeOK'
  BY <1>5, SameRows DEF GuildStep, GuildTypeOK, guildVars
<1> QED BY <1>1, <1>2, <1>3, <1>4, <1>5 DEF GuildNext

\* The invariant: a grant has a row, which rows being kept preserves.
LEMMA TrustPreserved ==
  ASSUME GuildTypeOK, TrustHasRow, GuildStep
  PROVE  TrustHasRow'
<1> SUFFICES ASSUME NEW grant \in trusted'
             PROVE  subscription'[grant[1]].state # "none"
  BY DEF TrustHasRow
<1>1. grant[1] \in Guilds
  BY DEF GuildStep
<1>2. CASE grant \in trusted
  BY <1>1, <1>2 DEF TrustHasRow, GuildStep, RowKept
<1>3. CASE subscription'[grant[1]].state # "none"
  BY <1>3
<1> QED BY <1>2, <1>3 DEF GuildStep

LEMMA GuildInitInvariant == GuildInit => GuildTypeOK /\ TrustHasRow
BY DEF GuildInit, GuildTypeOK, TrustHasRow

\* Every variable keeps its type.
THEOREM GuildTypeCorrect == GuildSpec => []GuildTypeOK
<1>1. GuildInit => GuildTypeOK
  BY GuildInitInvariant
<1>2. GuildTypeOK /\ [GuildNext]_guildVars => GuildTypeOK'
  BY NextGuildStep
<1> QED BY <1>1, <1>2, PTL DEF GuildSpec

\* A grant never stands on a guild without a row.
THEOREM GrantsHaveRows == GuildSpec => []TrustHasRow
<1>1. GuildInit => GuildTypeOK /\ TrustHasRow
  BY GuildInitInvariant
<1>2. GuildTypeOK /\ TrustHasRow /\ [GuildNext]_guildVars => (GuildTypeOK /\ TrustHasRow)'
  BY NextGuildStep, TrustPreserved
<1> QED BY <1>1, <1>2, PTL DEF GuildSpec

\* Who set a guild up first stays its installer.
THEOREM InstallerStays == GuildSpec => InstallerIsFirst
<1>1. GuildTypeOK /\ [GuildNext]_guildVars =>
        [\A g \in Guilds :
           subscription[g].state # "none" =>
             subscription'[g].installer = subscription[g].installer]_guildVars
  BY NextGuildStep DEF GuildStep, RowKept
<1> QED BY <1>1, GuildTypeCorrect, PTL DEF GuildSpec, InstallerIsFirst
=============================================================================
