------------------------------ MODULE GuildTrust ------------------------------
(***************************************************************************)
(* Which guilds receive rounds and whom they trust (services/guilds.ts,    *)
(* services/organizers.ts and the commands over them).                     *)
(*                                                                         *)
(* Commands reach only storage between their first read and last write, so *)
(* each is one turn.  The admin of /allow-guild may be offered a channel   *)
(* picker, which he uses whenever he likes.                                *)
(***************************************************************************)
EXTENDS Integers, FiniteSets

CONSTANTS
  Guilds,
  Origins,      \* guilds whose ids admins paste and organizers start from
  Admins,       \* who may set a guild up
  Channels,     \* channels that may be picked in a guild
  None

ASSUME TrustAssumption == None \notin Admins \cup Channels

VARIABLES
  subscription, \* guild_subscriptions: the row of each guild
  trusted,      \* guild_origin_allowlist: pairs <<guild, allowed origin>>
  pickers       \* channel pickers on offer, pairs <<guild, origin>>

guildVars == <<subscription, trusted, pickers>>

Unknown == [state |-> "none", channel |-> None, installer |-> None]

Rows == [state : {"active", "left"}, channel : Channels, installer : Admins]

\* The guilds whose rows have unsubscribed_at NULL.
Active == {g \in Guilds : subscription[g].state = "active"}

\* findEligibleForOrigin: itself and whoever trusts it, while subscribed.
Eligible_AnyActive(origin) == Active
Eligible(origin) == {g \in Active : g = origin \/ <<g, origin>> \in trusted}

GuildInit ==
  /\ subscription = [g \in Guilds |-> Unknown]
  /\ trusted = {} /\ pickers = {}

-----------------------------------------------------------------------------

\* What subscribeGuild with a channel leaves in a row; without one it only
\* reads.
Subscribed_Reinstalls(row, admin, channel) ==
  [state |-> "active", channel |-> channel, installer |-> admin]
Subscribed_UpdatesOnly(row, admin, channel) ==
  [row EXCEPT !.state = "active", !.channel = channel]
Subscribed(row, admin, channel) ==
  IF row.state = "none"
  THEN [state |-> "active", channel |-> channel, installer |-> admin]
  ELSE [row EXCEPT !.state = "active", !.channel = channel]

Subscribe(g, admin, channel) ==
  subscription' = [subscription EXCEPT ![g] = Subscribed(@, admin, channel)]

\* /escape-pod-setup with a channel.
EscapePodSetup(g) ==
  /\ \E admin \in Admins, channel \in Channels : Subscribe(g, admin, channel)
  /\ UNCHANGED <<trusted, pickers>>

UnsubscribeGuild(g) ==
  /\ g \in Active
  /\ subscription' = [subscription EXCEPT ![g].state = "left"]
  /\ UNCHANGED <<trusted, pickers>>

\* allowGuild asks for a row, whatever its state (its comment: an active one).
MayTrust_Anyone(g) == TRUE
MayTrust(g) == subscription[g].state # "none"

\* /allow-guild writes the grant, or offers to set the guild up first.
AllowGuild(g, origin) ==
  /\ \/ /\ MayTrust(g)
        /\ trusted' = trusted \cup {<<g, origin>>}
        /\ UNCHANGED pickers
     \/ /\ ~MayTrust(g)
        /\ pickers' = pickers \cup {<<g, origin>>}
        /\ UNCHANGED trusted
  /\ UNCHANGED subscription

\* A channel is picked: subscribe, then trust, in one turn.
SelectChannel(g, origin) ==
  /\ <<g, origin>> \in pickers
  /\ pickers' = pickers \ {<<g, origin>>}
  /\ \E admin \in Admins, channel \in Channels : Subscribe(g, admin, channel)
  /\ trusted' = trusted \cup {<<g, origin>>}

GuildNext ==
  \/ \E g \in Guilds : EscapePodSetup(g) \/ UnsubscribeGuild(g)
  \/ \E g \in Guilds, origin \in Origins :
       AllowGuild(g, origin) \/ SelectChannel(g, origin)

GuildSpec == GuildInit /\ [][GuildNext]_guildVars

-----------------------------------------------------------------------------
(* Properties.                                                             *)

GuildTypeOK ==
  /\ subscription \in [Guilds -> {Unknown} \cup Rows]
  /\ trusted \subseteq Guilds \X Origins
  /\ pickers \subseteq Guilds \X Origins

\* A grant hangs on the row of the guild that made it, as the foreign key of
\* guild_origin_allowlist demands ("a raw SQLite FOREIGN KEY constraint
\* failure ... confirmed live in production", services/guilds.ts:145-149): no
\* interleaving of commands and pickers writes one without the other.  The
\* row may have left: the comment there says "active", the code takes any row.
TrustHasRow ==
  \A grant \in trusted : subscription[grant[1]].state # "none"

\* "installedByDiscordId is deliberately never part of this update": who set
\* a guild up first stays its installer through reconfiguration, leaving,
\* coming back and the channel picker.
InstallerIsFirst ==
  [][\A g \in Guilds :
       subscription[g].state # "none" =>
         subscription'[g].installer = subscription[g].installer]_guildVars
=============================================================================
