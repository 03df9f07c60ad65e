------------------------------- MODULE RoundTail -------------------------------
(***************************************************************************)
(* The last stretch of a round's life: from the claim, through the chat    *)
(* channel and the draft, to the direct messages, the welcome in the chat, *)
(* and the channel's deletion once the round is concluded                  *)
(* (interactions/components.ts, jobs/*.ts, discord/podChat.ts,             *)
(* discord/dmSignups.ts, commands/concludePod.ts), with the guild's token  *)
(* carried along as each handler read it.                                  *)
(*                                                                         *)
(* One round whose roster is complete, started from the guild Origin.  How *)
(* the roster came about, quorum and the give-up are PodRounds' subject;   *)
(* so createChannel and createInvite are one request here.                 *)
(***************************************************************************)
EXTENDS GuildTokens

CONSTANTS
  Origin,     \* origin_guild_id
  Players,    \* the players signed up
  Press,      \* the button press that fills the table
  Ticks,      \* cron invocations that may overlap
  Chat, None, \* the id of the chat channel, and its absence
  MaxDrafts   \* bound on the drafts Niamos accepts

ASSUME TailAssumption ==
  /\ Origin \in Guilds
  /\ Press \notin Ticks /\ Chat \notin Players \cup {None}
  /\ MaxDrafts \in Nat

VARIABLES
  status,         \* pod_rounds.status
  chatChannelId,  \* chat_channel_id
  shareId,        \* ptp_pod_share_id, as the draft it names; 0 is NULL
  task,           \* what the press and each tick's sweep are doing
  channel,        \* what has become of the chat channel in Discord
  madeWith,       \* the token each draft was made with
  sending,        \* DMs and welcomes in flight
  settled,        \* those that were delivered or refused
  deletes,        \* deleteChannel requests in flight
  past            \* for checking: what has happened to this round

roundVars == <<status, chatChannelId, shareId>>
mailVars  == <<sending, settled>>
tailVars  == <<roundVars, task, channel, madeWith, mailVars, deletes, past>>
vars      == <<tokenVars, tailVars>>

Workers == {Press} \cup Ticks

\* held: a candidate in a sweep's list, behind other rounds.  made: the
\* request has been served but not answered.  told: a sweep has the draft and
\* still has other rounds to work through and messages to edit.
Task == [phase : {"idle", "held", "chat", "chatMade", "draft", "told"},
         kind  : {"fire", "retry"},  \* a claim and its attempt, or another
         token : 0..MaxPastes,
         chat  : {Chat, None},       \* the channel it can name
         draft : 0..MaxDrafts]

Idle == [phase |-> "idle", kind |-> "fire", token |-> 0, chat |-> None, draft |-> 0]

Message == [to : Players \cup {Chat}, draft : 1..MaxDrafts]

TailInit ==
  /\ status = "COLLECTING" /\ chatChannelId = None /\ shareId = 0
  /\ task = [w \in Workers |-> Idle]
  /\ channel = "none" /\ madeWith = <<>>
  /\ sending = {} /\ settled = {} /\ deletes = 0
  /\ past = {}

Init == TokenInit /\ TailInit

Busy(w) == task[w].phase # "idle"

\* w has asked for a draft, or will whatever becomes of the row.
Attempting(w) == Busy(w) /\ (task[w].kind = "retry" \/ task[w].phase # "held")

-----------------------------------------------------------------------------
(* The press and the sweeps, up to their first request.                    *)

\* The press that fills the table claims the round and starts firing it.
RecordSignup ==
  /\ status = "COLLECTING" /\ ~Busy(Press)
  /\ status' = "THRESHOLD_REACHED"
  /\ task' = [task EXCEPT ![Press] =
                [Idle EXCEPT !.phase = "chat", !.token = GuildToken(Origin)]]
  /\ UNCHANGED <<tokenVars, chatChannelId, shareId, channel, madeWith,
                 mailVars, deletes, past>>

\* findStuckThresholdReachedRounds.
Stuck_AnyFired == status \in {"THRESHOLD_REACHED", "POD_CREATED"}
Stuck == status = "THRESHOLD_REACHED"

\* One of a tick's two sweeps reads the round, and the token with it.
RunScheduledJob(t) ==
  /\ ~Busy(t)
  /\ status = "COLLECTING" \/ Stuck
  /\ task' = [task EXCEPT ![t] =
                [Idle EXCEPT !.phase = "held", !.kind = IF Stuck THEN "retry" ELSE "fire",
                             !.token = GuildToken(Origin),
                             !.chat = chatChannelId]]
  /\ past' = past \cup (IF Stuck /\ \E w \in Workers : Attempting(w)
                        THEN {"overlap"} ELSE {})
  /\ UNCHANGED <<tokenVars, roundVars, channel, madeWith, mailVars, deletes>>

\* The attempt is over without a draft; seen is what has happened so far.
Fails(w, seen) ==
  /\ task' = [task EXCEPT ![w] = Idle]
  /\ past' = seen \cup (IF task[w].kind = "fire" THEN {"firing failed"} ELSE {})

HasToken_Assumed(w) == TRUE
HasToken(w) == task[w].token # 0

\* attemptPodCreation up to its request, which needs a token that decrypts.
AttemptPodCreation(w, chat, seen) ==
  \/ /\ HasToken(w)
     /\ task' = [task EXCEPT ![w].phase = "draft", ![w].chat = chat]
     /\ past' = seen
  \/ Fails(w, seen)

\* The sweep comes to the round: the claim is tried, or the retry made
\* without looking at the row again.
SweepReaches(t) ==
  /\ task[t].phase = "held"
  /\ \/ /\ task[t].kind = "retry"
        /\ AttemptPodCreation(t, task[t].chat, past)
        /\ UNCHANGED status
     \/ /\ task[t].kind = "fire" /\ status = "COLLECTING"
        /\ status' = "THRESHOLD_REACHED"
        /\ task' = [task EXCEPT ![t].phase = "chat"]
        /\ UNCHANGED past
     \/ /\ task[t].kind = "fire" /\ status # "COLLECTING"
        /\ task' = [task EXCEPT ![t] = Idle]
        /\ UNCHANGED <<status, past>>
  /\ UNCHANGED <<tokenVars, chatChannelId, shareId, channel, madeWith,
                 mailVars, deletes>>

CancelPod ==
  /\ status \in {"COLLECTING", "THRESHOLD_REACHED"}
  /\ status' = "CANCELLED"
  /\ UNCHANGED <<tokenVars, chatChannelId, shareId, task, channel, madeWith,
                 mailVars, deletes, past>>

\* /conclude-pod: the channel the row knows of is to be deleted, once the
\* messages have been edited.
ConcludePod ==
  /\ status = "POD_CREATED"
  /\ status' = "CONCLUDED"
  /\ deletes' = deletes + (IF chatChannelId = None THEN 0 ELSE 1)
  /\ UNCHANGED <<tokenVars, chatChannelId, shareId, task, channel, madeWith,
                 mailVars, past>>

-----------------------------------------------------------------------------
(* Discord and Niamos, and their answers.                                  *)

DiscordCreatesChannel(w) ==
  /\ task[w].phase = "chat"
  /\ task' = [task EXCEPT ![w].phase = "chatMade"]
  /\ channel' = "open"
  /\ UNCHANGED <<tokenVars, roundVars, madeWith, mailVars, deletes, past>>

\* createPodChatSpace ends, with a channel or, after any error, without.
ChatAnswered(w) ==
  /\ \/ /\ task[w].phase = "chatMade"
        /\ AttemptPodCreation(w, Chat, past)
     \/ /\ task[w].phase \in {"chat", "chatMade"}
        /\ AttemptPodCreation(w, None, past \cup {"firing failed"})
  /\ UNCHANGED <<tokenVars, roundVars, channel, madeWith, mailVars, deletes>>

NiamosCreatesDraft(w) ==
  /\ task[w].phase = "draft" /\ task[w].draft = 0
  /\ Len(madeWith) < MaxDrafts
  /\ madeWith' = Append(madeWith, task[w].token)
  /\ task' = [task EXCEPT ![w].draft = Len(madeWith) + 1]
  /\ UNCHANGED <<tokenVars, roundVars, channel, mailVars, deletes, past>>

\* markPodCreated leaves chat_channel_id alone when it is given none.
MarkPodCreated_SetsNull(draft, chat) ==
  /\ status' = "POD_CREATED" /\ shareId' = draft
  /\ chatChannelId' = chat
MarkPodCreated(draft, chat) ==
  /\ status' = "POD_CREATED" /\ shareId' = draft
  /\ chatChannelId' = IF chat = None THEN chatChannelId ELSE chat

\* Everybody who is told of w's draft: all players, and the chat if the
\* attempt can name its channel.
KnownChat_FromRow(w) == {chatChannelId, task[w].chat} \ {None}
KnownChat(w) == {task[w].chat} \ {None}

Mail(w) == [to : Players \cup KnownChat(w), draft : {task[w].draft}]

\* createDraft answers.  A press tells the players at once, a sweep when it
\* is through.
DraftAnswered(w) ==
  /\ task[w].phase = "draft"
  /\ \/ /\ task[w].draft # 0
        /\ MarkPodCreated(task[w].draft, task[w].chat)
        /\ \/ /\ w = Press
              /\ task' = [task EXCEPT ![w] = Idle]
              /\ sending' = sending \cup Mail(w)
           \/ /\ w # Press
              /\ task' = [task EXCEPT ![w].phase = "told"]
              /\ UNCHANGED sending
        /\ UNCHANGED past
     \/ /\ Fails(w, past)
        /\ UNCHANGED <<roundVars, sending>>
  /\ UNCHANGED <<tokenVars, channel, madeWith, settled, deletes>>

\* The sweep's job has edited the round's messages and turns to its players.
SweepReports(t) ==
  /\ task[t].phase = "told"
  /\ sending' = sending \cup Mail(t)
  /\ task' = [task EXCEPT ![t] = Idle]
  /\ UNCHANGED <<tokenVars, roundVars, channel, madeWith, settled, deletes, past>>

\* What is still on its way after m was delivered, or refused.
Left_StopsAtRefusal(m, delivered) == IF delivered THEN sending \ {m} ELSE {}
Left(m, delivered) == sending \ {m}

MailSettles(m) ==
  /\ \E delivered \in BOOLEAN : sending' = Left(m, delivered)
  /\ settled' = settled \cup {m}
  /\ UNCHANGED <<tokenVars, roundVars, task, channel, madeWith, deletes, past>>

\* deleteChannel works, or fails for good.
DeleteAnswered ==
  /\ deletes > 0
  /\ deletes' = deletes - 1
  /\ \/ /\ channel' = "deleted"
        /\ UNCHANGED past
     \/ /\ past' = past \cup {"delete failed"}
        /\ UNCHANGED channel
  /\ UNCHANGED <<tokenVars, roundVars, task, madeWith, mailVars>>

\* An eviction drops every continuation; requests may have been served.
Evict ==
  /\ PastesLost
  /\ task' = [w \in Workers |-> Idle]
  /\ sending' = {} /\ settled' = settled \cup sending
  /\ deletes' = 0
  /\ channel' \in {channel} \cup (IF deletes > 0 THEN {"deleted"} ELSE {})
  /\ past' = past \cup {"evicted"}
  /\ UNCHANGED <<roundVars, madeWith>>

LinkNext ==
  /\ \/ \E g \in Guilds : SubmitToken(g)
     \/ \E n \in DOMAIN pastes : NiamosAccepts(n) \/ WhoamiAnswered(n)
  /\ UNCHANGED tailVars

Next ==
  \/ LinkNext
  \/ RecordSignup \/ CancelPod \/ ConcludePod
  \/ \E t \in Ticks : RunScheduledJob(t) \/ SweepReaches(t) \/ SweepReports(t)
  \/ \E w \in Workers : \/ DiscordCreatesChannel(w) \/ ChatAnswered(w)
                        \/ NiamosCreatesDraft(w) \/ DraftAnswered(w)
  \/ \E m \in sending : MailSettles(m)
  \/ DeleteAnswered
  \/ Evict

Spec == Init /\ [][Next]_vars

-----------------------------------------------------------------------------
(* Properties.                                                             *)

TypeOK ==
  /\ TokenTypeOK
  /\ status \in {"COLLECTING", "THRESHOLD_REACHED", "POD_CREATED", "CANCELLED", "CONCLUDED"}
  /\ chatChannelId \in {Chat, None} /\ shareId \in 0..MaxDrafts
  /\ task \in [Workers -> Task]
  /\ channel \in {"none", "open", "deleted"}
  /\ madeWith \in Seq(1..MaxPastes) /\ Len(madeWith) <= MaxDrafts
  /\ sending \subseteq Message /\ settled \subseteq Message
  /\ deletes \in Nat
  /\ past \subseteq {"overlap", "firing failed", "delete failed", "evicted"}

\* Nothing is under way for the round.
Quiet ==
  /\ \A w \in Workers : ~Busy(w)
  /\ sending = {} /\ deletes = 0

Sent == sending \cup settled

\* Whatever was linked, relinked or rejected while the round waited and
\* fired, each of its drafts is made under a token that Niamos accepted for
\* its own origin guild.
DraftsUseGuildToken ==
  \A d \in DOMAIN madeWith : madeWith[d] \in Linked(Origin)

\* A concluded round leaves its temporary channel behind only if the attempt
\* that made the channel failed, its deletion failed, or an eviction cut one
\* of them short; a retry that makes the draft in between does no harm
\* (storage/appSqlStorage.ts:308-329).
ChatsAreCleanedUp ==
  status = "CONCLUDED" /\ Quiet /\ channel = "open" =>
    past \cap {"firing failed", "delete failed", "evicted"} # {}

\* The chat is welcomed once: "this is its first and only chance to go out"
\* (jobs/retryFailedFires.ts:83-84), however many attempts succeed.
OneWelcome == \A m, n \in Sent : m.to = Chat /\ n.to = Chat => m = n

\* Only a retry that overlaps another attempt can send players to different
\* drafts: failures, retries, cancellations and evictions alone never do.
PlayersMeetInOneDraft ==
  "overlap" \notin past => \A m, n \in Sent : m.draft = n.draft

\* A round that has a draft is quiet only once Discord has taken or refused a
\* direct message for each of its players, unless an eviction came between;
\* "never allowed to affect any other recipient" (discord/dmSignups.ts:10-11).
EveryoneIsTold ==
  Quiet /\ shareId # 0 /\ "evicted" \notin past =>
    \A p \in Players : \E m \in settled : m.to = p

\* The round's own work, as in PodRounds: an attempt from its claim, and a
\* retry from where the row is read, to the answer they wait for.
Work ==
  INSTANCE RoundWork
    WITH notified <- FALSE,
         firing   <- \E w \in Workers :
                       /\ task[w].kind = "fire"
                       /\ task[w].phase \in {"chat", "chatMade", "draft"},
         trying   <- {t \in Ticks : /\ task[t].kind = "retry"
                                    /\ task[t].phase \in {"held", "draft"}},
         quitting <- {}

\* Channel, draft and mail aside, the round does no more than PodRounds shows.
RefinesRoundWork == Work!Spec
=============================================================================
