------------------------------ MODULE PodRounds ------------------------------
(***************************************************************************)
(* The life of a draft-pod round in the Durable Object: signups, firing,   *)
(* cancelling, concluding, and the two background sweeps of the minute     *)
(* cron (services/pods.ts over storage/appSqlStorage.ts, started by        *)
(* durableObject.ts, jobs/*.ts and interactions/components.ts).            *)
(*                                                                         *)
(* One action is one turn of the single-threaded object: everything        *)
(* between the completion of one network request and the issue of the      *)
(* next.  SQLite calls are synchronous, so a turn is atomic and other      *)
(* handlers run only while a request to Discord or Niamos is in flight.    *)
(*                                                                         *)
(* Operators named X_Variant are faulty variants of X, a mistake the code  *)
(* could contain; nothing uses them but the checks that a property fails   *)
(* when X is wrong.                                                        *)
(***************************************************************************)
EXTENDS Integers, FiniteSets

CONSTANTS
  Rounds,       \* rows of pod_rounds
  Players,      \* Discord users who may sign up
  Guilds,       \* guilds a round may be started from
  NoGuild,      \* origin_guild_id IS NULL
  Ticks,        \* cron invocations that may overlap: bounds the overlap
  NoTick, NoRound,
  PodCapacity,  \* POD_CAPACITY
  Thresholds,   \* minimum signups an organizer may ask for
  Leads,        \* time left to the deadline when the row is created
  RetryWindow,  \* RETRY_WINDOW_MS, in clock steps
  MaxDrafts     \* bound on the drafts Niamos accepts for one round

NoDeadline == -1

ASSUME CapacityAssumption == PodCapacity \in Nat \ {0}
ASSUME PlayersAssumption == IsFiniteSet(Players)
ASSUME ThresholdsAssumption == Thresholds \subseteq 1..PodCapacity
ASSUME LeadsAssumption == Leads \subseteq Nat \cup {NoDeadline}
ASSUME WindowAssumption == RetryWindow \in Nat \ {0}
ASSUME MaxDraftsAssumption == MaxDrafts \in Nat
ASSUME SentinelAssumption ==
  NoGuild \notin Guilds /\ NoTick \notin Ticks /\ NoRound \notin Rounds

VARIABLES
  status,        \* pod_rounds.status, "NONE" before the row exists
  threshold,     \* pod_rounds.threshold
  dueIn,         \* scheduled_for, as the time left to it while COLLECTING
  origin,        \* pod_rounds.origin_guild_id
  chatChannelId, \* chat_channel_id IS NOT NULL
  shareId,       \* ptp_pod_share_id, as the draft it names; 0 is NULL
  stuckFor,      \* time since threshold_reached_at while THRESHOLD_REACHED
  notified,      \* fire_failure_notified
  signedUp,      \* pod_round_signups with status 'IN'
  linked,        \* guilds with a row in guild_niamos_tokens
  fire,          \* fireRound's continuation after its claim, per round
  expire,        \* the rest of a tick's expireOverdueRounds loop
  retry,         \* a tick's retryFailedFires loop and its createDraft call
  channels,      \* chat channels Discord has created for the round
  members,       \* players among those the last of them admits
  drafts         \* drafts Niamos has created for the round

rowVars  == <<threshold, origin>>
timeVars == <<dueIn, stuckFor>>
chatVars == <<channels, members>>
vars == <<status, rowVars, timeVars, chatChannelId, shareId, notified,
          signedUp, linked, fire, expire, retry, chatVars, drafts>>

\* What the CHECK of the column accepts, and no row.
Statuses_NoConcluded == {"NONE", "COLLECTING", "THRESHOLD_REACHED",
                         "POD_CREATED", "CANCELLED", "EXPIRED"}
Statuses == {"NONE", "COLLECTING", "THRESHOLD_REACHED", "POD_CREATED",
             "CANCELLED", "EXPIRED", "CONCLUDED"}

\* What fireRound carries across its awaits: who awaits it (the tick whose
\* sweep claimed the round, NoTick for a signup), whether the row it was
\* given had a token, whether the hook returned a channel, the roster read
\* after the claim, and the draft Niamos made for the call in flight.
FireTask == [phase  : {"idle", "channel", "channelMade", "invite", "draft"},
             owner  : Ticks \cup {NoTick},
             token  : BOOLEAN,
             chat   : BOOLEAN,
             roster : SUBSET Players,
             draft  : 0..MaxDrafts]

NoFire == [phase |-> "idle", owner |-> NoTick, token |-> FALSE,
           chat |-> FALSE, roster |-> {}, draft |-> 0]

\* The candidates not visited yet and those read with a token.
ExpireTask == [queue : SUBSET Rounds, tokens : SUBSET Rounds]

NoExpire == [queue |-> {}, tokens |-> {}]

\* Candidates still to be retried or given up, those read with a chat
\* channel, the round whose createDraft is in flight, and the draft Niamos
\* made for it.
RetryTask == [try : SUBSET Rounds, quit : SUBSET Rounds,
              chats : SUBSET Rounds, cur : Rounds \cup {NoRound},
              draft : 0..MaxDrafts]

NoRetry == [try |-> {}, quit |-> {}, chats |-> {}, cur |-> NoRound,
            draft |-> 0]

Init ==
  /\ status = [r \in Rounds |-> "NONE"]
  /\ threshold = [r \in Rounds |-> PodCapacity]
  /\ dueIn = [r \in Rounds |-> NoDeadline]
  /\ origin = [r \in Rounds |-> NoGuild]
  /\ chatChannelId = [r \in Rounds |-> FALSE]
  /\ shareId = [r \in Rounds |-> 0]
  /\ stuckFor = [r \in Rounds |-> 0]
  /\ notified = [r \in Rounds |-> FALSE]
  /\ signedUp = [r \in Rounds |-> {}]
  /\ linked = {}
  /\ fire = [r \in Rounds |-> NoFire]
  /\ expire = [t \in Ticks |-> NoExpire]
  /\ retry = [t \in Ticks |-> NoRetry]
  /\ channels = [r \in Rounds |-> 0]
  /\ members = [r \in Rounds |-> {}]
  /\ drafts = [r \in Rounds |-> 0]

-----------------------------------------------------------------------------
(* Commands and button presses.                                            *)

\* The row appears once the organizer confirms; by then its deadline may
\* already have passed.
StartPod(r) ==
  /\ status[r] = "NONE"
  /\ status' = [status EXCEPT ![r] = "COLLECTING"]
  /\ \E n \in Thresholds : threshold' = [threshold EXCEPT ![r] = n]
  /\ \E d \in Leads : dueIn' = [dueIn EXCEPT ![r] = d]
  /\ \E g \in Guilds \cup {NoGuild} : origin' = [origin EXCEPT ![r] = g]
  /\ UNCHANGED <<stuckFor, chatChannelId, shareId, notified, signedUp,
                 linked, fire, expire, retry, chatVars, drafts>>

HasToken(r) == origin[r] \in linked

\* recordSignup turns away every press on a round that left COLLECTING.
Open_LetsLateClicksIn(r) == status[r] \in {"COLLECTING", "THRESHOLD_REACHED"}
Open(r) == status[r] = "COLLECTING"

Full_OffByOne(players) == Cardinality(players) > PodCapacity
Full(players) == Cardinality(players) >= PodCapacity

\* fireRound right after its claim.  Without an origin guild the hook
\* returns at once and no token can be found, so nothing is left to do.
Claimed(r, owner, token, roster) ==
  IF origin[r] = NoGuild
  THEN NoFire
  ELSE [NoFire EXCEPT !.phase = "channel", !.owner = owner,
                      !.token = token, !.roster = roster]

\* The WHERE clause of claimForFiring and of claimExpired.
Claims_Unguarded(r) == status[r] # "NONE"
Claims(r) == status[r] = "COLLECTING"

\* The round is read, the seat taken, the status tested again and the claim
\* made in one turn.
RecordSignup(r, p, leave) ==
  LET roster == IF leave THEN signedUp[r] \ {p} ELSE signedUp[r] \cup {p} IN
  /\ Open(r)
  /\ signedUp' = [signedUp EXCEPT ![r] = roster]
  /\ \/ /\ Full(roster) /\ Claims(r)
        /\ status' = [status EXCEPT ![r] = "THRESHOLD_REACHED"]
        /\ fire' = [fire EXCEPT ![r] = Claimed(r, NoTick, HasToken(r), roster)]
     \/ /\ ~(Full(roster) /\ Claims(r))
        /\ UNCHANGED <<status, fire>>
  /\ UNCHANGED <<rowVars, timeVars, chatChannelId, shareId, notified, linked,
                 expire, retry, chatVars, drafts>>

CancelPod(r) ==
  /\ status[r] \in {"COLLECTING", "THRESHOLD_REACHED"}
  /\ status' = [status EXCEPT ![r] = "CANCELLED"]
  /\ UNCHANGED <<rowVars, timeVars, chatChannelId, shareId, notified,
                 signedUp, linked, fire, expire, retry, chatVars, drafts>>

ConcludePod(r) ==
  /\ status[r] = "POD_CREATED"
  /\ status' = [status EXCEPT ![r] = "CONCLUDED"]
  /\ UNCHANGED <<rowVars, timeVars, chatChannelId, shareId, notified,
                 signedUp, linked, fire, expire, retry, chatVars, drafts>>

LinkNiamosGuildToken(g) ==
  /\ linked' = linked \cup {g}
  /\ UNCHANGED <<status, rowVars, timeVars, chatChannelId, shareId, notified,
                 signedUp, fire, expire, retry, chatVars, drafts>>

-----------------------------------------------------------------------------
(* The sweeps.                                                             *)

\* findOverdueRounds.
Overdue_OnlyReady(r) ==
  status[r] = "COLLECTING" /\ dueIn[r] = 0 /\ signedUp[r] # {}
Overdue(r) == status[r] = "COLLECTING" /\ dueIn[r] = 0

\* findStuckThresholdReachedRounds.
Stuck_AnyFired(r) == status[r] \in {"THRESHOLD_REACHED", "POD_CREATED"}
Stuck_LinkedOnly(r) ==
  status[r] = "THRESHOLD_REACHED" /\ ~notified[r] /\ HasToken(r)
Stuck(r) == status[r] = "THRESHOLD_REACHED" /\ ~notified[r]

WithinWindow_OffByOne(r) == stuckFor[r] + 1 < RetryWindow
WithinWindow(r) == stuckFor[r] < RetryWindow

HasQuorum_OneShort(r) == Cardinality(signedUp[r]) + 1 >= threshold[r]
HasQuorum_Above(r) == Cardinality(signedUp[r]) > threshold[r]
HasQuorum(r) == Cardinality(signedUp[r]) >= threshold[r]

ReadyToFire(r) == Claims(r) /\ HasQuorum(r)

\* Firing r suspends the sweep on the hook's first Discord request.
Suspends(r) == ReadyToFire(r) /\ origin[r] # NoGuild

\* The turn of expireOverdueRounds that starts with these candidates left:
\* it settles the candidates of done and ends, or suspends on one more.  Rows
\* come in no promised order.  st and fr are what the turn has done before.
ExpireLoop(t, queue, tokens, st, fr) ==
  \E done \in SUBSET queue :
    LET settled == [r \in Rounds |->
          IF r \notin done \/ ~Claims(r) THEN st[r]
          ELSE IF ReadyToFire(r) THEN "THRESHOLD_REACHED"
          ELSE "EXPIRED"]
    IN
    /\ \A r \in done : ~Suspends(r)
    /\ \/ /\ done = queue
          /\ status' = settled
          /\ fire' = fr
          /\ expire' = [expire EXCEPT ![t] = NoExpire]
       \/ \E r \in queue \ done :
          /\ Suspends(r)
          /\ status' = [settled EXCEPT ![r] = "THRESHOLD_REACHED"]
          /\ fire' = [fr EXCEPT ![r] =
                        Claimed(r, t, r \in tokens, signedUp[r])]
          /\ expire' = [expire EXCEPT ![t] =
                          [queue |-> queue \ (done \cup {r}),
                           tokens |-> tokens]]

\* The turn of retryFailedFires that starts with these candidates left.
RetryLoop(t, try, quit, chats) ==
  \E done \in SUBSET quit :
    /\ notified' = [r \in Rounds |-> notified[r] \/ r \in done]
    /\ \/ /\ try = {} /\ done = quit
          /\ retry' = [retry EXCEPT ![t] = NoRetry]
       \/ \E r \in try :
          retry' = [retry EXCEPT ![t] =
                      [try |-> try \ {r}, quit |-> quit \ done,
                       chats |-> chats, cur |-> r, draft |-> 0]]

\* The sweep of t is suspended on firing r.
Awaits(t, r) == fire[r].phase # "idle" /\ fire[r].owner = t

Running(t) ==
  \/ retry[t].cur # NoRound
  \/ \E r \in Rounds : Awaits(t, r)

\* Both sweeps start in the turn of the cron event; everything a loop will
\* know of its candidates' age and token is read here.
RunScheduledJob(t) ==
  LET tokens  == {r \in Rounds : HasToken(r)}
      overdue == {r \in Rounds : Overdue(r)}
      stuck   == {r \in Rounds : Stuck(r)}
      young   == {r \in stuck : WithinWindow(r)}
  IN
  /\ ~Running(t)
  /\ ExpireLoop(t, overdue, tokens, status, fire)
  /\ RetryLoop(t, young \cap tokens, stuck \ young,
               {r \in stuck : chatChannelId[r]})
  /\ UNCHANGED <<rowVars, timeVars, chatChannelId, shareId, signedUp, linked,
                 chatVars, drafts>>

-----------------------------------------------------------------------------
(* Requests in flight: what Discord and Niamos do, and their answers.      *)

\* fireRound returns to the signup that called it, or to the sweep, which
\* goes on in the same turn.
FireReturns_EndsSweep(r, st) ==
  /\ status' = st
  /\ fire' = [fire EXCEPT ![r] = NoFire]
  /\ expire' = [t \in Ticks |->
                  IF t = fire[r].owner THEN NoExpire ELSE expire[t]]
FireReturns(r, st) ==
  LET fr == [fire EXCEPT ![r] = NoFire]
      t  == fire[r].owner
  IN
  \/ /\ t = NoTick
     /\ status' = st
     /\ fire' = fr
     /\ UNCHANGED expire
  \/ /\ t \in Ticks
     /\ ExpireLoop(t, expire[t].queue, expire[t].tokens, st, fr)

\* attemptPodCreation, once the hook has answered.
AttemptPodCreation(r, chat) ==
  \/ /\ fire[r].token
     /\ fire' = [fire EXCEPT ![r].phase = "draft", ![r].chat = chat]
     /\ UNCHANGED <<status, expire>>
  \/ /\ ~fire[r].token
     /\ FireReturns(r, status)

DiscordCreatesChannel(r) ==
  /\ fire[r].phase = "channel"
  /\ fire' = [fire EXCEPT ![r].phase = "channelMade"]
  /\ channels' = [channels EXCEPT ![r] = @ + 1]
  /\ members' = [members EXCEPT ![r] = fire[r].roster]
  /\ UNCHANGED <<status, rowVars, timeVars, chatChannelId, shareId, notified,
                 signedUp, linked, expire, retry, drafts>>

\* createChannel answers; an error may hide a channel that was created.
ChannelAnswered(r) ==
  /\ \/ /\ fire[r].phase = "channelMade"
        /\ fire' = [fire EXCEPT ![r].phase = "invite"]
        /\ UNCHANGED <<status, expire>>
     \/ /\ fire[r].phase \in {"channel", "channelMade"}
        /\ AttemptPodCreation(r, FALSE)
  /\ UNCHANGED <<rowVars, timeVars, chatChannelId, shareId, notified,
                 signedUp, linked, retry, chatVars, drafts>>

\* createInvite answers; without an invite the hook forgets the channel.
InviteAnswered(r) ==
  /\ fire[r].phase = "invite"
  /\ \E invited \in BOOLEAN : AttemptPodCreation(r, invited)
  /\ UNCHANGED <<rowVars, timeVars, chatChannelId, shareId, notified,
                 signedUp, linked, retry, chatVars, drafts>>

\* Niamos makes the draft a createDraft call asks for.
NiamosCreatesDraft(r) ==
  /\ drafts[r] < MaxDrafts
  /\ drafts' = [drafts EXCEPT ![r] = @ + 1]
  /\ \/ /\ fire[r].phase = "draft" /\ fire[r].draft = 0
        /\ fire' = [fire EXCEPT ![r].draft = drafts[r] + 1]
        /\ UNCHANGED retry
     \/ \E t \in Ticks :
        /\ retry[t].cur = r /\ retry[t].draft = 0
        /\ retry' = [retry EXCEPT ![t].draft = drafts[r] + 1]
        /\ UNCHANGED fire
  /\ UNCHANGED <<status, rowVars, timeVars, chatChannelId, shareId, notified,
                 signedUp, linked, expire, chatVars>>

\* markPodCreated's columns; its callers set the status as well, whatever
\* it has become meanwhile.
MarkPodCreated_KeepsOldLink(r, draft, chat) ==
  /\ UNCHANGED shareId
  /\ chatChannelId' = [chatChannelId EXCEPT ![r] = @ \/ chat]
MarkPodCreated(r, draft, chat) ==
  /\ shareId' = [shareId EXCEPT ![r] = draft]
  /\ chatChannelId' = [chatChannelId EXCEPT ![r] = @ \/ chat]

\* createDraft answers fireRound with a draft, or fails.
DraftAnswered(r) ==
  /\ fire[r].phase = "draft"
  /\ \/ /\ fire[r].draft # 0
        /\ MarkPodCreated(r, fire[r].draft, fire[r].chat)
        /\ FireReturns(r, [status EXCEPT ![r] = "POD_CREATED"])
     \/ /\ FireReturns(r, status)
        /\ UNCHANGED <<shareId, chatChannelId>>
  /\ UNCHANGED <<rowVars, timeVars, notified, signedUp, linked, retry,
                 chatVars, drafts>>

\* createDraft answers the retry sweep, which goes on in the same turn.  Its
\* invite refresh for a known channel is left out: RetryKnowsNoChat.
RetryAnswered(t) ==
  LET r == retry[t].cur IN
  /\ r # NoRound
  /\ \/ /\ retry[t].draft # 0
        /\ MarkPodCreated(r, retry[t].draft, r \in retry[t].chats)
        /\ status' = [status EXCEPT ![r] = "POD_CREATED"]
     \/ UNCHANGED <<status, shareId, chatChannelId>>
  /\ RetryLoop(t, retry[t].try, retry[t].quit, retry[t].chats)
  /\ UNCHANGED <<rowVars, timeVars, signedUp, linked, fire, expire, chatVars,
                 drafts>>

-----------------------------------------------------------------------------
(* Time and the platform.                                                  *)

\* scheduled_for as time left: NULL stays NULL, and a deadline that has
\* passed stays passed.
TimeLeft(r) ==
  IF status[r] = "COLLECTING" /\ dueIn[r] > 0 THEN dueIn[r] - 1 ELSE dueIn[r]

\* Both clocks stop at the value past which the code sees no difference.
ClockAdvances ==
  /\ dueIn' = [r \in Rounds |-> TimeLeft(r)]
  /\ stuckFor' = [r \in Rounds |->
       IF status[r] = "THRESHOLD_REACHED" /\ stuckFor[r] < RetryWindow
       THEN stuckFor[r] + 1 ELSE stuckFor[r]]
  /\ UNCHANGED <<status, rowVars, chatChannelId, shareId, notified, signedUp,
                 linked, fire, expire, retry, chatVars, drafts>>

\* The object is evicted, redeployed or crashes: detached work and running
\* sweeps are gone, every row stays.
Evict ==
  /\ fire' = [r \in Rounds |-> NoFire]
  /\ expire' = [t \in Ticks |-> NoExpire]
  /\ retry' = [t \in Ticks |-> NoRetry]
  /\ UNCHANGED <<status, rowVars, timeVars, chatChannelId, shareId, notified,
                 signedUp, linked, chatVars, drafts>>

Next ==
  \/ \E r \in Rounds : StartPod(r) \/ CancelPod(r) \/ ConcludePod(r)
  \/ \E r \in Rounds, p \in Players, leave \in BOOLEAN :
       RecordSignup(r, p, leave)
  \/ \E g \in Guilds : LinkNiamosGuildToken(g)
  \/ \E t \in Ticks : RunScheduledJob(t) \/ RetryAnswered(t)
  \/ \E r \in Rounds : \/ DiscordCreatesChannel(r) \/ NiamosCreatesDraft(r)
                       \/ ChannelAnswered(r) \/ InviteAnswered(r)
                       \/ DraftAnswered(r)
  \/ ClockAdvances
  \/ Evict

Spec == Init /\ [][Next]_vars

-----------------------------------------------------------------------------
(* Properties.                                                             *)

\* Every value has its type; no handler writes a status the table refuses
\* (storage/schema.ts:85-87).
TypeOK ==
  /\ status \in [Rounds -> Statuses]
  /\ threshold \in [Rounds -> 1..PodCapacity]
  /\ dueIn \in [Rounds -> Nat \cup {NoDeadline}]
  /\ origin \in [Rounds -> Guilds \cup {NoGuild}]
  /\ chatChannelId \in [Rounds -> BOOLEAN]
  /\ shareId \in [Rounds -> 0..MaxDrafts]
  /\ stuckFor \in [Rounds -> 0..RetryWindow]
  /\ notified \in [Rounds -> BOOLEAN]
  /\ signedUp \in [Rounds -> SUBSET Players]
  /\ linked \in SUBSET Guilds
  /\ fire \in [Rounds -> FireTask]
  /\ expire \in [Ticks -> ExpireTask]
  /\ retry \in [Ticks -> RetryTask]
  /\ channels \in [Rounds -> Nat]
  /\ members \in [Rounds -> SUBSET Players]
  /\ drafts \in [Rounds -> 0..MaxDrafts]

\* A round that left COLLECTING by a claim, whatever happened to it since.
Fired == {"THRESHOLD_REACHED", "POD_CREATED", "CONCLUDED"}

\* A draft table never has more than POD_CAPACITY players, and a round that
\* is still open always has a free seat: the signup that takes the last one
\* fires the round in the same turn (services/pods.ts, recordSignup).
RosterFitsPod ==
  \A r \in Rounds :
    /\ Cardinality(signedUp[r]) <= PodCapacity
    /\ status[r] = "COLLECTING" => Cardinality(signedUp[r]) < PodCapacity

\* However signups, overlapping sweeps, retries and evictions interleave, a
\* round gets at most one chat channel: a sweep that has waited for another
\* round claims again what it read, and is refused (services/pods.ts:266).
OneChatPerRound == \A r \in Rounds : channels[r] <= 1

\* Beside the organizer and the bot, who are always let in, the chat admits
\* exactly the players the pod is made for: nobody joins or leaves between
\* the claim and the end of the round.
ChatAdmitsRoster ==
  \A r \in Rounds : channels[r] > 0 => members[r] = signedUp[r]

\* A round that fired, and any round Niamos has a draft for, has at least
\* the players its organizer asked for.
FiredWithEnough ==
  \A r \in Rounds :
    status[r] \in Fired \/ drafts[r] > 0 =>
      Cardinality(signedUp[r]) >= threshold[r]

\* An expired round was short of players when its deadline passed, and has
\* neither a chat nor a draft, though a signup may have raced the sweep.
ExpiredIsClean ==
  \A r \in Rounds :
    status[r] = "EXPIRED" =>
      /\ Cardinality(signedUp[r]) < threshold[r]
      /\ channels[r] = 0 /\ drafts[r] = 0

\* A round shown as started links to a draft Niamos made for it, and one
\* that has not started links to none.
ShareLinkIsReal ==
  \A r \in Rounds :
    /\ status[r] \in {"POD_CREATED", "CONCLUDED"} => shareId[r] \in 1..drafts[r]
    /\ status[r] \in {"COLLECTING", "THRESHOLD_REACHED", "EXPIRED"} =>
         shareId[r] = 0

\* The failure notice goes out only for a round stuck the whole window.
GivesUpOnlyAfterWindow ==
  \A r \in Rounds : notified[r] => stuckFor[r] = RetryWindow

\* A retry candidate never comes with a chat channel: the id is written only
\* together with POD_CREATED, so retryFailedFires' invite refresh and
\* welcome message (services/pods.ts:836) are never reached.
RetryKnowsNoChat == \A t \in Ticks : retry[t].chats = {}

\* The inductive invariant behind the safety properties above, in parts.

\* Nobody is signed up for a round that does not exist yet.
SeatsInv ==
  /\ RosterFitsPod
  /\ \A r \in Rounds : status[r] = "NONE" => signedUp[r] = {}

\* The states a round is in after its claim; CANCELLED may also come first.
Begun == Fired \cup {"CANCELLED"}

\* Some continuation will, or may, still ask Niamos for a draft of r.
AtWork(r) ==
  \/ fire[r].phase # "idle"
  \/ \E t \in Ticks : r \in retry[t].try \/ retry[t].cur = r

\* Work, drafts and chats exist only for a round that was claimed with
\* enough players, and its roster has not changed since.
QuorumInv ==
  \A r \in Rounds :
    /\ AtWork(r) \/ drafts[r] > 0 \/ channels[r] > 0 =>
         status[r] \in Begun /\ HasQuorum(r)
    /\ status[r] \in Fired => HasQuorum(r)
    /\ status[r] = "EXPIRED" => ~HasQuorum(r)

\* The continuation that still has to ask for a channel is the only one
\* that ever will, and it carries the roster of the claim.
ChatInv ==
  \A r \in Rounds :
    /\ fire[r].phase # "idle" => fire[r].roster = signedUp[r]
    /\ fire[r].phase = "channel" => channels[r] = 0
    /\ channels[r] <= 1
    /\ channels[r] > 0 => members[r] = signedUp[r]

\* A draft an answer is about to name exists, and before POD_CREATED the
\* row names neither a draft nor a channel.
LinkInv ==
  \A r \in Rounds :
    /\ fire[r].draft <= drafts[r]
    /\ \A t \in Ticks : retry[t].cur = r => retry[t].draft <= drafts[r]
    /\ status[r] \in {"POD_CREATED", "CONCLUDED"} => shareId[r] \in 1..drafts[r]
    /\ status[r] \in {"NONE", "COLLECTING", "THRESHOLD_REACHED", "EXPIRED"} =>
         shareId[r] = 0 /\ ~chatChannelId[r]

\* Rounds a sweep is to give up have waited the whole window.
WindowInv ==
  /\ GivesUpOnlyAfterWindow
  /\ \A t \in Ticks : \A r \in retry[t].quit : stuckFor[r] = RetryWindow

\* A sweep that has candidates left is suspended, and on one round.
AwaitInv ==
  \A t \in Ticks :
    /\ expire[t].queue # {} => \E r \in Rounds : Awaits(t, r)
    /\ \A q, r \in Rounds : Awaits(t, q) /\ Awaits(t, r) => q = r

\* A tick is to do one thing about a round, and with none in flight it has
\* nothing left to do.
PlanInv ==
  \A t \in Ticks :
    /\ retry[t].cur = NoRound => retry[t] = NoRetry
    /\ retry[t].cur \notin retry[t].try \cup retry[t].quit
    /\ retry[t].try \cap retry[t].quit = {}

\* Everything the proofs need of a reachable state.
IInv ==
  /\ TypeOK /\ SeatsInv /\ QuorumInv /\ ChatInv /\ LinkInv /\ WindowInv
  /\ RetryKnowsNoChat /\ AwaitInv /\ PlanInv

\* What a sweep has read it works through, whatever happens between its
\* awaits: only an eviction makes it forget an overdue round that is still
\* open, a retry, or a notice.
SweepsForgetNothing ==
  [][\/ Evict
     \/ \A t \in Ticks, r \in Rounds :
          LET read == RunScheduledJob(t) IN
          /\ r \in expire[t].queue \/ (read /\ Overdue(r)) =>
               r \in expire'[t].queue \/ status'[r] # "COLLECTING"
          /\ \/ r \in retry[t].try
             \/ read /\ Stuck(r) /\ WithinWindow(r) /\ HasToken(r)
             => r \in retry'[t].try \/ retry'[t].cur = r
          /\ r \in retry[t].quit \/ (read /\ Stuck(r) /\ ~WithinWindow(r)) =>
               r \in retry'[t].quit \/ notified'[r]
          /\ retry[t].cur = r => retry'[t].cur = r \/ RetryAnswered(t)]_vars

\* What comments of the code promise and the code does not keep: each of
\* the next five is refuted by a run of its own.

\* "exactly one caller; everyone else sees count: 0 and skips Niamos
\* entirely" (services/pods.ts:254-261): no two createDraft calls for one
\* round are ever in flight together.
OneCreateInFlight ==
  \A r \in Rounds :
    LET sweeps == {t \in Ticks : retry[t].cur = r} IN
    Cardinality(sweeps) + (IF fire[r].phase = "draft" THEN 1 ELSE 0) <= 1

\* A cancelled round is in a "terminal state" (services/pods.ts:319-330):
\* no answer that comes late starts it again.
CancelledIsFinal ==
  [][\A r \in Rounds : status[r] = "CANCELLED" => status'[r] = "CANCELLED"]_vars

\* A retried round "already has a chat channel from its first attempt"
\* (services/pods.ts:776-783): when fireRound's attempt ends, whether or not
\* it made a pod, the row knows the channel that was made for it.
ChatOutlivesAttempt ==
  [][\A r \in Rounds : DraftAnswered(r) /\ fire[r].chat => chatChannelId'[r]]_vars

\* Liveness: the cron keeps firing, time passes, and every request is
\* answered or fails.
Fairness ==
  /\ WF_vars(\E t \in Ticks : RunScheduledJob(t))
  /\ \A r \in Rounds : /\ WF_vars(ChannelAnswered(r))
                       /\ WF_vars(InviteAnswered(r))
                       /\ WF_vars(DraftAnswered(r))
  /\ \A t \in Ticks : WF_vars(RetryAnswered(t))
  /\ WF_vars(ClockAdvances)

FairSpec == Spec /\ Fairness

\* A round with a deadline never stays open for ever, evictions or not.
OverdueResolves ==
  \A r \in Rounds :
    status[r] = "COLLECTING" /\ dueIn[r] # NoDeadline ~>
      status[r] # "COLLECTING"

\* A round whose firing failed, or was cut short by an eviction, is in the
\* end created, cancelled, or reported as failed.
StuckResolves ==
  \A r \in Rounds :
    status[r] = "THRESHOLD_REACHED" ~>
      status[r] # "THRESHOLD_REACHED" \/ notified[r]

\* The rounds as their players see them.
Lifecycle ==
  INSTANCE RoundLifecycle
    WITH state <- status, roster <- signedUp, needed <- threshold

\* Whatever is in flight, every turn moves every round along its lifecycle.
RefinesLifecycle == Lifecycle!Spec

\* Each round as RoundMessages and RoundTail know it.
Work(r) ==
  INSTANCE RoundWork
    WITH status   <- status[r],
         notified <- notified[r],
         firing   <- fire[r].phase # "idle",
         trying   <- {t \in Ticks : r \in retry[t].try \/ retry[t].cur = r},
         quitting <- {t \in Ticks : r \in retry[t].quit}

\* However the turns of several rounds' handlers and of overlapping sweeps
\* fall together, each round takes one step of its own work at a time.
RefinesRoundWork ==
  /\ \A r \in Rounds : Work(r)!Init
  /\ [][\A r \in Rounds : [Work(r)!Next]_(Work(r)!vars)]_vars
=============================================================================
