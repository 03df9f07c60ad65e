# Escape Pod, verified

Escape Pod is a Discord bot that gathers players from several Discord servers
("guilds") for one draft pod. An organizer runs `/start-pod`; a message with a
button appears in every guild picked; when enough players have signed up, the
bot opens a private chat channel, asks the Niamos service for a draft, and posts
the link. A cron job, once a minute, fires or expires the rounds whose deadline
has passed and retries the drafts Niamos failed to create.

This directory holds a TLA+ model of that program, the TLC configurations that
check it, and TLAPS proofs. Paths below are relative to the repository root
(`src/`), so the code is in `src/src/`.

## 1. The system and its parts

Everything stateful lives in one Durable Object (`durableObject.ts`), a single
instance for all guilds, with its own SQLite database. The worker only forwards
interactions and the cron event to it.

| part | state | operations | interacts with |
|---|---|---|---|
| round lifecycle (`services/pods.ts`) | `pod_rounds`, `pod_round_signups`; continuations of detached promises | start, record signup, fire, cancel, conclude, expire, retry | Discord and Niamos over HTTP; storage |
| background sweeps (`durableObject.ts`, `jobs/*.ts`) | the two loops of each cron tick | `expireOverdueRounds`, `retryFailedFires`, then message edits and DMs | rounds; may overlap button presses and other ticks |
| storage (`storage/appSqlStorage.ts`, `rowMappers.ts`) | the tables | synchronous queries and conditional updates | everything |
| chat channel (`discord/podChat.ts`) | the channel in Discord | create channel and invite, welcome, delete | `fireRound`, conclude |
| Niamos client and tokens (`niamos/client.ts`, `services/niamosTokens.ts`, `crypto/`) | `guild_niamos_tokens` | link a token, create a draft | fire, retry |
| start-pod flow (`commands/startPod.ts`, `interactions/components.ts`, `storage/pendingStartPodsSql.ts`) | `pending_start_pods`, `organizers` (the next round number) | stash a selection, pick guilds, confirm, cancel | rounds, Discord |
| round commands (`commands/cancelPod.ts`, `concludePod.ts`) | none of their own | pick the round meant, cancel or conclude it, edit its messages | rounds |
| guild trust (`services/guilds.ts`, `organizers.ts`, `commands/allow*.ts`, `requestTrust.ts`) | `guild_subscriptions`, `guild_origin_allowlist` | subscribe, unsubscribe, allow, list eligible guilds | start-pod flow |
| broadcast messages (`discord/podMessage.ts`, `dmSignups.ts`) | the messages in Discord, `pod_round_targets` | render, fan out edits, DM signups | signups, sweeps, commands |
| schema migrations (`storage/migrate.ts`, `schema.ts`) | schema and `_schema_migrations` | run the pending migrations at start-up | storage |
| duration parser (`util/duration.ts`) | none | parse one number and one unit: `90m`, `2h`, `1d` | start-pod |
| routing, signature check, REST plumbing | none | dispatch, HTTP | everything |

`PROJECT.json` lists each part with its status, and under `hazards` what is hard
to test in it, at the line where it bites.

### What makes it hard

* **Interleaving at every await.** A Durable Object runs JavaScript on one
  thread, but a handler that awaits a request lets other handlers in. A signup
  fires a round and awaits Discord, then Niamos; meanwhile the organizer
  cancels, players press buttons, and the cron ticks. Two cron ticks overlap when
  the first takes more than a minute, and inside one tick both sweeps run
  concurrently (`durableObject.ts:113`).
* **Stale snapshots.** Each sweep reads its candidates once, then works through
  them with a network call for each one; the row handed to `fireRound` carries
  the token of the time of that read.
* **Crashes.** An eviction drops every continuation. The database keeps only
  what was written before, and Discord and Niamos keep what they were told.
* **Calls that fail after they worked.** A timeout may hide a channel or a draft
  that exists.
* **Late answers.** Buttons stay clickable on old messages, and a createDraft
  answer may come after the round was cancelled or given up.

### What makes each part correct

* rounds: claimed once; one chat; the roster frozen at the claim; never fired
  short of players and never expired with enough; the link real; every round with
  a deadline, and every failed firing, resolved in the end;
* sweeps: safe against everything that changed since the snapshot;
* start-pod flow: one round per confirmation, its targets those the organizer
  picked and may use, its round number new;
* commands: the round acted on is the organizer's and in a state the command is for;
* trust: only a trusting guild is ever a target;
* messages: what they say may be old but is never untrue of the round;
* tokens: a guild's row holds one token Niamos accepted for that guild, and a newer
  link is never undone by an older one; a draft is made with such a token;
* the tail of a round: every player is told, all of the same draft, the chat is
  welcomed once, and its channel does not outlive the round unless something failed;
* migrations: an interrupted run resumes, and what serves finds its schema.

## 2. How the code becomes actions

**One action is one turn**: everything the object does between the completion of
one request and the issue of the next. SQLite calls are synchronous and
JavaScript runs to completion, so nothing else can run inside a turn; `await` on
a value that is already there only defers within the turn's microtasks, which
other events do not enter. A write is durable before anything it caused leaves
the object (the platform's output gate), so a crash shows states between turns
and no others: `Evict` clears the continuations and keeps every row. One turn is
modelled with a failure inside it, because the code plans for one: `Confirm`
below.

**A request in flight** is a record in a variable. What the other side does
(`DiscordCreatesChannel`, `NiamosCreatesDraft`) is one action and the answer
another, so the answer can be late, be an error although the work was done, or
never be seen.

**Time** is the time left to a deadline and the time since the claim, counted in
clock steps, both stopped at the value past which the code sees no difference.
Only `PodRounds` and `StartPod` let time pass; elsewhere a sweep or a deadline may
come at any moment. Two candidate reads at the same tick are one turn: `runScheduledJob` starts both
sweeps before either awaits. Queries without `ORDER BY` promise no order, so the
loops take their candidates in any order.

## 3. The modules

| module | models | composes with |
|---|---|---|
| `PodRounds` | the life of a round: signups, the claim, chat and draft creation, cancel, conclude, both sweeps, evictions | `RoundLifecycle` and, round by round, `RoundWork`, by refinement |
| `RoundLifecycle` | what a round promises its players, whatever is in flight: the abstract specification `PodRounds` implements | |
| `RoundWork` | one round's status and the work in hand for it: what `PodRounds`, `RoundMessages` and `RoundTail` have in common | |
| `RoundMessages` | what the messages of one round say in its target guilds | `RoundWork`, by refinement |
| `GuildTrust` | subscriptions, grants of trust, eligibility | |
| `StartPod` | the flow from `/start-pod` to the rows of a round | extends `GuildTrust`, which moves under it, and implements it |
| `RoundCommands` | which of an organizer's rounds `/cancel-pod` and `/conclude-pod` act on | |
| `GuildTokens` | the Niamos tokens of the guilds and the links that wait for whoami | |
| `RoundTail` | from the claim to the deleted channel: the token an attempt carries, chat, draft, direct messages, welcome, deletion | extends `GuildTokens`, which moves under it, and implements it; `RoundWork`, by refinement |
| `Migrations` | the schema migrations and their crash points | |
| `PodRoundsProofs`, `GuildTrustProofs`, `StartPodProofs`, `RoundCommandsProofs`, `RoundMessagesProofs`, `GuildTokensProofs`, `RoundTailProofs`, `MigrationsProofs` | the theorems | |
| `MC...` | the instances TLC checks | |

### PodRounds

| model | code |
|---|---|
| `status`, `threshold`, `dueIn`, `origin`, `chatChannelId`, `shareId`, `stuckFor`, `notified` | the columns of `pod_rounds` (`schema.ts:79-98`); `dueIn` is `scheduled_for` minus now, `stuckFor` now minus `threshold_reached_at` |
| `signedUp` | `pod_round_signups` with status `IN` |
| `linked` | `guild_niamos_tokens` |
| `fire[r]` | `fireRound` suspended on createChannel, createInvite or createDraft, with what it carries over |
| `expire[t]`, `retry[t]` | tick t's two loops: the candidates left, and what was read of them |
| `channels`, `members`, `drafts` | Discord's and Niamos's own state |
| `RecordSignup` | `recordSignup` with the press it serves; the seat that fills the table claims and starts `fireRound` in the same turn. The status is tested when the round is read, again before firing, and once more by the claim; as nothing is awaited in between, the second test is the first (`Open`), and `Claims` is the claim's own |
| `RunScheduledJob` | the cron event up to the first await of each sweep |
| `ChannelAnswered`, `InviteAnswered`, `DraftAnswered`, `RetryAnswered` | the turn after each request: the rest of `fireRound` and the return to its caller, which for a sweep is the rest of the loop up to its next request |
| `CancelPod`, `ConcludePod`, `StartPod`, `LinkNiamosGuildToken` | the commands' effect on one round |

Two details of the code matter and are kept. `markPodCreated` writes
`POD_CREATED` whatever the status is by then. And the chat channel's id reaches
the row only through `markPodCreated`, so a round still `THRESHOLD_REACHED` never
has one: `RetryKnowsNoChat` states it, and it means that the invite refresh and
welcome message of the retry sweep cannot be reached, which is why the model has
no action for them.

`RoundLifecycle` forgets requests, sweeps and continuations and keeps status,
roster and threshold. Every step of `PodRounds` is one of its steps or a stutter.

`RoundWork` keeps what `RoundLifecycle` forgets: whether a claim's `fireRound` is
under way (`firing`), and which ticks have still to ask for a draft of the round
(`trying`) or to give it up (`quitting`). `PodRounds!Work(r)` reads these off
`fire` and `retry`; since one turn may settle candidates of several rounds,
`RefinesRoundWork` says that each round takes one step of its own work, or none, in
every turn. `RoundMessages!Work` and `RoundTail!Work` read the same five things off
their own state, so the three modules that move one round's status are bound
to one description of it. Two limits: `RoundTail` never gives a round up
and leaves `notified` and `quitting` at their first values; and the relation is
one of traces, in one direction: the other two let a round do *no more* than
`RoundWork` allows, and that they do all of it is not claimed.

`SweepsForgetNothing` is about the loops themselves. What a sweep read as overdue is
in its queue until its status has changed; what it read as stuck is retried or
reported; only an eviction is excused.

### RoundMessages

One round and its target guilds. `post[g]` is the first message on its way from
"sent" to "known" (its id recorded) or "lost"; `shown[g]` what Discord shows;
`edits` the requests in flight, a bag, so they land in any order; `reports` what a
sweep's loop has returned and its job has not yet announced. A press answers the
guild it was made in through the interaction, whether or not the message's id is
known, and the others with the bot's token. `firing` and `tick` are the awaits of
`PodRounds` reduced to what a message can tell: who waits for a draft.

`UpdatesReachEveryone` says that once the requests are served every message with a
recorded id tells how the round stands, or shows a refusal. Three things
may leave a message behind for good in this code, and `orderly`, a history no action
looks at, says that none has happened: a failed edit, an eviction, and an older story
that lands after the newer one (`ComesLate`: requests that overtake one another, a
handler that tells what it saw before its awaits, or an id that is recorded when the
round has already moved on). What is left is that every handler tells every guild. A
message whose id was never recorded is outside it: the code cannot edit it but in
answer to a press made in it.

### GuildTrust and StartPod

`subscription[g]` is a guild's row (absent, active, or left with
`unsubscribed_at` set), `trusted` the pairs of `guild_origin_allowlist`,
`pickers` the channel pickers `/allow-guild` offers a guild without a row. Each
command is one turn, for it reaches only storage between its first read and its
last write.

`StartPod` keeps the flow in the places the code keeps it: `menus` (offer and
deadline live in the message), `looking` (a handler that awaits the guild names),
`pending` (`pending_start_pods`), `rounds`. `Fresh` is the `evictExpired` that
opens every get and create; `Confirm` is get, delete and `startPod` in one turn,
as nothing but storage is awaited between them. `startPod` takes the number in one
call and creates the round in the next and expects that the second may not happen,
so `Confirm` may end without a round: the number and the selection are then gone.
Guild commands interleave everywhere.

### RoundCommands

The rounds of several organizers in insertion order, each with number (rising, not
always by one), status and creation time, and the last command's reply. A command with a number finds the
round so numbered; one without counts candidates by status, refuses to choose
between several, and otherwise acts on the *latest round of any status*. Rounds
with the same `created_at` are told apart by nothing the query asks for.

### GuildTokens and RoundTail

A token is known by the number of the paste that brought it. `pastes[n]` goes from
"asked" (whoami is on its way) over "accepted" (Niamos has found it valid) to
"linked" or "over"; `tokens[g]` is the guild's row, token and name separately, as
two columns could come from two pastes. `WhoamiAnswered` is the turn that writes
the row. Of two links that overlap the one whose whoami answers last stays; what
`NoOlderTokenReturns` forbids is that one that was done before the other was even
pasted wins. `after`, kept for that, is the only history.

`RoundTail` has one round with its roster complete and `task[w]` for the press and
each tick: the continuation of a claim or of a retry, with the token, channel and
draft it carries from read to use. `held` is a candidate that waits while the
sweep works through other rounds; `told` a sweep that has its draft and still has
to finish its loop and edit messages before its players are told. Messages are
sent one by one and each is delivered or refused. Since `PodRounds` has quorum,
the give-up and the separate failures of channel and invite, they are left out
here, and createChannel with createInvite is one request. `past` remembers which
mishaps have happened, for the properties that except them.

| model | code |
|---|---|
| `SubmitToken`, `WhoamiAnswered` | the modal of `/connect-niamos` (`components.ts:478-517`), `linkToken` |
| `AttemptPodCreation`, `DraftAnswered` | `attemptPodCreation` and the return to its caller |
| `Mail`, `SweepReports`, `MailSettles` | `notifyPlayersByDm`, `postPodChatWelcomeMessage` |
| `ConcludePod`, `DeleteAnswered` | `commands/concludePod.ts:38-61` |

`/cancel-pod` never deletes the chat (`commands/cancelPod.ts:38-54`), so
`ChatsAreCleanedUp` is about concluded rounds alone.

### Migrations

`stored` is the database, `work` the database as the open transaction sees it,
`deployed` the length of the code's list. The object may crash at any statement
and a deployment may bring any later version. What the statements do is kept as
far as one can be rejected (dropping a column that is gone) or leave something
wrong (a table that is missing, a policy the next version does not know).

## 4. The runs

| run | instance | shows |
|---|---|---|
| `round_races` | 2 rounds, 2 players, 2 overlapping ticks, capacity 2, threshold 1, deadlines none or past, window 1, 1 draft per round | every safety property, and the refinements of `RoundLifecycle` and `RoundWork`; a sweep's candidate may be settled by somebody else while the sweep waits for the other round |
| `sweep_liveness` | 2 rounds, 1 player, 1 tick at a time, capacity 2, threshold 1, window 1, 2 drafts | `OverdueResolves`, `StuckResolves` under `FairSpec`, and `SweepsForgetNothing`, with a candidate in a sweep's queue that somebody else settles while the sweep waits |
| `message_races` | 2 guilds, 1 tick, capacity 2, threshold 1, 2 presses, 1 draft | no message is ever untrue of its round; every known message is brought up to date unless something was lost or came late |
| `start_pod` | 2 guilds, 1 of which starts rounds, 2 admins, 2 channels, 1 organizer, 2 selections | at most one round a selection, with a number of its own, its targets current and consenting; trust stands on rows, installers stay |
| `bare_commands` | 2 organizers, 3 rounds, 3 times | commands end only rounds they are for, and none by mistake |
| `round_tail` | 2 guilds, 2 pastes, 2 players, the press and 2 ticks, 2 drafts | the right token for each draft, everyone told of one draft, one welcome, the channel cleaned up |
| `migrations` | 4 versions, 2 guilds | every upgrade, crashed anywhere, ends in the schema of the code that serves |
| `create_race`, `cancel_race`, `chat_lost`, `late_press`, `deadline_passed` | as small as shows it | each refutes one sentence of the code's comments or docs (section 7) |

**Bounds.** *PodRounds*: rounds share nothing but the queue of a sweep and the linked
guilds, so two show what one does to another: the sweep waits for one while a press, a
command or the other tick settles the other. Two ticks are the smallest
overlap. Two players at capacity two and threshold one include a
table that fills, a press after it did, and a deadline met with a roster below, at
and above the threshold. A window of one clock step has a round just claimed and one
at the edge. One draft per round lets one attempt succeed and the others fail or
come after it; `sweep_liveness` has two drafts and deadlines that are still ahead,
`round_tail` two attempts that both succeed. Larger thresholds and windows, a link
that a second draft replaces and more rounds are left to the theorems, which
prove every safety property and both refinements for any number of each. *RoundMessages*: two guilds let an edit overtake another's handler; two
presses fill a table, or press a message that is over. Evictions have no bound.
*StartPod*: two selections of one organizer are what a number or a token could be
shared by; with a lifetime of 0 and a clock of 0..1 a selection may be sent at
once or too late; one guild that trusts and one that starts rounds make every case of
eligibility. The deadline travels unread, so this run fixes it to none and
`deadline_passed` varies it. *RoundTail*: two pastes are the smallest relink, for
one guild or for two, and one draft may be made under each; the press and two
ticks are three attempts that may overlap, two of them retries; two drafts let two
attempts succeed; two players tell "everyone" from "someone". *RoundCommands*: three rounds of one organizer are two
candidates and a later round that is none. *Migrations*: nothing is bounded but the
guilds, whose policies are independent.

**Deadlock** is checked in every run. An eviction or a tick that finds nothing to
do is a step, so a round that is over does not count as one.

**Fairness.** Only `sweep_liveness` assumes any. `PodRounds!Fairness` asks that the
cron fires again and again (a minute cron trigger, `wrangler.toml`), that a
request in flight is answered or fails (HTTP calls end), and that time passes. It
asks nothing of players, organizers, Discord's or Niamos's success, and lets
evictions come at any time. It is weak, and on the cron as a whole, not on a
particular tick.

## 5. What is proved

Each theorem holds for all values of the constants that satisfy the named
assumptions: for `PodRounds`, that the capacity and the window are positive,
thresholds lie between one and the capacity, players are finite in number and the
sentinels distinct; for `StartPod` and `RoundCommands`, that times and bounds are
naturals and the sentinels no values of the sets they stand beside; for
`RoundMessages`, that the threshold lies between one and the capacity, the guilds
are finite in number and the sentinels are none of them; for `GuildTokens` and
`RoundTail`, that the bounds are naturals, the origin is a guild
and the names of press, ticks, chat and players differ. `GuildTrust` and
`Migrations` need none.

| module | theorem | says |
|---|---|---|
| `PodRoundsProofs` | `TypeCorrect`, `Invariant` | `TypeOK` and `IInv` always hold |
| | `RostersFit`, `OneChat`, `ChatForRoster`, `EnoughPlayers`, `ExpiryIsClean`, `LinksAreReal`, `PatientGiveUp`, `RetryHasNoChat` | the safety properties |
| | `SweepsAreThorough` | a sweep works through what it has read |
| | `Refinement` | `Spec => Lifecycle!Spec` |
| | `WorkRefinement` | each round takes one step of its own work at a time |
| `GuildTrustProofs` | `GuildTypeCorrect`, `GrantsHaveRows`, `InstallerStays` | of the guilds' commands alone |
| `StartPodProofs` | `FlowTypeCorrect`, `FlowInvariant` | types and the invariant `FlowInv` |
| | `FlowKeepsTrust` | `Spec => GuildSpec`: the flow implements `GuildTrust`, whence `FlowGrantsHaveRows` and `FlowKeepsInstaller` |
| | `TargetsConsent`, `TargetsCurrent`, `SendOnce`, `SendInTime`, `Numbering` | the properties of the flow |
| `RoundCommandsProofs` | `CommandsTypeCorrect`, `CommandsFollow`, `BareCommands` | the properties of the commands |
| `RoundMessagesProofs` | `MessagesTypeCorrect` | types, and that the edits in flight form a bag |
| | `MessagesInvariant`, `NothingUntrueIsSaid`, `FullTablesAreClaimed` | what messages may say |
| | `UpdatesArrive` | that updates reach every known message |
| | `MessagesFollowRound` | `Spec => Work!Spec` |
| `GuildTokensProofs` | `TokensInvariant` | of the links alone |
| `RoundTailProofs` | `TailImplementsTokens` | `Spec => TokenSpec`, whence `RowsAreVerified`, `OlderTokensStayAway` |
| | `TailTypes`, `TailTypeCorrect`, `DraftsBelongToGuild` | types, and the token of each draft |
| | `FiringsInvariant`, `ChatWelcomedOnce`, `ChatRemembered` | who can name the chat |
| | `OneDraftForAll`, `PlayersAreTold` | where players are sent |
| | `TailFollowsRound` | `Spec => Work!Spec` |
| `MigrationsProofs` | `MigrationsInvariant`, `MigrationsTypeCorrect`, `StatementsRun`, `SchemaServes` | the database is at a point of the list |

**PodRounds.** The properties are not inductive by themselves. That a round gets
one chat rests on *who can still make one*: `ChatInv` says that the continuation
that has not yet asked for a channel exists only if there is none, and
`QuorumInv` that work in hand exists only for a round that left `COLLECTING` by a
claim, with a quorum and hence never again claimable. That the chat admits the
roster rests on the continuation carrying the roster of the claim, which `Open`
freezes. The link is real because an answer names a draft that exists
(`LinkInv`), and a notice is never early because a queue of rounds to give up
only holds rounds that waited (`WindowInv`, clocks never go back).

That proof has three layers. The `...Effect` lemmas say what the shared operators
do (the two loops, each an existential over the candidates a turn settles,
become a few facts about one round). `NextSteps` shows, action by action, that a
turn is a `RoundStep` of every round and a `RetryStep` of every tick: a short
list of what can happen to one row. Each part of `IInv` is then preserved by any
such step (`SeatsPreserved`, `QuorumPreserved`, ...), and the refinement maps the
same list to the actions of `RoundLifecycle`.

A sweep forgets nothing because its loop stops only at an await or when its queue is
empty. That needs two more parts of `IInv`: a tick with candidates left
is waiting on exactly one round (`AwaitInv`), so the turn that ends that wait is
the one that goes on with the queue; and a tick has one plan for a round, to
retry it or to give it up, and none once its retry has been answered (`PlanInv`).
`PlanInv` is also what makes `WorkRefinement` go through: without it a turn of a
retry loop could answer one request and settle another candidate for the same round.

**StartPod.** The same plan: `FlowStep` says what a turn may add to each stage, and
each part of `FlowInv` survives any `FlowStep`. A target's consent was read when
the menu was shown, several turns and any number of guild commands before Send;
it lasts because grants are only ever added (`GuildStep`), so `ConsentInv` carries
it from menu to selection to round. Numbers differ because each is below the next
to be given out, which only rises, with or without a round (`NumberPreserved`). One round per selection needs `TokenInv`: a
token is in one place at a time, being looked up, pending or in a round.

**RoundCommands.** A command acts on the latest round but counts candidates. The
two agree where it matters: a round a command changes was itself a candidate, so
when at most one was counted it was that one (`BareCommands`).

**RoundMessages.** What is shown depends on what is in flight, so `MessagesInv` is about
everything said anywhere: shown, in an edit, or in a report a job still holds
(`Said`). `TruthInv` asks that each body in it is true of the round *now*, and two
facts make that last: a body's statuses are never left again except for others it
allows (`Onward`), and `CalmInv`, that a round not yet claimed has
no attempt at work. That updates arrive needs to know where a guild's news is when it is not yet
shown (`ReachInv`): in an edit in flight, in a report a job still holds, or with the
press that filled the table and waits for a draft. An answer turns the first into what is shown,
a job the second into the first, and the turn that ends the wait the third into
one of the others; any other turn that changes what the messages should say sends it to
every known guild. The bag of edits enters only through the set of its
elements (`BagToSet`), which a send enlarges and an answer does not. That it *is* a
bag (`MessagesTypeCorrect`) is shown for the union and difference of bags
that each action applies to it; `Unawaited` states what an eviction makes of it
edit by edit, without a sum over the bag. `MessagesFollowRound` takes each action
to one action of `RoundWork`, with `CalmInv` for the claim: no attempt is at work yet.

**RoundTail.** The tokens need nothing of the rounds: `RoundTail` moves them only as
`GuildTokens` may, so the two properties of the rows carry over by refinement. A
draft's token was read turns before it is used and may have been replaced since;
it stays one that was *accepted* for the guild because links are only added
(`CarriedOK`). `FireInv` says that at most one continuation is the claim's own, that it
alone carries the channel's id, and that while it runs the row has none and the
chat no welcome; hence one welcome. For `ChatsAreCleanedUp`, `ChannelInv` follows the
open channel from the continuation that holds it to the row, and from the row to
the delete request. `PlayersMeetInOneDraft` needs that without an overlap at most one
attempt runs and none after a message was sent (`MeetInv`), `EveryoneIsTold` that a
created round has either sent to everybody or a sweep that still will (`ToldInv`).
`TailFollowsRound` reads "the claim's attempt is under way" off the phases of all
tasks at once, so it rests on `FireInv`: when that attempt ends there is no other.

**Migrations.** `Progress(r)`: r migrations recorded, in order, and the open
transaction has run a prefix of the next. `At(db, r, k)` says what a database that far
contains: the tables so far, exactly the columns not yet dropped, no `OPEN` policy
after the last. `StatementRuns` shows that a statement whose turn it is is accepted
and leads from (r, k) to (r, k+1), `CommitRuns` that its record leads to (r+1, 0).

**Only model-checked.** `OverdueResolves` and `StuckResolves`: temporal proofs that
need fairness and ENABLED are out of the prover's reach. Every other property of a
passing run is a theorem. The refuted sentences, where one instance is enough.

**Only proved.** `IInv`, and that `RoundMessages` and `RoundTail` implement
`RoundWork`. TLC found these to hold on the instances of section 4 before they
were proved; no run repeats it.

## 6. Faulty variants

An operator called `X_Variant` is a version of `X` with a plausible mistake: a
dropped guard, an off-by-one, an unconditional update. Nothing in the model uses
them. Each run's properties are checked against them: putting the variant in X's
place must break the property, so the property does say something about the code.

## 7. Where the code and its comments part

Each of these is a run that TLC refutes and an entry of `findings`.

* **Two drafts for one round** (`create_race`). A claimed round is
  `THRESHOLD_REACHED` before its first createDraft has been sent, which is all
  `retryFailedFires` asks for. A cron tick in that window makes a second call. In
  consequence a concluded round can be started again by the second answer.
* **A cancelled round starts** (`cancel_race`). `markPodCreated` does not look at
  the status.
* **The chat is forgotten** (`chat_lost`). If the first createDraft fails the
  channel's id is dropped; the retry never finds it and `/conclude-pod` never
  deletes it.
* **The end is overwritten** (`late_press`). A press that finds its round over is
  refused by an edit of the message it was made on, which is the guild's round
  message; if that showed the end by then, the refusal replaces it for everybody.
* **The deadline passes before the round exists** (`deadline_passed`). It is
  checked when `/start-pod` is typed and not looked at when Send is pressed.

Without a number the commands fall back to the latest round of any status, so an
organizer whose newest round is over is refused although exactly one older round
is open. The code says so itself (`services/pods.ts:455-464`), the README's "omit it
when you only have one" does not; no run is spent on it.

The comment on `allowGuild` says it requires the guild "to already have an active
GuildSubscription" (`services/guilds.ts:145-146`). The code (`:153-156`) looks for a row and takes one that has left (`unsubscribed_at` set),
so a guild that is gone may grant trust. `MayTrust` models the code, and `TrustHasRow`
states what the code does guarantee, the foreign key the same comment is about. A
guild that has left is still no target (`TargetsAreCurrent`), so nobody is
posted to; no run is spent on it.

A gap in an organizer's round numbers is no disagreement: `services/pods.ts:71-77`
allows it, and `NumbersAreDistinct` asks for distinct numbers alone.

## 8. Not modelled, and why

* Routing, the signature check, the REST client, HTTP and JSON: no state, pure I/O;
  their calls are requests that are answered or fail.
* The encryption of tokens: a token that no longer decrypts fails its attempt, as
  `AttemptPodCreation` allows at any time, and the cipher is a library's. That two
  links overlap and the one answered last stays is modelled and not called wrong:
  "linking again replaces the previous one" (`commands/connectNiamos.ts:34`) says
  nothing of two at once.
* Wording and layout of the messages, the set list, command registration, build
  scripts, the Prisma schema of an earlier deployment.
* `guild_organizer_allowlist`: nothing reads it and no command writes it any more.
* The duration parser: one pattern and one multiplication, with their own unit tests.
* The retry sweep's refreshed invite and welcome: unreachable, see `RetryKnowsNoChat`.

## 9. Plan

Done, in this order: the round and its proofs; the messages; trust and the
start-pod flow with their proofs; the commands with theirs; the migrations; the
tokens and the tail of a round with their proofs; the proofs of the messages and
of the migrations; what one round does in all three modules that move it
(`RoundWork`), as a refinement of each; that sweeps forget nothing.

Next, most important first:

1. The give-up in `RoundTail`, so that `EveryoneIsTold` covers the failure notice too
   and the mapping to `RoundWork` can drop its constant `notified`.
2. The players of a round tied to `RoundLifecycle` from `RoundMessages`, whose `count`
   stands for a roster that `PodRounds` has in full.
3. `StartPod` and `RoundCommands` related to `RoundLifecycle` by number and status, as
   `RoundCommands!CommandsFollowLifecycle` does it for the commands in words.
