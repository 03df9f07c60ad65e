---------------------------- MODULE RoundMessages ----------------------------
(***************************************************************************)
(* What the messages of one round say in its target guilds                 *)
(* (interactions/components.ts, jobs/*.ts, commands/cancelPod.ts and       *)
(* concludePod.ts over discord/podMessage.ts).                             *)
(*                                                                         *)
(* Every handler that changes the round renders a body and sends it to the *)
(* targets whose message it knows, as requests that overtake one another   *)
(* and may fail.  The guild a button was pressed in gets its edit through  *)
(* the interaction instead, known or not.  The sweeps send theirs only     *)
(* after their whole loop.                                                 *)
(*                                                                         *)
(* One action is one turn of the object; X_Variant is a faulty variant of  *)
(* X (see PodRounds).                                                      *)
(***************************************************************************)
EXTENDS Integers, FiniteSets, Bags

CONSTANTS
  Guilds,       \* the round's targets
  Ticks,        \* cron invocations that may overlap: bounds the overlap
  PodCapacity,  \* POD_CAPACITY
  Threshold,    \* pod_rounds.threshold
  MaxPresses,   \* bound on the button presses
  MaxDrafts,    \* bound on the drafts Niamos makes
  NoGuild, Sweep

ASSUME MessagesAssumption ==
  /\ PodCapacity \in Nat \ {0} /\ Threshold \in 1..PodCapacity
  /\ MaxPresses \in Nat /\ MaxDrafts \in Nat
  /\ {NoGuild, Sweep} \cap Guilds = {} /\ NoGuild # Sweep
  /\ IsFiniteSet(Guilds)

VARIABLES
  status,    \* pod_rounds.status
  count,     \* players signed up
  notified,  \* pod_rounds.fire_failure_notified
  post,      \* the first message of each guild: sent, posted, known, lost
  shown,     \* what Discord shows in each guild
  edits,     \* edit requests in flight, a bag
  firing,    \* who awaits fireRound: a guild's press, Sweep, or nobody
  tick,      \* what each tick's retry loop still has to do with the round
  reports,   \* sweep results whose edits have not been sent, a bag
  drafts,    \* drafts Niamos has made for the round
  presses,   \* button presses so far
  orderly    \* so far nothing was lost and nothing came late

roundVars == <<status, count, notified, post, shown, edits, firing, tick, reports,
               drafts, presses>>
vars == <<roundVars, orderly>>

-----------------------------------------------------------------------------
(* The bodies of discord/podMessage.ts.                                    *)

Collecting(n)   == [kind |-> "collecting", n |-> n]
Starting(draft) == [kind |-> "starting", n |-> draft]
Cancelled       == [kind |-> "cancelled", n |-> 0]
Expired         == [kind |-> "expired", n |-> 0]
Concluded       == [kind |-> "concluded", n |-> 0]
FireFailed      == [kind |-> "failed", n |-> 0]

\* Not a body but what an error edit leaves: text, no embed, no buttons.
Refused == [kind |-> "refused", n |-> 0]
Nothing == [kind |-> "nothing", n |-> 0]

Bodies == {Collecting(n) : n \in 0..PodCapacity} \cup {Starting(d) : d \in 1..MaxDrafts}
          \cup {Cancelled, Expired, Concluded, FireFailed, Refused}

\* Sent with the bot's token, as the answer to a press, or by the handler of
\* an answer that failed.
Edits == [guild : Guilds, body : Bodies, via : {"bot", "press"}]

\* Targets with a message_id, read when the body is rendered.
Known == {g \in Guilds : post[g] = "known"}

EditsTo(guilds, body) == {[guild |-> g, body |-> body, via |-> "bot"] : g \in guilds}

Answer(g, body) == {[guild |-> g, body |-> body, via |-> "press"]}

Send(es) == edits' = edits (+) SetToBag(es)

\* A press answers its own guild and updates the others.
FanOut_AnswersOnly(g, body) == Answer(g, body)
FanOut(g, body) == Answer(g, body) \cup EditsTo(Known \ {g}, body)

Report(body) == [body |-> body, to |-> Known]

\* The start-pod confirmation has created the round and sent its messages.
Init ==
  /\ status = "COLLECTING" /\ count = 0 /\ notified = FALSE
  /\ post = [g \in Guilds |-> "sent"]
  /\ shown = [g \in Guilds |-> Nothing]
  /\ edits = EmptyBag /\ reports = EmptyBag
  /\ firing = NoGuild
  /\ tick = [t \in Ticks |-> "idle"]
  /\ drafts = 0 /\ presses = 0
  /\ orderly = TRUE

-----------------------------------------------------------------------------
(* The first message of each guild.                                        *)

DiscordPosts(g) ==
  /\ post[g] = "sent"
  /\ post' = [post EXCEPT ![g] = "posted"]
  /\ shown' = [shown EXCEPT ![g] = Collecting(0)]
  /\ UNCHANGED <<status, count, notified, edits, firing, tick, reports, drafts,
                 presses>>

\* postMessage answers with the id, which is recorded, or fails, after it
\* worked perhaps.
PostAnswered(g) ==
  /\ \/ post[g] = "posted" /\ post' = [post EXCEPT ![g] = "known"]
     \/ post[g] \in {"sent", "posted"} /\ post' = [post EXCEPT ![g] = "lost"]
  /\ UNCHANGED <<status, count, notified, shown, edits, firing, tick, reports,
                 drafts, presses>>

-----------------------------------------------------------------------------
(* Button presses and commands.                                            *)

\* Who is signed up after a press: one more, one fewer, or as many as before.
Rosters_Unchecked(n) == {n - 1, n, n + 1}
Rosters(n) == {n - 1, n, n + 1} \cap Nat

Full_Above(n) == n > PodCapacity
Full(n) == n >= PodCapacity

\* A player presses a button of the message; only the collecting body has any.
PodSignup(g) ==
  /\ shown[g].kind = "collecting" /\ presses < MaxPresses
  /\ presses' = presses + 1
  /\ \/ /\ status # "COLLECTING"
        /\ Send(Answer(g, Refused))
        /\ UNCHANGED <<status, count, firing>>
     \/ \E n \in Rosters(count) :
        /\ status = "COLLECTING"
        /\ count' = n
        /\ \/ /\ Full(n)
              /\ status' = "THRESHOLD_REACHED" /\ firing' = g
              /\ UNCHANGED edits
           \/ /\ ~Full(n)
              /\ Send(FanOut(g, Collecting(n)))
              /\ UNCHANGED <<status, firing>>
  /\ UNCHANGED <<notified, post, shown, tick, reports, drafts>>

\* fireRound returns to the press that called it, which renders the round as
\* started or, without a draft, as the full table it saw.
FiringPressReturns(g) ==
  /\ firing = g /\ firing' = NoGuild
  /\ \/ /\ drafts < MaxDrafts /\ drafts' = drafts + 1
        /\ status' = "POD_CREATED"
        /\ Send(FanOut(g, Starting(drafts + 1)))
     \/ /\ Send(FanOut(g, Collecting(count)))
        /\ UNCHANGED <<status, drafts>>
  /\ UNCHANGED <<count, notified, post, shown, tick, reports, presses>>

CancelPod ==
  /\ status \in {"COLLECTING", "THRESHOLD_REACHED"}
  /\ status' = "CANCELLED"
  /\ Send(EditsTo(Known, Cancelled))
  /\ UNCHANGED <<count, notified, post, shown, firing, tick, reports, drafts,
                 presses>>

ConcludePod ==
  /\ status = "POD_CREATED"
  /\ status' = "CONCLUDED"
  /\ Send(EditsTo(Known, Concluded))
  /\ UNCHANGED <<count, notified, post, shown, firing, tick, reports, drafts,
                 presses>>

-----------------------------------------------------------------------------
(* The sweeps.  Their results wait for the end of the loop, which other     *)
(* rounds may hold up.                                                      *)

\* claimExpired and claimForFiring.
ClaimWins_Always == TRUE
ClaimWins == status = "COLLECTING"

\* The deadline has passed and expireOverdueRounds reaches the round.
ExpireOverdueRound ==
  /\ ClaimWins
  /\ \/ /\ count >= Threshold
        /\ status' = "THRESHOLD_REACHED" /\ firing' = Sweep
        /\ UNCHANGED reports
     \/ /\ count < Threshold
        /\ status' = "EXPIRED"
        /\ reports' = reports (+) SetToBag({Report(Expired)})
        /\ UNCHANGED firing
  /\ UNCHANGED <<count, notified, post, shown, edits, tick, drafts, presses>>

FiringSweepReturns ==
  /\ firing = Sweep /\ firing' = NoGuild
  /\ \/ /\ drafts < MaxDrafts /\ drafts' = drafts + 1
        /\ status' = "POD_CREATED"
        /\ reports' = reports (+) SetToBag({Report(Starting(drafts + 1))})
     \/ UNCHANGED <<status, drafts, reports>>
  /\ UNCHANGED <<count, notified, post, shown, edits, tick, presses>>

\* retryFailedFires reads its candidates; by their age it will retry the
\* round or give it up.
RetryFailedFires(t) ==
  /\ tick[t] = "idle"
  /\ status = "THRESHOLD_REACHED" /\ ~notified
  /\ \E plan \in {"try", "quit"} : tick' = [tick EXCEPT ![t] = plan]
  /\ UNCHANGED <<status, count, notified, post, shown, edits, firing, reports,
                 drafts, presses>>

\* The loop's createDraft for the round answers.
RetryAnswered(t) ==
  /\ tick[t] = "try" /\ tick' = [tick EXCEPT ![t] = "idle"]
  /\ \/ /\ drafts < MaxDrafts /\ drafts' = drafts + 1
        /\ status' = "POD_CREATED"
        /\ reports' = reports (+) SetToBag({Report(Starting(drafts + 1))})
     \/ UNCHANGED <<status, drafts, reports>>
  /\ UNCHANGED <<count, notified, post, shown, edits, firing, presses>>

\* markFireFailureNotified
Notifies == notified' = TRUE

GiveUp(t) ==
  /\ tick[t] = "quit" /\ tick' = [tick EXCEPT ![t] = "idle"]
  /\ Notifies
  /\ reports' = reports (+) SetToBag({Report(FireFailed)})
  /\ UNCHANGED <<status, count, post, shown, edits, firing, drafts, presses>>

\* The job's own loop, after the service's, sends one result's edits.
Announce(report) ==
  /\ BagIn(report, reports)
  /\ reports' = reports (-) SetToBag({report})
  /\ Send(EditsTo(report.to, report.body))
  /\ UNCHANGED <<status, count, notified, post, shown, firing, tick, drafts,
                 presses>>

-----------------------------------------------------------------------------
(* Requests in flight, and evictions.                                      *)

DiscordEdits(e) ==
  /\ BagIn(e, edits)
  /\ shown' = [shown EXCEPT ![e.guild] = e.body]
  /\ edits' = edits (-) SetToBag({e})
  /\ UNCHANGED <<status, count, notified, post, firing, tick, reports, drafts,
                 presses>>

\* The answer to a press fails, after it worked perhaps: the handler edits the
\* message to an error.
AnswerFails(e) ==
  /\ BagIn(e, edits) /\ e.via = "press"
  /\ \/ shown' = [shown EXCEPT ![e.guild] = e.body]
     \/ UNCHANGED shown
  /\ edits' = (edits (-) SetToBag({e}))
             (+) SetToBag({[e EXCEPT !.body = Refused, !.via = "bot"]})
  /\ UNCHANGED <<status, count, notified, post, firing, tick, reports, drafts,
                 presses>>

\* Any other edit fails: nobody looks after it, so one that worked all the
\* same is DiscordEdits.
EditFails(e) ==
  /\ BagIn(e, edits) /\ e.via = "bot"
  /\ edits' = edits (-) SetToBag({e})
  /\ UNCHANGED <<status, count, notified, post, shown, firing, tick, reports,
                 drafts, presses>>

\* Requests that were sent may still arrive, but nobody awaits them: the
\* answer to a press becomes an edit like the others.
Unawaited(bag) ==
  LET Copies(e) == IF BagIn(e, bag) THEN bag[e] ELSE 0 IN
  [e \in {[d EXCEPT !.via = "bot"] : d \in BagToSet(bag)} |->
     Copies(e) + Copies([e EXCEPT !.via = "press"])]

Evict ==
  /\ firing' = NoGuild
  /\ tick' = [t \in Ticks |-> "idle"]
  /\ reports' = EmptyBag
  /\ post' = [g \in Guilds |-> IF post[g] = "known" THEN "known" ELSE "lost"]
  /\ edits' = Unawaited(edits)
  /\ UNCHANGED <<status, count, notified, shown, drafts, presses>>

\* Everything but what goes wrong.
Turn ==
  \/ \E g \in Guilds : \/ DiscordPosts(g) \/ PostAnswered(g)
                       \/ PodSignup(g) \/ FiringPressReturns(g)
  \/ CancelPod \/ ConcludePod
  \/ ExpireOverdueRound \/ FiringSweepReturns
  \/ \E t \in Ticks : RetryFailedFires(t) \/ RetryAnswered(t) \/ GiveUp(t)
  \/ \E report \in BagToSet(reports) : Announce(report)
  \/ \E e \in BagToSet(edits) : DiscordEdits(e)

Mishap ==
  \/ \E e \in BagToSet(edits) : AnswerFails(e) \/ EditFails(e)
  \/ Evict

-----------------------------------------------------------------------------
(* History, which no action looks at.                                      *)

\* What the messages of the round are to say.
Current ==
  CASE status = "COLLECTING"        -> Collecting(count)
    [] status = "THRESHOLD_REACHED" -> IF notified THEN FireFailed ELSE Collecting(count)
    [] status = "POD_CREATED"       -> Starting(drafts)
    [] status = "CANCELLED"         -> Cancelled
    [] status = "EXPIRED"           -> Expired
    [] status = "CONCLUDED"         -> Concluded

Told(g) == shown[g] \in {Current, Refused}

\* An older story replaces the present one in a guild, because requests
\* overtook one another or a handler tells what it saw before its awaits; or
\* the id of a message is recorded when the round has already moved on.
ComesLate ==
  \E g \in Guilds :
    \/ Told(g) /\ shown'[g] \notin {Current, Refused}
    \/ ~Told(g) /\ post[g] # "known" /\ post'[g] = "known"

Next ==
  \/ Turn /\ orderly' = (orderly /\ ~ComesLate)
  \/ Mishap /\ orderly' = FALSE

Spec == Init /\ [][Next]_vars

-----------------------------------------------------------------------------
(* Properties.                                                             *)

TypeOK ==
  /\ status \in {"COLLECTING", "THRESHOLD_REACHED", "POD_CREATED",
                 "CANCELLED", "EXPIRED", "CONCLUDED"}
  /\ count \in 0..PodCapacity
  /\ notified \in BOOLEAN
  /\ post \in [Guilds -> {"sent", "posted", "known", "lost"}]
  /\ shown \in [Guilds -> Bodies \cup {Nothing}]
  /\ IsABag(edits) /\ BagToSet(edits) \subseteq Edits
  /\ IsABag(reports)
  /\ BagToSet(reports) \subseteq [body : Bodies, to : SUBSET Guilds]
  /\ firing \in Guilds \cup {Sweep, NoGuild}
  /\ tick \in [Ticks -> {"idle", "try", "quit"}]
  /\ drafts \in 0..MaxDrafts
  /\ presses \in 0..MaxPresses
  /\ orderly \in BOOLEAN

\* Everything a player reads, will read, or would have read.
Said == {shown[g] : g \in Guilds} \cup {e.body : e \in BagToSet(edits)}
        \cup {r.body : r \in BagToSet(reports)}

\* A body is true of the round whenever it may be read: it may be old, for
\* the round can have moved on, but nothing it announces is undone except by
\* a late draft, of a cancelled or concluded round or after the failure
\* notice.  A roster may be out of date at any time.
SaysTrue(body) ==
  CASE body.kind = "expired"   -> status = "EXPIRED"
    [] body.kind = "starting"  -> /\ status \in {"POD_CREATED", "CONCLUDED"}
                                  /\ body.n \in 1..drafts
    [] body.kind = "cancelled" -> status \in {"CANCELLED", "POD_CREATED", "CONCLUDED"}
    [] body.kind = "concluded" -> status \in {"POD_CREATED", "CONCLUDED"}
    [] body.kind = "failed"    -> notified
    [] OTHER                   -> TRUE

\* No guild is told of an end, a draft or a failure that is not the round's,
\* whatever overtakes what.
MessagesAreTrue == \A body \in Said : SaysTrue(body)

\* Whatever changed the round, and however handlers and sweeps interleave:
\* once their requests are served, every message with a known id says how the
\* round stands, or shows the refusal of a late press.  Only a failed edit, an
\* eviction or an older story that came late leaves a message behind
\* (interactions/components.ts, jobs/*.ts, commands/*.ts).
UpdatesReachEveryone ==
  orderly /\ firing = NoGuild /\ edits = EmptyBag /\ reports = EmptyBag =>
    \A g \in Known : Told(g)

\* The roster a message counts is never more than a table, and a table shown
\* as full belongs to a round that was claimed.
FullTableIsClaimed ==
  \A body \in Said :
    body.kind = "collecting" /\ body.n = PodCapacity => status # "COLLECTING"

\* The round's own work, as in PodRounds.
Work ==
  INSTANCE RoundWork
    WITH firing   <- firing # NoGuild,
         trying   <- {t \in Ticks : tick[t] = "try"},
         quitting <- {t \in Ticks : tick[t] = "quit"}

\* Whatever is said meanwhile, the round does no more than PodRounds shows.
RefinesRoundWork == Work!Spec

\* Refuted: "a resolved round is never touched by a late signup at all"
\* (services/pods.ts:319-330): a message that tells how its round ended is
\* never replaced by the refusal of a press that came too late.
EndingStays ==
  [][\A g \in Guilds :
       shown[g].kind \in {"cancelled", "expired", "concluded"} =>
         shown'[g] # Refused]_vars
=============================================================================
