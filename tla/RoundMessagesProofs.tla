-------------------------- MODULE RoundMessagesProofs --------------------------
(***************************************************************************)
(* What the messages of a round say, for any number of guilds, overlapping *)
(* sweeps, presses and drafts.                                             *)
(*                                                                         *)
(* How often a request is in flight matters only to its type: elsewhere    *)
(* edits and reports are looked at through BagToSet.                       *)
(***************************************************************************)
EXTENDS RoundMessages, TLAPS

InFlight == BagToSet(edits)
Waiting  == BagToSet(reports)

LEMMA AddToBag ==
  ASSUME NEW A, NEW S
  PROVE  BagToSet(A (+) SetToBag(S)) = BagToSet(A) \cup S
  BY DEF BagToSet, (+), SetToBag

LEMMA DropFromBag ==
  ASSUME NEW A, NEW B
  PROVE  BagToSet(A (-) B) \subseteq BagToSet(A)
  BY DEF BagToSet, (-)

LEMMA EmptyOfBag == BagToSet(EmptyBag) = {}
  BY DEF BagToSet, EmptyBag, SetToBag

LEMMA RetaggedBag ==
  ASSUME edits' = Unawaited(edits)
  PROVE  InFlight' = {[e EXCEPT !.via = "bot"] : e \in InFlight}
  BY DEF Unawaited, BagToSet, InFlight

\* Adding to a bag and taking from it leave a bag.
LEMMA BagsStayBags ==
  ASSUME NEW A, IsABag(A), NEW S
  PROVE  IsABag(A (+) SetToBag(S)) /\ IsABag(A (-) SetToBag(S))
<1>1. A \in [DOMAIN A -> {n \in Nat : n > 0}]
  BY DEF IsABag
<1>2. IsABag(A (+) SetToBag(S))
  BY <1>1 DEF IsABag, (+), SetToBag
<1>3. IsABag(A (-) SetToBag(S))
  BY <1>1 DEF IsABag, (-), SetToBag
<1> QED
  BY <1>2, <1>3

LEMMA SendAdds ==
  ASSUME NEW es, Send(es)
  PROVE  InFlight' = InFlight \cup es
  BY AddToBag DEF Send, InFlight

-----------------------------------------------------------------------------
(* Shapes.                                                                 *)

Posts == {"sent", "posted", "known", "lost"}
Reports == [body : Bodies, to : SUBSET Guilds]

ShapeInv ==
  /\ count \in 0..PodCapacity /\ drafts \in 0..MaxDrafts
  /\ status = "COLLECTING" => count < PodCapacity
  /\ post \in [Guilds -> Posts]
  /\ shown \in [Guilds -> Bodies \cup {Nothing}]
  /\ tick \in [Ticks -> {"idle", "try", "quit"}]
  /\ InFlight \subseteq Edits /\ Waiting \subseteq Reports

LEMMA BodyFacts ==
  /\ \A n : Collecting(n).kind = "collecting" /\ Collecting(n).n = n
  /\ \A d : Starting(d).kind = "starting" /\ Starting(d).n = d
  /\ Cancelled.kind = "cancelled" /\ Expired.kind = "expired"
  /\ Concluded.kind = "concluded" /\ FireFailed.kind = "failed"
  /\ Refused.kind = "refused" /\ Nothing.kind = "nothing"
  BY DEF Collecting, Starting, Cancelled, Expired, Concluded, FireFailed, Refused, Nothing

LEMMA BodiesHave ==
  /\ \A n \in 0..PodCapacity : Collecting(n) \in Bodies
  /\ \A d \in 1..MaxDrafts : Starting(d) \in Bodies
  /\ {Cancelled, Expired, Concluded, FireFailed, Refused} \subseteq Bodies
  BY DEF Bodies

LEMMA EditsShape ==
  ASSUME NEW body \in Bodies
  PROVE  /\ \A G \in SUBSET Guilds : EditsTo(G, body) \subseteq Edits
         /\ \A g \in Guilds : Answer(g, body) \subseteq Edits /\ FanOut(g, body) \subseteq Edits
         /\ Report(body) \in Reports
<1>1. Known \subseteq Guilds
  BY DEF Known
<1>2. \A G \in SUBSET Guilds : EditsTo(G, body) \subseteq Edits
  BY DEF EditsTo, Edits
<1>3. \A g \in Guilds : Answer(g, body) \subseteq Edits
  BY DEF Answer, Edits
<1> QED
  BY <1>1, <1>2, <1>3 DEF FanOut, Report, Reports

\* What the requests carry.
LEMMA EditsSay ==
  ASSUME NEW body
  PROVE  /\ \A G : \A e \in EditsTo(G, body) : e.body = body /\ e.guild \in G
         /\ \A g : \A e \in Answer(g, body) : e.body = body
         /\ \A g : \A e \in FanOut(g, body) : e.body = body
         /\ Report(body).body = body /\ Report(body).to = Known
<1>1. \A G : \A e \in EditsTo(G, body) : e.body = body /\ e.guild \in G
  BY DEF EditsTo
<1>2. \A g : \A e \in Answer(g, body) : e.body = body
  BY DEF Answer
<1> QED
  BY <1>1, <1>2 DEF FanOut, Report

\* An edit that fails or is handed on keeps its guild.
LEMMA EditChanges ==
  ASSUME NEW e \in Edits
  PROVE  /\ [e EXCEPT !.via = "bot"] \in Edits
         /\ [e EXCEPT !.via = "bot"].body = e.body /\ [e EXCEPT !.via = "bot"].guild = e.guild
         /\ [e EXCEPT !.body = Refused, !.via = "bot"] \in Edits
         /\ [e EXCEPT !.body = Refused, !.via = "bot"].body = Refused
         /\ [e EXCEPT !.body = Refused, !.via = "bot"].guild = e.guild
<1>1. Refused \in Bodies
  BY BodiesHave
<1> QED
  BY <1>1 DEF Edits

\* How each step changes what is in flight and what waits.
Keeps == InFlight' \subseteq InFlight /\ Waiting' \subseteq Waiting
Says(body) ==
  /\ InFlight' \subseteq InFlight \cup EditsTo(Known, body)
  /\ Waiting' \subseteq Waiting \cup {Report(body)}
Answers(g, body) == InFlight' \subseteq InFlight \cup FanOut(g, body) /\ Waiting' = Waiting

LEMMA AnswerFansOut ==
  ASSUME NEW g, NEW body
  PROVE  Answer(g, body) \subseteq FanOut(g, body)
  BY DEF FanOut

LEMMA PostSteps ==
  ASSUME NEW g \in Guilds, DiscordPosts(g) \/ PostAnswered(g)
  PROVE  Keeps
  BY DEF DiscordPosts, PostAnswered, Keeps, InFlight, Waiting

LEMMA SignupSteps ==
  ASSUME ShapeInv, NEW g \in Guilds, PodSignup(g)
  PROVE  /\ shown' = shown /\ post' = post /\ tick' = tick
         /\ notified' = notified /\ drafts' = drafts /\ Waiting' = Waiting
         /\ \/ status # "COLLECTING" /\ UNCHANGED <<status, count, firing>> /\ Answers(g, Refused)
            \/ /\ status = "COLLECTING" /\ count' \in 0..PodCapacity /\ count' < PodCapacity
               /\ UNCHANGED <<status, firing>> /\ Answers(g, Collecting(count'))
            \/ /\ status = "COLLECTING" /\ count' \in 0..PodCapacity
               /\ status' = "THRESHOLD_REACHED" /\ firing' = g /\ InFlight' = InFlight
<1>1. /\ shown' = shown /\ post' = post /\ tick' = tick
      /\ notified' = notified /\ drafts' = drafts /\ Waiting' = Waiting
  BY DEF PodSignup, Waiting
<1>2. CASE status # "COLLECTING" /\ Send(Answer(g, Refused)) /\ UNCHANGED <<status, count, firing>>
  BY <1>1, <1>2, SendAdds, AnswerFansOut DEF Answers
<1>3. ASSUME NEW n \in Rosters(count), status = "COLLECTING", count' = n,
             \/ Full(n) /\ status' = "THRESHOLD_REACHED" /\ firing' = g /\ UNCHANGED edits
             \/ ~Full(n) /\ Send(FanOut(g, Collecting(n))) /\ UNCHANGED <<status, firing>>
      PROVE  \/ /\ count' \in 0..PodCapacity /\ count' < PodCapacity
                /\ UNCHANGED <<status, firing>> /\ Answers(g, Collecting(count'))
             \/ /\ count' \in 0..PodCapacity
                /\ status' = "THRESHOLD_REACHED" /\ firing' = g /\ InFlight' = InFlight
  <2>1. count \in Nat /\ count < PodCapacity /\ PodCapacity \in Nat
    BY <1>3, MessagesAssumption DEF ShapeInv
  <2>2. n \in 0..PodCapacity
    BY <2>1 DEF Rosters
  <2>3. ~Full(n) => n < PodCapacity
    BY <2>1, <2>2 DEF Full
  <2> QED
    BY <1>1, <1>3, <2>2, <2>3, SendAdds DEF Answers, InFlight
<1> QED
  BY <1>1, <1>2, <1>3 DEF PodSignup

LEMMA PressReturnSteps ==
  ASSUME NEW g \in Guilds, FiringPressReturns(g)
  PROVE  /\ firing = g /\ UNCHANGED <<count, notified, post, shown, tick>>
         /\ \/ /\ drafts < MaxDrafts /\ drafts' = drafts + 1 /\ status' = "POD_CREATED"
               /\ Answers(g, Starting(drafts + 1))
            \/ UNCHANGED <<status, drafts>> /\ Answers(g, Collecting(count))
<1>1. Waiting' = Waiting
  BY DEF FiringPressReturns, Waiting
<1> QED
  BY <1>1, SendAdds DEF FiringPressReturns, Answers

LEMMA EndingSteps ==
  /\ CancelPod => Says(Cancelled)
  /\ ConcludePod => Says(Concluded)
<1>1. ASSUME CancelPod \/ ConcludePod PROVE Waiting' = Waiting
  BY <1>1 DEF CancelPod, ConcludePod, Waiting
<1> QED
  BY <1>1, SendAdds DEF CancelPod, ConcludePod, Says

\* A sweep's result, which waits, or nothing.
LEMMA ReportSteps ==
  ASSUME NEW body, edits' = edits,
         reports' = reports \/ reports' = reports (+) SetToBag({Report(body)})
  PROVE  Says(body)
<1>1. Waiting' \subseteq Waiting \cup {Report(body)}
  BY AddToBag DEF Waiting
<1> QED
  BY <1>1 DEF Says, InFlight

LEMMA AnnounceSteps ==
  ASSUME NEW report, Announce(report)
  PROVE  /\ report \in Waiting /\ Waiting' \subseteq Waiting
         /\ InFlight' = InFlight \cup EditsTo(report.to, report.body)
<1>1. report \in Waiting
  BY DEF Announce, BagIn, Waiting
<1>2. Waiting' \subseteq Waiting
  BY DropFromBag DEF Announce, Waiting
<1> QED
  BY <1>1, <1>2, SendAdds DEF Announce

LEMMA EditSteps ==
  ASSUME NEW e, DiscordEdits(e) \/ AnswerFails(e) \/ EditFails(e)
  PROVE  /\ e \in InFlight /\ Waiting' = Waiting
         /\ InFlight' \subseteq InFlight \cup {[e EXCEPT !.body = Refused, !.via = "bot"]}
         /\ DiscordEdits(e) \/ EditFails(e) => InFlight' \subseteq InFlight
<1>1. e \in InFlight /\ Waiting' = Waiting
  BY DEF DiscordEdits, AnswerFails, EditFails, BagIn, InFlight, Waiting
<1>2. CASE DiscordEdits(e) \/ EditFails(e)
  BY <1>1, <1>2, DropFromBag DEF DiscordEdits, EditFails, InFlight
<1>3. CASE AnswerFails(e)
  <2> DEFINE f == [e EXCEPT !.body = Refused, !.via = "bot"]
             A == edits (-) SetToBag({e})
  <2>1. edits' = A (+) SetToBag({f})
    BY <1>3 DEF AnswerFails
  <2>2. BagToSet(A) \subseteq InFlight
    BY DropFromBag DEF InFlight
  <2> HIDE DEF f, A
  <2>3. InFlight' \subseteq InFlight \cup {f}
    BY <2>1, <2>2, AddToBag DEF InFlight
  <2> QED
    BY <1>1, <1>2, <2>3 DEF f
<1> QED
  BY <1>2, <1>3

LEMMA EvictSteps ==
  ASSUME Evict
  PROVE  /\ InFlight' = {[e EXCEPT !.via = "bot"] : e \in InFlight} /\ Waiting' = {}
         /\ firing' = NoGuild /\ tick' = [t \in Ticks |-> "idle"]
         /\ UNCHANGED <<status, count, notified, shown, drafts>>
<1>1. InFlight' = {[e EXCEPT !.via = "bot"] : e \in InFlight}
  BY RetaggedBag DEF Evict
<1>2. Waiting' = {}
  BY EmptyOfBag DEF Evict, Waiting
<1> QED
  BY <1>1, <1>2 DEF Evict

LEMMA ShapeStep ==
  ASSUME ShapeInv, [Next]_vars
  PROVE  ShapeInv'
<1>1. /\ PodCapacity \in Nat \ {0} /\ MaxDrafts \in Nat
      /\ drafts \in 0..MaxDrafts /\ count \in 0..PodCapacity
  BY MessagesAssumption DEF ShapeInv
<1>2. ASSUME NEW body \in Bodies, Says(body)
      PROVE  InFlight' \subseteq Edits /\ Waiting' \subseteq Reports
  <2>1. EditsTo(Known, body) \subseteq Edits /\ Report(body) \in Reports
    BY EditsShape DEF Known
  <2> QED
    BY <1>2, <2>1 DEF Says, ShapeInv
<1>3. ASSUME NEW body \in Bodies, NEW g \in Guilds, Answers(g, body)
      PROVE  InFlight' \subseteq Edits /\ Waiting' \subseteq Reports
  BY <1>3, EditsShape DEF Answers, ShapeInv
<1>4. ASSUME NEW g \in Guilds, DiscordPosts(g) \/ PostAnswered(g)
      PROVE  ShapeInv'
  <2>1. Keeps
    BY <1>4, PostSteps
  <2>2. Collecting(0) \in Bodies
    BY <1>1, BodiesHave
  <2> QED
    BY <1>4, <2>1, <2>2 DEF ShapeInv, DiscordPosts, PostAnswered, Keeps, Posts
<1>5. ASSUME NEW g \in Guilds, PodSignup(g)
      PROVE  ShapeInv'
  <2>1. Refused \in Bodies /\ \A n \in 0..PodCapacity : Collecting(n) \in Bodies
    BY BodiesHave
  <2>2. CASE Answers(g, Refused) /\ UNCHANGED <<status, count>>
    BY <1>3, <1>5, <2>1, <2>2, SignupSteps DEF ShapeInv
  <2>3. CASE Answers(g, Collecting(count')) /\ count' \in 0..PodCapacity /\ count' < PodCapacity
    BY <1>3, <1>5, <2>1, <2>3, SignupSteps DEF ShapeInv
  <2>4. CASE InFlight' = InFlight /\ count' \in 0..PodCapacity /\ status' = "THRESHOLD_REACHED"
    BY <1>5, <2>4, SignupSteps DEF ShapeInv
  <2> QED
    BY <1>5, <2>2, <2>3, <2>4, SignupSteps
<1>6. ASSUME NEW g \in Guilds, FiringPressReturns(g)
      PROVE  ShapeInv'
  <2>1. drafts < MaxDrafts => drafts + 1 \in 1..MaxDrafts
    BY <1>1
  <2>2. CASE /\ drafts < MaxDrafts /\ drafts' = drafts + 1
             /\ status' = "POD_CREATED" /\ Answers(g, Starting(drafts + 1))
    BY <1>3, <1>6, <2>1, <2>2, BodiesHave, PressReturnSteps DEF ShapeInv
  <2>3. CASE UNCHANGED <<status, drafts>> /\ Answers(g, Collecting(count))
    BY <1>1, <1>3, <1>6, <2>3, BodiesHave, PressReturnSteps DEF ShapeInv
  <2> QED
    BY <1>6, <2>2, <2>3, PressReturnSteps
<1>7. CASE CancelPod \/ ConcludePod
  <2>1. InFlight' \subseteq Edits /\ Waiting' \subseteq Reports
    BY <1>2, <1>7, EndingSteps, BodiesHave
  <2> QED
    BY <1>7, <2>1 DEF ShapeInv, CancelPod, ConcludePod
<1>8. CASE ExpireOverdueRound
  <2>1. Says(Expired)
    BY <1>8, ReportSteps DEF ExpireOverdueRound
  <2>2. InFlight' \subseteq Edits /\ Waiting' \subseteq Reports
    BY <1>2, <2>1, BodiesHave
  <2> QED
    BY <1>8, <2>2 DEF ShapeInv, ExpireOverdueRound
<1>9. ASSUME FiringSweepReturns \/ \E t \in Ticks : RetryAnswered(t)
      PROVE  ShapeInv'
  <2>1. CASE drafts < MaxDrafts /\ drafts' = drafts + 1
    <3>1. drafts + 1 \in 1..MaxDrafts /\ drafts' \in 0..MaxDrafts
      BY <1>1, <2>1
    <3>2. Says(Starting(drafts + 1))
      BY <1>9, ReportSteps DEF FiringSweepReturns, RetryAnswered
    <3>3. InFlight' \subseteq Edits /\ Waiting' \subseteq Reports
      BY <1>2, <3>1, <3>2, BodiesHave
    <3> QED
      BY <1>9, <3>1, <3>3 DEF ShapeInv, FiringSweepReturns, RetryAnswered
  <2>2. CASE UNCHANGED <<status, drafts, reports>>
    BY <1>9, <2>2 DEF ShapeInv, FiringSweepReturns, RetryAnswered, InFlight, Waiting
  <2> QED
    BY <1>9, <2>1, <2>2 DEF FiringSweepReturns, RetryAnswered
<1>10. ASSUME NEW t \in Ticks, RetryFailedFires(t)
       PROVE  ShapeInv'
  BY <1>10 DEF ShapeInv, RetryFailedFires, InFlight, Waiting
<1>11. ASSUME NEW t \in Ticks, GiveUp(t)
       PROVE  ShapeInv'
  <2>1. InFlight' \subseteq Edits /\ Waiting' \subseteq Reports
    BY <1>2, <1>11, ReportSteps, BodiesHave DEF GiveUp
  <2> QED
    BY <1>11, <2>1 DEF ShapeInv, GiveUp
<1>12. ASSUME NEW report, Announce(report)
       PROVE  ShapeInv'
  <2>1. report.body \in Bodies /\ report.to \in SUBSET Guilds
    BY <1>12, AnnounceSteps DEF ShapeInv, Reports
  <2>2. EditsTo(report.to, report.body) \subseteq Edits
    BY <2>1, EditsShape
  <2>3. InFlight' \subseteq Edits /\ Waiting' \subseteq Reports
    BY <1>12, <2>2, AnnounceSteps DEF ShapeInv
  <2> QED
    BY <1>12, <2>3 DEF ShapeInv, Announce
<1>13. ASSUME NEW e, DiscordEdits(e) \/ AnswerFails(e) \/ EditFails(e)
       PROVE  ShapeInv'
  <2>1. e \in Edits
    BY <1>13, EditSteps DEF ShapeInv
  <2>2. InFlight' \subseteq Edits /\ Waiting' \subseteq Reports
    BY <1>13, <2>1, EditSteps, EditChanges DEF ShapeInv
  <2>3. e.guild \in Guilds /\ e.body \in Bodies
    BY <2>1 DEF Edits
  <2>4. shown' \in [Guilds -> Bodies \cup {Nothing}]
    BY <1>13, <2>3 DEF ShapeInv, DiscordEdits, AnswerFails, EditFails
  <2> QED
    BY <1>13, <2>2, <2>4 DEF ShapeInv, DiscordEdits, AnswerFails, EditFails
<1>14. CASE Evict
  <2>1. InFlight' \subseteq Edits /\ Waiting' \subseteq Reports
    <3>1. \A e \in InFlight : e \in Edits
      BY DEF ShapeInv
    <3>2. \A e \in InFlight : [e EXCEPT !.via = "bot"] \in Edits
      BY <3>1, EditChanges
    <3>3. InFlight' = {[e EXCEPT !.via = "bot"] : e \in InFlight} /\ Waiting' = {}
      BY <1>14, EvictSteps
    <3> QED
      BY <3>2, <3>3, Zenon
  <2>2. post' \in [Guilds -> Posts] /\ tick' \in [Ticks -> {"idle", "try", "quit"}]
    BY <1>14 DEF Evict, Posts
  <2> QED
    BY <1>14, <2>1, <2>2, EvictSteps DEF ShapeInv
<1>15. CASE UNCHANGED vars
  BY <1>15 DEF ShapeInv, vars, roundVars, InFlight, Waiting
<1> QED
  BY <1>4, <1>5, <1>6, <1>7, <1>8, <1>9, <1>10, <1>11, <1>12, <1>13, <1>14, <1>15
     DEF Next, Turn, Mishap

-----------------------------------------------------------------------------
(* Nothing untrue is said.                                                 *)

\* Nobody fires or retries a round that collects or has expired.
CalmInv ==
  status \in {"COLLECTING", "EXPIRED"} =>
    firing = NoGuild /\ \A t \in Ticks : tick[t] = "idle"

TrueBody(body) ==
  /\ SaysTrue(body)
  /\ body.kind = "collecting" /\ body.n = PodCapacity => status # "COLLECTING"

TruthInv == \A body \in Said : TrueBody(body)

LEMMA SaidParts ==
  \A body : body \in Said <=> \/ \E g \in Guilds : body = shown[g]
                              \/ \E e \in InFlight : body = e.body
                              \/ \E r \in Waiting : body = r.body
  BY DEF Said, InFlight, Waiting

\* A step takes the round no way back.
Onward ==
  /\ status = "EXPIRED" => status' = "EXPIRED"
  /\ status \in {"POD_CREATED", "CONCLUDED"} => status' \in {"POD_CREATED", "CONCLUDED"}
  /\ status \in {"CANCELLED", "POD_CREATED", "CONCLUDED"} =>
       status' \in {"CANCELLED", "POD_CREATED", "CONCLUDED"}
  /\ status # "COLLECTING" => status' # "COLLECTING"
  /\ drafts' = drafts \/ drafts' = drafts + 1
  /\ notified => notified'

LEMMA TruthLasts ==
  ASSUME ShapeInv, Onward, NEW body, TrueBody(body)
  PROVE  TrueBody(body)'
<1>1. 1..drafts \subseteq 1..drafts'
  BY MessagesAssumption DEF ShapeInv, Onward
<1>2. CASE body.kind = "expired"
  BY <1>2 DEF TrueBody, SaysTrue, Onward
<1>3. CASE body.kind = "starting"
  BY <1>1, <1>3 DEF TrueBody, SaysTrue, Onward
<1>4. CASE body.kind = "cancelled"
  BY <1>4 DEF TrueBody, SaysTrue, Onward
<1>5. CASE body.kind = "concluded"
  BY <1>5 DEF TrueBody, SaysTrue, Onward
<1>6. CASE body.kind = "failed"
  BY <1>6 DEF TrueBody, SaysTrue, Onward
<1>7. CASE body.kind \notin {"expired", "starting", "cancelled", "concluded", "failed"}
  BY <1>7 DEF TrueBody, SaysTrue, Onward
<1> QED
  BY <1>2, <1>3, <1>4, <1>5, <1>6, <1>7

LEMMA TruthStep ==
  ASSUME ShapeInv, TruthInv, Onward,
         \A body \in Said' : body \in Said \/ TrueBody(body)'
  PROVE  TruthInv'
<1>1. \A body \in Said : TrueBody(body)'
  BY TruthLasts DEF TruthInv
<1> QED
  BY <1>1 DEF TruthInv

\* One body is sent, or reported; the messages stay as they are.
LEMMA TruthSent ==
  ASSUME ShapeInv, TruthInv, Onward, shown' = shown, NEW body, TrueBody(body)',
         Says(body) \/ \E g \in Guilds : Answers(g, body)
  PROVE  TruthInv'
<1>1. \A e \in InFlight' : e \in InFlight \/ e.body = body
  BY EditsSay DEF Says, Answers
<1>2. \A r \in Waiting' : r \in Waiting \/ r.body = body
  BY EditsSay DEF Says, Answers
<1>3. \A b \in Said' : b \in Said \/ b = body
  <2> SUFFICES ASSUME NEW b \in Said' PROVE b \in Said \/ b = body
    OBVIOUS
  <2>1. \/ \E g \in Guilds : b = shown[g]
        \/ \E e \in InFlight' : b = e.body
        \/ \E r \in Waiting' : b = r.body
    BY DEF Said, InFlight, Waiting
  <2> QED
    BY <1>1, <1>2, <2>1, SaidParts
<1> QED
  BY <1>3, TruthStep

LEMMA CalmStep ==
  ASSUME ShapeInv, CalmInv, [Next]_vars
  PROVE  CalmInv'
<1>1. ASSUME NEW g \in Guilds, DiscordPosts(g) \/ PostAnswered(g)
      PROVE  CalmInv'
  BY <1>1 DEF CalmInv, DiscordPosts, PostAnswered
<1>2. ASSUME NEW g \in Guilds, PodSignup(g)
      PROVE  CalmInv'
  BY <1>2, SignupSteps DEF CalmInv
<1>3. ASSUME NEW g \in Guilds, FiringPressReturns(g)
      PROVE  CalmInv'
  <2>1. g # NoGuild
    BY MessagesAssumption
  <2> QED
    BY <1>3, <2>1, PressReturnSteps DEF CalmInv
<1>4. CASE CancelPod \/ ConcludePod
  BY <1>4 DEF CalmInv, CancelPod, ConcludePod
<1>5. CASE ExpireOverdueRound
  BY <1>5 DEF CalmInv, ExpireOverdueRound, ClaimWins
<1>6. CASE FiringSweepReturns
  BY <1>6, MessagesAssumption DEF CalmInv, FiringSweepReturns
<1>7. ASSUME NEW t \in Ticks, RetryFailedFires(t)
      PROVE  CalmInv'
  BY <1>7 DEF CalmInv, RetryFailedFires
<1>8. ASSUME NEW t \in Ticks, RetryAnswered(t) \/ GiveUp(t)
      PROVE  CalmInv'
  <2>1. tick[t] # "idle" /\ status' \in {status, "POD_CREATED"}
    BY <1>8 DEF RetryAnswered, GiveUp
  <2> QED
    BY <2>1 DEF CalmInv
<1>9. ASSUME NEW x, Announce(x) \/ DiscordEdits(x) \/ AnswerFails(x) \/ EditFails(x)
      PROVE  CalmInv'
  BY <1>9 DEF CalmInv, Announce, DiscordEdits, AnswerFails, EditFails
<1>10. CASE Evict
  BY <1>10, EvictSteps DEF CalmInv
<1>11. CASE UNCHANGED vars
  BY <1>11 DEF CalmInv, vars, roundVars
<1> QED
  BY <1>1, <1>2, <1>3, <1>4, <1>5, <1>6, <1>7, <1>8, <1>9, <1>10, <1>11 DEF Next, Turn, Mishap

LEMMA OnwardStep ==
  ASSUME ShapeInv, CalmInv, [Next]_vars
  PROVE  Onward
<1>1. ASSUME NEW g \in Guilds, DiscordPosts(g) \/ PostAnswered(g)
      PROVE  Onward
  BY <1>1 DEF Onward, DiscordPosts, PostAnswered
<1>2. ASSUME NEW g \in Guilds, PodSignup(g)
      PROVE  Onward
  BY <1>2, SignupSteps DEF Onward
<1>3. ASSUME NEW g \in Guilds, FiringPressReturns(g)
      PROVE  Onward
  <2>1. status \notin {"COLLECTING", "EXPIRED"}
    BY <1>3, MessagesAssumption, PressReturnSteps DEF CalmInv
  <2> QED
    BY <1>3, <2>1, PressReturnSteps DEF Onward
<1>4. CASE CancelPod \/ ConcludePod
  BY <1>4 DEF Onward, CancelPod, ConcludePod
<1>5. CASE ExpireOverdueRound
  BY <1>5 DEF Onward, ExpireOverdueRound, ClaimWins
<1>6. CASE FiringSweepReturns
  <2>1. status \notin {"COLLECTING", "EXPIRED"}
    BY <1>6, MessagesAssumption DEF CalmInv, FiringSweepReturns
  <2> QED
    BY <1>6, <2>1 DEF Onward, FiringSweepReturns
<1>7. ASSUME NEW t \in Ticks, RetryFailedFires(t) \/ GiveUp(t)
      PROVE  Onward
  BY <1>7 DEF Onward, RetryFailedFires, GiveUp, Notifies
<1>8. ASSUME NEW t \in Ticks, RetryAnswered(t)
      PROVE  Onward
  <2>1. status \notin {"COLLECTING", "EXPIRED"}
    BY <1>8 DEF CalmInv, RetryAnswered
  <2> QED
    BY <1>8, <2>1 DEF Onward, RetryAnswered
<1>9. ASSUME NEW x, Announce(x) \/ DiscordEdits(x) \/ AnswerFails(x) \/ EditFails(x)
      PROVE  Onward
  BY <1>9 DEF Onward, Announce, DiscordEdits, AnswerFails, EditFails
<1>10. CASE Evict
  BY <1>10, EvictSteps DEF Onward
<1>11. CASE UNCHANGED vars
  BY <1>11 DEF Onward, vars, roundVars
<1> QED
  BY <1>1, <1>2, <1>3, <1>4, <1>5, <1>6, <1>7, <1>8, <1>9, <1>10, <1>11 DEF Next, Turn, Mishap

\* Nothing new is said: bodies only move, vanish, or become "refused".
LEMMA TruthMoves ==
  ASSUME ShapeInv, TruthInv, Onward,
         \A g \in Guilds : shown'[g] \in Said,
         \A e \in InFlight' : e.body \in Said \/ e.body = Refused,
         \A r \in Waiting' : r.body \in Said
  PROVE  TruthInv'
<1>1. TrueBody(Refused)'
  BY BodyFacts DEF TrueBody, SaysTrue
<1>2. \A b \in Said' : b \in Said \/ b = Refused
  BY DEF Said, InFlight, Waiting
<1> QED
  BY <1>1, <1>2, TruthStep

LEMMA TruthsStep ==
  ASSUME ShapeInv, CalmInv, TruthInv, [Next]_vars
  PROVE  TruthInv'
<1>1. Onward
  BY OnwardStep
<1>2. /\ \A g \in Guilds : shown[g] \in Said
      /\ \A e \in InFlight : e.body \in Said
      /\ \A r \in Waiting : r.body \in Said
  BY SaidParts
<1>3. PodCapacity \in Nat \ {0} /\ drafts \in Nat
  BY MessagesAssumption DEF ShapeInv
<1>4. ASSUME NEW g \in Guilds, DiscordPosts(g)
      PROVE  TruthInv'
  <2>1. TrueBody(Collecting(0))'
    BY <1>3, BodyFacts DEF TrueBody, SaysTrue
  <2>2. \A h \in Guilds : shown'[h] \in Said \/ shown'[h] = Collecting(0)
    BY <1>2, <1>4 DEF DiscordPosts, ShapeInv
  <2>3. Keeps
    BY <1>4, PostSteps
  <2>4. \A b \in Said' : b \in Said \/ b = Collecting(0)
    BY <1>2, <2>2, <2>3 DEF Said, InFlight, Waiting, Keeps
  <2> QED
    BY <1>1, <2>1, <2>4, TruthStep
<1>5. ASSUME NEW g \in Guilds, PostAnswered(g)
      PROVE  TruthInv'
  <2>1. Keeps /\ shown' = shown
    BY <1>5, PostSteps DEF PostAnswered
  <2> QED
    BY <1>1, <1>2, <2>1, TruthMoves DEF Keeps
<1>6. ASSUME NEW g \in Guilds, PodSignup(g)
      PROVE  TruthInv'
  <2>1. TrueBody(Refused)'
    BY BodyFacts DEF TrueBody, SaysTrue
  <2>2. CASE Answers(g, Refused)
    BY <1>1, <1>6, <2>1, <2>2, SignupSteps, TruthSent
  <2>3. CASE Answers(g, Collecting(count')) /\ count' \in 0..PodCapacity /\ count' < PodCapacity
    <3>1. PICK body : body = Collecting(count')
      OBVIOUS
    <3>2. body.kind = "collecting" /\ body.n # PodCapacity
      BY <1>3, <2>3, <3>1, BodyFacts
    <3>3. TrueBody(body)'
      BY <3>2 DEF TrueBody, SaysTrue
    <3> QED
      BY <1>1, <1>6, <2>3, <3>1, <3>3, SignupSteps, TruthSent
  <2>4. CASE InFlight' = InFlight
    BY <1>1, <1>2, <1>6, <2>4, SignupSteps, TruthMoves
  <2> QED
    BY <1>6, <2>2, <2>3, <2>4, SignupSteps
<1>7. ASSUME NEW g \in Guilds, FiringPressReturns(g)
      PROVE  TruthInv'
  <2>1. status \notin {"COLLECTING", "EXPIRED"}
    BY <1>7, MessagesAssumption, PressReturnSteps DEF CalmInv
  <2>2. CASE /\ drafts' = drafts + 1 /\ status' = "POD_CREATED" /\ Answers(g, Starting(drafts + 1))
    <3>1. drafts + 1 \in 1..drafts'
      BY <1>3, <2>2
    <3>2. PICK body : body = Starting(drafts + 1)
      OBVIOUS
    <3>3. body.kind = "starting" /\ body.n \in 1..drafts'
      BY <3>1, <3>2, BodyFacts
    <3>4. TrueBody(body)'
      BY <2>2, <3>3 DEF TrueBody, SaysTrue
    <3> QED
      BY <1>1, <1>7, <2>2, <3>2, <3>4, PressReturnSteps, TruthSent
  <2>3. CASE UNCHANGED <<status, drafts>> /\ Answers(g, Collecting(count))
    <3>1. PICK body : body = Collecting(count)
      OBVIOUS
    <3>2. TrueBody(body)'
      BY <2>1, <2>3, <3>1, BodyFacts DEF TrueBody, SaysTrue
    <3> QED
      BY <1>1, <1>7, <2>3, <3>1, <3>2, PressReturnSteps, TruthSent
  <2> QED
    BY <1>7, <2>2, <2>3, PressReturnSteps
<1>8. CASE CancelPod
  <2>1. TrueBody(Cancelled)' /\ shown' = shown
    BY <1>8, BodyFacts DEF TrueBody, SaysTrue, CancelPod
  <2> QED
    BY <1>1, <1>8, <2>1, EndingSteps, TruthSent
<1>9. CASE ConcludePod
  <2>1. TrueBody(Concluded)' /\ shown' = shown
    BY <1>9, BodyFacts DEF TrueBody, SaysTrue, ConcludePod
  <2> QED
    BY <1>1, <1>9, <2>1, EndingSteps, TruthSent
<1>10. CASE ExpireOverdueRound
  <2>1. shown' = shown /\ edits' = edits
    BY <1>10 DEF ExpireOverdueRound
  <2>2. CASE status' = "EXPIRED" /\ reports' = reports (+) SetToBag({Report(Expired)})
    <3>1. TrueBody(Expired)'
      BY <2>2, BodyFacts DEF TrueBody, SaysTrue
    <3> QED
      BY <1>1, <2>1, <2>2, <3>1, ReportSteps, TruthSent
  <2>3. CASE UNCHANGED reports
    BY <1>1, <1>2, <2>1, <2>3, TruthMoves DEF InFlight, Waiting
  <2> QED
    BY <1>10, <2>2, <2>3 DEF ExpireOverdueRound
<1>11. ASSUME FiringSweepReturns \/ \E t \in Ticks : RetryAnswered(t)
       PROVE  TruthInv'
  <2>1. shown' = shown /\ edits' = edits
    BY <1>11 DEF FiringSweepReturns, RetryAnswered
  <2>2. CASE /\ drafts' = drafts + 1 /\ status' = "POD_CREATED"
             /\ reports' = reports (+) SetToBag({Report(Starting(drafts + 1))})
    <3>1. drafts + 1 \in 1..drafts'
      BY <1>3, <2>2
    <3>2. PICK body : body = Starting(drafts + 1)
      OBVIOUS
    <3>3. body.kind = "starting" /\ body.n \in 1..drafts'
      BY <3>1, <3>2, BodyFacts
    <3>4. TrueBody(body)'
      BY <2>2, <3>3 DEF TrueBody, SaysTrue
    <3>5. Says(body)
      BY <2>1, <2>2, <3>2, ReportSteps
    <3> QED
      BY <1>1, <2>1, <3>4, <3>5, TruthSent
  <2>3. CASE UNCHANGED reports
    BY <1>1, <1>2, <2>1, <2>3, TruthMoves DEF InFlight, Waiting
  <2> QED
    BY <1>11, <2>2, <2>3 DEF FiringSweepReturns, RetryAnswered
<1>12. ASSUME NEW t \in Ticks, RetryFailedFires(t)
       PROVE  TruthInv'
  <2>1. shown' = shown /\ InFlight' = InFlight /\ Waiting' = Waiting
    BY <1>12 DEF RetryFailedFires, InFlight, Waiting
  <2> QED
    BY <1>1, <1>2, <2>1, TruthMoves
<1>13. ASSUME NEW t \in Ticks, GiveUp(t)
       PROVE  TruthInv'
  <2>1. TrueBody(FireFailed)' /\ shown' = shown /\ edits' = edits
    BY <1>13, BodyFacts DEF TrueBody, SaysTrue, GiveUp, Notifies
  <2>2. Says(FireFailed)
    BY <1>13, <2>1, ReportSteps DEF GiveUp
  <2> QED
    BY <1>1, <2>1, <2>2, TruthSent
<1>14. ASSUME NEW report, Announce(report)
       PROVE  TruthInv'
  <2>1. report.body \in Said /\ shown' = shown
    BY <1>2, <1>14, AnnounceSteps DEF Announce
  <2>2. \A e \in InFlight' : e \in InFlight \/ e.body = report.body
    BY <1>14, AnnounceSteps DEF EditsTo
  <2>3. Waiting' \subseteq Waiting
    BY <1>14, AnnounceSteps
  <2> QED
    BY <1>1, <1>2, <2>1, <2>2, <2>3, TruthMoves
<1>15. ASSUME NEW e, DiscordEdits(e) \/ AnswerFails(e) \/ EditFails(e)
       PROVE  TruthInv'
  <2>1. e \in Edits /\ e.body \in Said
    BY <1>2, <1>15, EditSteps DEF ShapeInv
  <2>2. \A f \in InFlight' : f \in InFlight \/ f.body = Refused
    BY <1>15, <2>1, EditSteps, EditChanges
  <2>3. \A g \in Guilds : shown'[g] = shown[g] \/ shown'[g] = e.body
    BY <1>15 DEF ShapeInv, DiscordEdits, AnswerFails, EditFails
  <2>4. Waiting' = Waiting
    BY <1>15, EditSteps
  <2> QED
    BY <1>1, <1>2, <2>1, <2>2, <2>3, <2>4, TruthMoves
<1>16. CASE Evict
  <2>1. \A e \in InFlight : [e EXCEPT !.via = "bot"].body = e.body
    BY EditChanges DEF ShapeInv
  <2>2. InFlight' = {[e EXCEPT !.via = "bot"] : e \in InFlight}
    BY <1>16, EvictSteps
  <2>3. \A f \in InFlight' : \E e \in InFlight : f.body = e.body
    BY <2>1, <2>2, Zenon
  <2>4. Waiting' = {} /\ shown' = shown
    BY <1>16, EvictSteps
  <2> QED
    BY <1>1, <1>2, <2>3, <2>4, TruthMoves
<1>17. CASE UNCHANGED vars
  <2>1. shown' = shown /\ InFlight' = InFlight /\ Waiting' = Waiting
    BY <1>17 DEF vars, roundVars, InFlight, Waiting
  <2> QED
    BY <1>1, <1>2, <2>1, TruthMoves
<1> QED
  BY <1>4, <1>5, <1>6, <1>7, <1>8, <1>9, <1>10,
     <1>11, <1>12, <1>13, <1>14, <1>15, <1>16, <1>17 DEF Next, Turn, Mishap

-----------------------------------------------------------------------------

MessagesInv == ShapeInv /\ CalmInv /\ TruthInv

LEMMA InitialMessages ==
  ASSUME Init
  PROVE  MessagesInv
<1>1. InFlight = {} /\ Waiting = {}
  BY EmptyOfBag DEF Init, InFlight, Waiting
<1>2. \A g \in Guilds : shown[g] = Nothing
  BY DEF Init
<1>3. ShapeInv
  BY <1>1, MessagesAssumption DEF Init, ShapeInv, Posts
<1>4. CalmInv
  BY DEF Init, CalmInv
<1>5. TruthInv
  <2>1. \A body \in Said : body = Nothing
    BY <1>1, <1>2 DEF Said, InFlight, Waiting
  <2>2. TrueBody(Nothing)
    BY BodyFacts DEF TrueBody, SaysTrue
  <2> QED
    BY <2>1, <2>2 DEF TruthInv
<1> QED
  BY <1>3, <1>4, <1>5 DEF MessagesInv

\* What every message, edit in flight and report may say, given the round's
\* status: the invariant behind the properties below.
THEOREM MessagesInvariant == Spec => []MessagesInv
<1>1. Init => MessagesInv
  BY InitialMessages
<1>2. MessagesInv /\ [Next]_vars => MessagesInv'
  BY ShapeStep, CalmStep, TruthsStep DEF MessagesInv
<1> QED
  BY <1>1, <1>2, PTL DEF Spec

\* No guild is told of an end, a draft or a failure that is not the round's,
\* whatever overtakes what (jobs/*.ts, commands/cancelPod.ts, concludePod.ts).
THEOREM NothingUntrueIsSaid == Spec => []MessagesAreTrue
<1>1. MessagesInv => MessagesAreTrue
  BY DEF MessagesInv, TruthInv, TrueBody, MessagesAreTrue
<1> QED
  BY <1>1, MessagesInvariant, PTL

\* A table shown as full was claimed (services/pods.ts:366-385).
THEOREM FullTablesAreClaimed == Spec => []FullTableIsClaimed
<1>1. MessagesInv => FullTableIsClaimed
  BY DEF MessagesInv, TruthInv, TrueBody, FullTableIsClaimed
<1> QED
  BY <1>1, MessagesInvariant, PTL

-----------------------------------------------------------------------------
(* Types: what ShapeInv leaves out, and that requests and results are only  *)
(* ever counted by positive numbers.                                       *)

OrderlyTyped == orderly \in BOOLEAN

TypedInv ==
  /\ status \in {"COLLECTING", "THRESHOLD_REACHED", "POD_CREATED",
                 "CANCELLED", "EXPIRED", "CONCLUDED"}
  /\ notified \in BOOLEAN
  /\ firing \in Guilds \cup {Sweep, NoGuild}
  /\ presses \in 0..MaxPresses
  /\ IsABag(edits) /\ IsABag(reports)

\* An eviction drops no request: each is still counted, as a bot's edit.
LEMMA UnawaitedIsABag ==
  ASSUME IsABag(edits), InFlight \subseteq Edits
  PROVE  IsABag(Unawaited(edits))
<1> DEFINE Copies(e) == IF BagIn(e, edits) THEN edits[e] ELSE 0
           Retagged == {[d EXCEPT !.via = "bot"] : d \in BagToSet(edits)}
           Twin(e) == [e EXCEPT !.via = "press"]
<1>1. \A e : Copies(e) \in Nat /\ (BagIn(e, edits) => Copies(e) > 0)
  BY DEF IsABag, BagIn, BagToSet
<1>2. ASSUME NEW d \in BagToSet(edits)
      PROVE  \/ BagIn([d EXCEPT !.via = "bot"], edits)
             \/ BagIn(Twin([d EXCEPT !.via = "bot"]), edits)
  <2>1. d \in Edits
    BY <1>2 DEF InFlight
  <2>2. d.via = "bot" => [d EXCEPT !.via = "bot"] = d
    BY <2>1 DEF Edits
  <2>3. d.via = "press" => Twin([d EXCEPT !.via = "bot"]) = d
    BY <2>1 DEF Edits
  <2>4. d.via \in {"bot", "press"}
    BY <2>1 DEF Edits
  <2> QED
    BY <1>2, <2>2, <2>3, <2>4 DEF BagIn
<1>3. \A e \in Retagged : BagIn(e, edits) \/ BagIn(Twin(e), edits)
  BY <1>2, Zenon
<1>4. Unawaited(edits) = [e \in Retagged |-> Copies(e) + Copies(Twin(e))]
  BY DEF Unawaited
<1> HIDE DEF Copies, Retagged, Twin
<1>5. \A e \in Retagged : Copies(e) + Copies(Twin(e)) \in {n \in Nat : n > 0}
  BY <1>1, <1>3
<1> QED
  BY <1>4, <1>5 DEF IsABag

\* Sending, reporting and serving keep the two bags bags.
LEMMA TypedStep ==
  ASSUME ShapeInv, TypedInv, [Next]_vars
  PROVE  TypedInv'
<1> USE DEF TypedInv
<1>1. ASSUME NEW es, Send(es) PROVE IsABag(edits')
  BY <1>1, BagsStayBags DEF Send
<1>2. ASSUME NEW g \in Guilds, DiscordPosts(g) \/ PostAnswered(g)
      PROVE  TypedInv'
  BY <1>2 DEF DiscordPosts, PostAnswered
<1>3. ASSUME NEW g \in Guilds, PodSignup(g)
      PROVE  TypedInv'
  <2>1. presses' \in 0..MaxPresses
    BY <1>3, MessagesAssumption DEF PodSignup
  <2>2. /\ status' \in {status, "THRESHOLD_REACHED"} /\ firing' \in {firing, g}
        /\ notified' = notified /\ reports' = reports
    BY <1>3 DEF PodSignup
  <2>3. edits' = edits \/ \E es : Send(es)
    BY <1>3 DEF PodSignup
  <2> QED
    BY <1>1, <2>1, <2>2, <2>3
<1>4. ASSUME NEW g \in Guilds, FiringPressReturns(g)
      PROVE  TypedInv'
  BY <1>1, <1>4 DEF FiringPressReturns
<1>5. CASE CancelPod \/ ConcludePod
  BY <1>1, <1>5 DEF CancelPod, ConcludePod
<1>6. CASE ExpireOverdueRound \/ FiringSweepReturns
  BY <1>6, BagsStayBags DEF ExpireOverdueRound, FiringSweepReturns
<1>7. ASSUME NEW t \in Ticks, RetryFailedFires(t) \/ RetryAnswered(t) \/ GiveUp(t)
      PROVE  TypedInv'
  <2>1. CASE RetryFailedFires(t)
    BY <2>1 DEF RetryFailedFires
  <2>2. CASE RetryAnswered(t)
    BY <2>2, BagsStayBags DEF RetryAnswered
  <2>3. CASE GiveUp(t)
    <3>1. IsABag(reports')
      BY <2>3, BagsStayBags DEF GiveUp
    <3>2. notified' \in BOOLEAN
      BY <2>3, Zenon DEF GiveUp, Notifies
    <3> QED
      BY <2>3, <3>1, <3>2 DEF GiveUp
  <2> QED
    BY <1>7, <2>1, <2>2, <2>3
<1>8. ASSUME NEW report, Announce(report)
      PROVE  TypedInv'
  BY <1>1, <1>8, BagsStayBags DEF Announce
<1>9. ASSUME NEW e, DiscordEdits(e) \/ EditFails(e)
      PROVE  TypedInv'
  BY <1>9, BagsStayBags DEF DiscordEdits, EditFails
<1>10. ASSUME NEW e, AnswerFails(e)
       PROVE  TypedInv'
  <2> DEFINE f == [e EXCEPT !.body = Refused, !.via = "bot"]
             A == edits (-) SetToBag({e})
  <2>1. IsABag(A)
    BY BagsStayBags
  <2>2. edits' = A (+) SetToBag({f})
    BY <1>10 DEF AnswerFails
  <2> HIDE DEF f, A
  <2>3. IsABag(edits')
    BY <2>1, <2>2, BagsStayBags
  <2> QED
    BY <1>10, <2>3 DEF AnswerFails
<1>11. CASE Evict
  <2>1. IsABag(edits')
    BY <1>11, UnawaitedIsABag DEF Evict, ShapeInv
  <2>2. IsABag(EmptyBag)
    BY DEF EmptyBag, SetToBag, IsABag
  <2> QED
    BY <1>11, <2>1, <2>2 DEF Evict
<1>12. CASE UNCHANGED vars
  BY <1>12 DEF vars, roundVars
<1> QED
  BY <1>2, <1>3, <1>4, <1>5, <1>6, <1>7, <1>8, <1>9, <1>10, <1>11, <1>12 DEF Next, Turn, Mishap

LEMMA InitialTyped == Init => TypedInv
<1>1. IsABag(EmptyBag)
  BY DEF EmptyBag, SetToBag, IsABag
<1>2. 0 \in 0..MaxPresses
  BY MessagesAssumption
<1> QED
  BY <1>1, <1>2 DEF Init, TypedInv

\* Every message, request and pending result keeps its shape, and no step
\* sends, serves or drops a request that is not there (discord/podMessage.ts
\* bodies sent by interactions/components.ts, jobs/*.ts and commands/*.ts).
THEOREM MessagesTypeCorrect == Spec => []TypeOK
<1>1. Init => TypedInv
  BY InitialTyped
<1>2. MessagesInv /\ TypedInv /\ [Next]_vars => TypedInv'
  BY TypedStep DEF MessagesInv
<1>3. OrderlyTyped /\ [Next]_vars => OrderlyTyped'
  BY Zenon DEF Next, vars, OrderlyTyped
<1>4. Init => OrderlyTyped
  BY DEF Init, OrderlyTyped
<1>5. MessagesInv /\ TypedInv /\ OrderlyTyped => TypeOK
  BY DEF OrderlyTyped, MessagesInv, ShapeInv, TypedInv, TypeOK, InFlight, Waiting, Posts, Reports
<1> QED
  BY <1>1, <1>2, <1>3, <1>4, <1>5, MessagesInvariant, PTL DEF Spec

-----------------------------------------------------------------------------
(* Whatever changed the round is told to every message with a known id.    *)

Carried(g) == \E e \in InFlight : e.guild = g /\ e.body = Current
Reported(g) == \E r \in Waiting : g \in r.to /\ r.body = Current

\* The press that filled the table has yet to tell it.
Pending == firing \in Guilds /\ status = "THRESHOLD_REACHED" /\ ~notified

Reached(g) == Told(g) \/ Carried(g) \/ Reported(g) \/ Pending

ReachInv ==
  /\ status = "COLLECTING" => ~notified
  /\ orderly => \A g \in Known : Reached(g)

\* Taking one thing out of a bag leaves the others.
LEMMA DropKeepsOthers ==
  ASSUME NEW A, IsABag(A), NEW x
  PROVE  \A y \in BagToSet(A) : y = x \/ y \in BagToSet(A (-) SetToBag({x}))
<1>1. A \in [DOMAIN A -> {n \in Nat : n > 0}]
  BY DEF IsABag
<1> QED
  BY <1>1 DEF BagToSet, (-), SetToBag

LEMMA EditsReach ==
  ASSUME NEW G, NEW body
  PROVE  \A h \in G : \E e \in EditsTo(G, body) : e.guild = h /\ e.body = body
<1> SUFFICES ASSUME NEW h \in G
             PROVE  \E e \in EditsTo(G, body) : e.guild = h /\ e.body = body
  OBVIOUS
<1> DEFINE d == [guild |-> h, body |-> body, via |-> "bot"]
<1>1. d \in EditsTo(G, body)
  BY DEF EditsTo
<1>2. d.guild = h /\ d.body = body
  OBVIOUS
<1> QED
  BY <1>1, <1>2

\* A fan-out reaches the guild of the press and every known message.
LEMMA FanOutReaches ==
  ASSUME NEW g, NEW body
  PROVE  \A h \in Known : \E e \in FanOut(g, body) : e.guild = h /\ e.body = body
<1>1. \A h \in Known \ {g} : \E e \in EditsTo(Known \ {g}, body) : e.guild = h /\ e.body = body
  BY EditsReach
<1>2. \E e \in Answer(g, body) : e.guild = g /\ e.body = body
  BY DEF Answer
<1> QED
  BY <1>1, <1>2 DEF FanOut

\* A step that changes nothing there is to tell, and loses nothing.
LEMMA ReachKept ==
  ASSUME ReachInv, Current' = Current, Pending => Pending',
         status' = "COLLECTING" => ~notified',
         orderly' => orderly,
         orderly' => \A g \in Known' : g \in Known \/ Told(g)',
         orderly' => \A g \in Known : Told(g) => Told(g)',
         \A e \in InFlight : e \in InFlight' \/ shown'[e.guild] = e.body,
         \A r \in Waiting : \/ r \in Waiting'
                            \/ \A g \in r.to : \E e \in InFlight' : e.guild = g /\ e.body = r.body
  PROVE  ReachInv'
<1> SUFFICES ASSUME orderly', NEW g \in Known', g \in Known PROVE Reached(g)'
  BY DEF ReachInv, Reached
<1>1. Reached(g)
  BY DEF ReachInv
<1>2. CASE Told(g)
  BY <1>2 DEF Reached
<1>3. CASE Carried(g)
  <2>1. PICK e \in InFlight : e.guild = g /\ e.body = Current
    BY <1>3 DEF Carried
  <2>2. CASE e \in InFlight'
    BY <2>1, <2>2 DEF Carried, Reached
  <2>3. CASE shown'[g] = Current
    BY <2>3 DEF Told, Reached
  <2> QED
    BY <2>1, <2>2, <2>3
<1>4. CASE Reported(g)
  <2>1. PICK r \in Waiting : g \in r.to /\ r.body = Current
    BY <1>4 DEF Reported
  <2>2. CASE r \in Waiting'
    BY <2>1, <2>2 DEF Reported, Reached
  <2>3. CASE \E e \in InFlight' : e.guild = g /\ e.body = r.body
    BY <2>1, <2>3 DEF Carried, Reached
  <2> QED
    BY <2>1, <2>2, <2>3
<1>5. CASE Pending
  BY <1>5 DEF Reached
<1> QED
  BY <1>1, <1>2, <1>3, <1>4, <1>5 DEF Reached

\* A step that tells every known message what there is to tell now.
LEMMA ReachSent ==
  ASSUME post' = post, status' = "COLLECTING" => ~notified',
         NEW body, body = Current',
         \/ \A g \in Known : \E e \in InFlight' : e.guild = g /\ e.body = body
         \/ \E r \in Waiting' : r.to = Known /\ r.body = body
  PROVE  ReachInv'
<1>1. Known' = Known
  BY DEF Known
<1>2. ASSUME NEW g \in Known PROVE Carried(g)' \/ Reported(g)'
  BY <1>2 DEF Carried, Reported
<1> QED
  BY <1>1, <1>2 DEF ReachInv, Reached

LEMMA WaitingAdds ==
  ASSUME NEW body, reports' = reports (+) SetToBag({Report(body)})
  PROVE  \E r \in Waiting' : r.to = Known /\ r.body = body
<1>1. Waiting' = Waiting \cup {Report(body)}
  BY AddToBag DEF Waiting
<1> QED
  BY <1>1, EditsSay

\* What each turn does to the requests in flight and the results in wait.
LEMMA NothingTaken ==
  ASSUME edits' = edits \/ \E es : Send(es), reports' = reports
  PROVE  InFlight \subseteq InFlight' /\ Waiting' = Waiting
  BY SendAdds DEF InFlight, Waiting

\* A turn that leaves the row as it was.
LEMMA RowStays ==
  ASSUME ReachInv, UNCHANGED <<status, count, notified, drafts>>,
         Pending => Pending', orderly' => orderly /\ ~ComesLate,
         \A e \in InFlight : e \in InFlight' \/ shown'[e.guild] = e.body,
         \A r \in Waiting : \/ r \in Waiting'
                            \/ \A g \in r.to : \E e \in InFlight' : e.guild = g /\ e.body = r.body
  PROVE  ReachInv'
<1>1. Current' = Current
  BY DEF Current
<1>2. Known \subseteq Guilds /\ Known' \subseteq Guilds
  BY DEF Known
<1>3. orderly' => \A g \in Guilds : Told(g) => Told(g)'
  BY <1>1 DEF ComesLate, Told
<1>4. orderly' => \A g \in Known' : g \in Known \/ Told(g)'
  BY <1>2, <1>3 DEF ComesLate, Known
<1>5. status' = "COLLECTING" => ~notified'
  BY DEF ReachInv
<1> QED
  BY <1>1, <1>2, <1>3, <1>4, <1>5, ReachKept

\* A turn that changes the row, but not what there is to tell.
LEMMA StorySame ==
  ASSUME ReachInv, Current' = Current, UNCHANGED <<post, shown>>, Pending => Pending',
         status' # "COLLECTING", orderly' => orderly,
         InFlight \subseteq InFlight', Waiting \subseteq Waiting'
  PROVE  ReachInv'
<1>1. Known' = Known /\ \A g : Told(g)' = Told(g)
  BY DEF Known, Told
<1> QED
  BY <1>1, ReachKept

LEMMA TurnReaches ==
  ASSUME ShapeInv, CalmInv, TypedInv, ReachInv, Turn, orderly' = (orderly /\ ~ComesLate)
  PROVE  ReachInv'
<1>1. status = "COLLECTING" => ~notified /\ firing = NoGuild /\ \A t \in Ticks : tick[t] = "idle"
  BY DEF ReachInv, CalmInv
<1>2. orderly' => orderly /\ ~ComesLate
  OBVIOUS
<1>3. IsABag(edits) /\ IsABag(reports)
  BY DEF TypedInv
<1>4. ASSUME NEW g \in Guilds, DiscordPosts(g) \/ PostAnswered(g)
      PROVE  ReachInv'
  <2>1. InFlight' = InFlight /\ Waiting' = Waiting
    BY <1>4 DEF DiscordPosts, PostAnswered, InFlight, Waiting
  <2>2. UNCHANGED <<status, count, notified, drafts>> /\ (Pending => Pending')
    BY <1>4 DEF DiscordPosts, PostAnswered, Pending
  <2> QED
    BY <1>2, <2>1, <2>2, RowStays
<1>5. ASSUME NEW g \in Guilds, PodSignup(g)
      PROVE  ReachInv'
  <2>1. UNCHANGED <<notified, post, shown, drafts, reports>>
    BY <1>5 DEF PodSignup
  <2>2. CASE /\ status # "COLLECTING" /\ Send(Answer(g, Refused))
             /\ UNCHANGED <<status, count, firing>>
    <3>1. InFlight \subseteq InFlight' /\ Waiting' = Waiting
      BY <2>1, <2>2, NothingTaken
    <3>2. UNCHANGED <<status, count, notified, drafts>> /\ (Pending => Pending')
      BY <2>1, <2>2 DEF Pending
    <3> QED
      BY <1>2, <3>1, <3>2, RowStays
  <2>3. CASE status = "COLLECTING" /\ status' = "THRESHOLD_REACHED" /\ firing' = g
    <3>1. Pending'
      BY <1>1, <2>1, <2>3 DEF Pending
    <3> QED
      BY <2>3, <3>1 DEF ReachInv, Reached
  <2>4. ASSUME NEW n, status = "COLLECTING", count' = n, status' = status,
               Send(FanOut(g, Collecting(n)))
        PROVE  ReachInv'
    <3>1. InFlight' = InFlight \cup FanOut(g, Collecting(n))
      BY <2>4, SendAdds
    <3>2. \A h \in Known : \E e \in FanOut(g, Collecting(n)) :
            e.guild = h /\ e.body = Collecting(n)
      BY FanOutReaches
    <3>3. Current' = Collecting(n)
      BY <2>4 DEF Current
    <3>4. \A h \in Known : \E e \in InFlight' : e.guild = h /\ e.body = Collecting(n)
      BY <3>1, <3>2
    <3> QED
      BY <1>1, <2>1, <2>4, <3>3, <3>4, ReachSent
  <2> QED
    BY <1>5, <2>2, <2>3, <2>4 DEF PodSignup
<1>6. ASSUME NEW g \in Guilds, FiringPressReturns(g)
      PROVE  ReachInv'
  <2>1. UNCHANGED <<count, notified, post, shown, reports>> /\ firing = g
    BY <1>6 DEF FiringPressReturns
  <2>2. status # "COLLECTING"
    BY <1>1, <2>1, MessagesAssumption
  <2>3. CASE /\ drafts' = drafts + 1 /\ status' = "POD_CREATED"
             /\ Send(FanOut(g, Starting(drafts + 1)))
    <3>1. InFlight' = InFlight \cup FanOut(g, Starting(drafts + 1))
      BY <2>3, SendAdds
    <3>2. \A h \in Known : \E e \in InFlight' : e.guild = h /\ e.body = Starting(drafts + 1)
      BY <3>1, FanOutReaches
    <3>3. Current' = Starting(drafts + 1)
      BY <2>3 DEF Current
    <3> QED
      BY <2>1, <2>3, <3>2, <3>3, ReachSent
  <2>4. CASE Send(FanOut(g, Collecting(count))) /\ UNCHANGED <<status, drafts>>
    <3>1. InFlight' = InFlight \cup FanOut(g, Collecting(count))
      BY <2>4, SendAdds
    <3>2. CASE Pending
      <4>1. Current' = Collecting(count)
        BY <2>1, <2>4, <3>2 DEF Pending, Current
      <4>2. \A h \in Known : \E e \in InFlight' : e.guild = h /\ e.body = Collecting(count)
        BY <3>1, FanOutReaches
      <4> QED
        BY <2>1, <2>2, <2>4, <4>1, <4>2, ReachSent
    <3>3. CASE ~Pending
      <4>1. InFlight \subseteq InFlight' /\ Waiting' = Waiting
        BY <2>1, <2>4, NothingTaken
      <4> QED
        BY <1>2, <2>1, <2>4, <3>3, <4>1, RowStays
    <3> QED
      BY <3>2, <3>3
  <2> QED
    BY <1>6, <2>3, <2>4 DEF FiringPressReturns
<1>7. ASSUME NEW body, Send(EditsTo(Known, body)), post' = post,
             Current' = body, status' # "COLLECTING"
      PROVE  ReachInv'
  <2>1. InFlight' = InFlight \cup EditsTo(Known, body)
    BY <1>7, SendAdds
  <2>2. \A h \in Known : \E e \in InFlight' : e.guild = h /\ e.body = body
    BY <2>1, EditsReach
  <2> QED
    BY <1>7, <2>2, ReachSent
<1>8. CASE CancelPod
  <2>1. Current' = Cancelled
    BY <1>8 DEF CancelPod, Current
  <2> QED
    BY <1>7, <1>8, <2>1 DEF CancelPod
<1>9. CASE ConcludePod
  <2>1. Current' = Concluded
    BY <1>9 DEF ConcludePod, Current
  <2> QED
    BY <1>7, <1>9, <2>1 DEF ConcludePod
<1>10. ASSUME NEW body, reports' = reports (+) SetToBag({Report(body)}), post' = post,
              Current' = body, status' # "COLLECTING"
       PROVE  ReachInv'
  <2>1. \E r \in Waiting' : r.to = Known /\ r.body = body
    BY <1>10, WaitingAdds
  <2> QED
    BY <1>10, <2>1, ReachSent
<1>11. CASE ExpireOverdueRound
  <2>1. UNCHANGED <<count, notified, post, shown, edits, drafts>> /\ status = "COLLECTING"
    BY <1>11 DEF ExpireOverdueRound, ClaimWins
  <2>2. CASE status' = "THRESHOLD_REACHED" /\ UNCHANGED reports
    <3>1. Current' = Current
      BY <1>1, <2>1, <2>2 DEF Current
    <3>2. InFlight' = InFlight /\ Waiting' = Waiting /\ ~Pending
      BY <2>1, <2>2 DEF InFlight, Waiting, Pending
    <3> QED
      BY <1>2, <2>1, <2>2, <3>1, <3>2, StorySame
  <2>3. CASE status' = "EXPIRED" /\ reports' = reports (+) SetToBag({Report(Expired)})
    <3>1. Current' = Expired
      BY <2>3 DEF Current
    <3> QED
      BY <1>10, <2>1, <2>3, <3>1
  <2> QED
    BY <1>11, <2>2, <2>3 DEF ExpireOverdueRound
<1>12. ASSUME FiringSweepReturns \/ \E t \in Ticks : RetryAnswered(t)
       PROVE  ReachInv'
  <2>1. UNCHANGED <<count, notified, post, shown, edits>>
    BY <1>12 DEF FiringSweepReturns, RetryAnswered
  <2>2. CASE /\ drafts' = drafts + 1 /\ status' = "POD_CREATED"
             /\ reports' = reports (+) SetToBag({Report(Starting(drafts + 1))})
    <3>1. Current' = Starting(drafts + 1)
      BY <2>2 DEF Current
    <3> QED
      BY <1>10, <2>1, <2>2, <3>1
  <2>3. CASE UNCHANGED <<status, drafts, reports>>
    <3>1. InFlight' = InFlight /\ Waiting' = Waiting
      BY <2>1, <2>3 DEF InFlight, Waiting
    <3>2. Pending => Pending'
      BY <1>12, <2>1, <2>3, MessagesAssumption DEF FiringSweepReturns, RetryAnswered, Pending
    <3> QED
      BY <1>2, <2>1, <2>3, <3>1, <3>2, RowStays
  <2> QED
    BY <1>12, <2>2, <2>3 DEF FiringSweepReturns, RetryAnswered
<1>13. ASSUME NEW t \in Ticks, RetryFailedFires(t)
       PROVE  ReachInv'
  <2>1. InFlight' = InFlight /\ Waiting' = Waiting
    BY <1>13 DEF RetryFailedFires, InFlight, Waiting
  <2>2. UNCHANGED <<status, count, notified, drafts>> /\ (Pending => Pending')
    BY <1>13 DEF RetryFailedFires, Pending
  <2> QED
    BY <1>2, <2>1, <2>2, RowStays
<1>14. ASSUME NEW t \in Ticks, GiveUp(t)
       PROVE  ReachInv'
  <2>1. /\ UNCHANGED <<status, count, post, shown, edits, firing, drafts>>
        /\ reports' = reports (+) SetToBag({Report(FireFailed)}) /\ notified' = TRUE
    BY <1>14 DEF GiveUp, Notifies
  <2>2. status # "COLLECTING"
    BY <1>1, <1>14 DEF GiveUp
  <2>3. CASE status = "THRESHOLD_REACHED"
    <3>1. Current' = FireFailed
      BY <2>1, <2>3 DEF Current
    <3> QED
      BY <1>10, <2>1, <2>2, <3>1
  <2>4. CASE status # "THRESHOLD_REACHED"
    <3>1. Current' = Current
      BY <2>1, <2>2, <2>4 DEF Current
    <3>2. ~Pending /\ InFlight' = InFlight
      BY <2>1, <2>4 DEF Pending, InFlight
    <3>3. Waiting \subseteq Waiting'
      BY <2>1, AddToBag DEF Waiting
    <3> QED
      BY <1>2, <2>1, <2>2, <3>1, <3>2, <3>3, StorySame
  <2> QED
    BY <2>3, <2>4
<1>15. ASSUME NEW report, Announce(report)
       PROVE  ReachInv'
  <2>1. /\ UNCHANGED <<status, count, notified, post, shown, firing, drafts>>
        /\ reports' = reports (-) SetToBag({report})
    BY <1>15 DEF Announce
  <2>2. InFlight' = InFlight \cup EditsTo(report.to, report.body)
    BY <1>15, AnnounceSteps
  <2>3. \A r \in Waiting : r = report \/ r \in Waiting'
    BY <1>3, <2>1, DropKeepsOthers DEF Waiting
  <2>4. \A g \in report.to : \E e \in InFlight' : e.guild = g /\ e.body = report.body
    BY <2>2, EditsReach
  <2>5. Pending => Pending'
    BY <2>1 DEF Pending
  <2> QED
    BY <1>2, <2>1, <2>2, <2>3, <2>4, <2>5, RowStays
<1>16. ASSUME NEW e, DiscordEdits(e)
       PROVE  ReachInv'
  <2>1. /\ UNCHANGED <<status, count, notified, post, firing, reports, drafts>>
        /\ edits' = edits (-) SetToBag({e})
        /\ shown' = [shown EXCEPT ![e.guild] = e.body]
    BY <1>16 DEF DiscordEdits
  <2>2. e.guild \in Guilds
    <3>1. e \in Edits
      BY <1>16, EditSteps DEF ShapeInv
    <3> QED
      BY <3>1 DEF Edits
  <2>3. shown'[e.guild] = e.body
    BY <2>1, <2>2 DEF ShapeInv
  <2>4. \A f \in InFlight : f = e \/ f \in InFlight'
    BY <1>3, <2>1, DropKeepsOthers DEF InFlight
  <2>5. Waiting' = Waiting /\ (Pending => Pending')
    BY <2>1 DEF Waiting, Pending
  <2> QED
    BY <1>2, <2>1, <2>3, <2>4, <2>5, RowStays
<1> QED
  BY <1>4, <1>5, <1>6, <1>8, <1>9, <1>11, <1>12, <1>13, <1>14, <1>15, <1>16 DEF Turn

LEMMA ReachStep ==
  ASSUME ShapeInv, CalmInv, TypedInv, ReachInv, [Next]_vars
  PROVE  ReachInv'
<1>1. CASE Turn /\ orderly' = (orderly /\ ~ComesLate)
  BY <1>1, TurnReaches
<1>2. CASE Mishap /\ orderly' = FALSE
  <2>1. status' = status /\ notified' = notified
    BY <1>2 DEF Mishap, AnswerFails, EditFails, Evict
  <2> QED
    BY <1>2, <2>1 DEF ReachInv
<1>3. CASE UNCHANGED vars
  <2>1. UNCHANGED <<status, count, notified, drafts, firing, post, shown, orderly>>
    BY <1>3 DEF vars, roundVars
  <2>2. InFlight' = InFlight /\ Waiting' = Waiting
    BY <1>3 DEF vars, roundVars, InFlight, Waiting
  <2>3. Current' = Current /\ Known' = Known /\ (Pending => Pending')
    BY <2>1 DEF Current, Known, Pending
  <2>4. \A g : Told(g)' = Told(g)
    BY <2>1, <2>3 DEF Told
  <2>5. status' = "COLLECTING" => ~notified'
    BY <2>1 DEF ReachInv
  <2> QED
    BY <2>1, <2>2, <2>3, <2>4, <2>5, ReachKept
<1> QED
  BY <1>1, <1>2, <1>3 DEF Next

\* However handlers and sweeps interleave, every change of the round is told
\* to every message with a known id: once nothing is in flight, only a failed
\* edit, an eviction or an older story that came late leaves one behind
\* (interactions/components.ts, jobs/*.ts, commands/*.ts).
THEOREM UpdatesArrive == Spec => []UpdatesReachEveryone
<1>1. Init => TypedInv /\ ReachInv
  BY InitialTyped DEF Init, ReachInv, Known
<1>2. MessagesInv /\ TypedInv /\ [Next]_vars => TypedInv'
  BY TypedStep DEF MessagesInv
<1>3. MessagesInv /\ TypedInv /\ ReachInv /\ [Next]_vars => ReachInv'
  BY ReachStep DEF MessagesInv
<1>4. ReachInv => UpdatesReachEveryone
  <2> SUFFICES ASSUME ReachInv, orderly, firing = NoGuild,
                      edits = EmptyBag, reports = EmptyBag, NEW g \in Known
               PROVE  Told(g)
    BY DEF UpdatesReachEveryone
  <2>1. InFlight = {} /\ Waiting = {}
    BY EmptyOfBag DEF InFlight, Waiting
  <2>2. ~Pending
    BY MessagesAssumption DEF Pending
  <2> QED
    BY <2>1, <2>2 DEF ReachInv, Reached, Carried, Reported
<1> QED
  BY <1>1, <1>2, <1>3, <1>4, MessagesInvariant, PTL DEF Spec

-----------------------------------------------------------------------------
(* The work in hand for the round.                                         *)

Trying == {t \in Ticks : tick[t] = "try"}
Quitting == {t \in Ticks : tick[t] = "quit"}
Firing == firing # NoGuild

\* A step that leaves every tick alone, and either nothing else, or takes the
\* round along a claim, an end, or the end of a firing.
LEMMA StepsOfRound ==
  ASSUME TypedInv, TypedInv', tick' = tick, notified' = notified,
         \/ status' = status /\ firing' = firing
         \/ status = "COLLECTING" /\ status' = "THRESHOLD_REACHED"
         \/ /\ \/ status = "COLLECTING" /\ status' \in {"EXPIRED", "CANCELLED"}
               \/ status = "THRESHOLD_REACHED" /\ status' = "CANCELLED"
               \/ status = "POD_CREATED" /\ status' = "CONCLUDED"
            /\ firing' = firing
         \/ Firing /\ ~Firing' /\ status' \in {status, "POD_CREATED"}
  PROVE  [Work!Next]_(Work!vars)
<1>1. /\ {t \in Ticks : tick'[t] = "try"} = {t \in Ticks : tick[t] = "try"}
      /\ {t \in Ticks : tick'[t] = "quit"} = {t \in Ticks : tick[t] = "quit"}
  OBVIOUS
<1>2. CASE status' = status /\ firing' = firing
  <2>1. UNCHANGED Work!vars
    BY <1>1, <1>2, Zenon DEF Work!vars
  <2> QED
    BY <2>1
<1>3. CASE status = "COLLECTING" /\ status' = "THRESHOLD_REACHED"
  <2>1. Work!Claimed
    BY <1>1, <1>3 DEF Work!Claimed
  <2> QED
    BY <2>1 DEF Work!Next
<1>4. CASE /\ \/ status = "COLLECTING" /\ status' \in {"EXPIRED", "CANCELLED"}
              \/ status = "THRESHOLD_REACHED" /\ status' = "CANCELLED"
              \/ status = "POD_CREATED" /\ status' = "CONCLUDED"
           /\ firing' = firing
  <2>1. Work!Ends
    BY <1>1, <1>4 DEF Work!Ends
  <2> QED
    BY <2>1 DEF Work!Next
<1>5. CASE Firing /\ ~Firing' /\ status' \in {status, "POD_CREATED"}
  <2>1. Work!FiringEnds
    BY <1>1, <1>5 DEF Firing, Work!FiringEnds, Work!Created
  <2> QED
    BY <2>1 DEF Work!Next
<1> QED
  BY <1>2, <1>3, <1>4, <1>5

\* Where the round is in a tick's plans, before and after.
LEMMA PlansOfTick ==
  ASSUME tick \in [Ticks -> {"idle", "try", "quit"}], NEW t \in Ticks,
         NEW plan \in {"idle", "try", "quit"}, tick' = [tick EXCEPT ![t] = plan]
  PROVE  /\ Trying' = IF plan = "try" THEN Trying \cup {t} ELSE Trying \ {t}
         /\ Quitting' = IF plan = "quit" THEN Quitting \cup {t} ELSE Quitting \ {t}
<1>1. tick'[t] = plan /\ \A u \in Ticks \ {t} : tick'[u] = tick[u]
  OBVIOUS
<1> QED
  BY <1>1 DEF Trying, Quitting

LEMMA StepsOfTick ==
  ASSUME ShapeInv, NEW t \in Ticks, RetryFailedFires(t) \/ RetryAnswered(t) \/ GiveUp(t)
  PROVE  Work!Next
<1> USE DEF ShapeInv
<1>1. CASE RetryFailedFires(t)
  <2>1. PICK plan \in {"try", "quit"} : tick' = [tick EXCEPT ![t] = plan]
    BY <1>1 DEF RetryFailedFires
  <2>2. t \notin Trying /\ t \notin Quitting
    BY <1>1 DEF RetryFailedFires, Trying, Quitting
  <2>3. \/ Trying' = Trying \cup {t} /\ Quitting' = Quitting
        \/ Trying' = Trying /\ Quitting' = Quitting \cup {t}
    <3>1. /\ Trying' = IF plan = "try" THEN Trying \cup {t} ELSE Trying \ {t}
          /\ Quitting' = IF plan = "quit" THEN Quitting \cup {t} ELSE Quitting \ {t}
      BY <2>1, PlansOfTick
    <3>2. Trying \ {t} = Trying /\ Quitting \ {t} = Quitting
      BY <2>2
    <3> QED
      BY <3>1, <3>2
  <2>4. Work!RetryReads(t)
    BY <1>1, <2>2, <2>3
       DEF RetryFailedFires, Trying, Quitting, Work!RetryReads, Work!Stuck
  <2> QED
    BY <2>4 DEF Work!Next
<1>2. CASE RetryAnswered(t)
  <2>1. /\ t \in Trying /\ t \notin Quitting
        /\ Trying' = Trying \ {t} /\ Quitting' = Quitting \ {t}
    BY <1>2, PlansOfTick DEF RetryAnswered, Trying, Quitting
  <2>2. Quitting' = Quitting
    BY <2>1
  <2>3. Work!RetryAnswered(t)
    BY <1>2, <2>1, <2>2
       DEF RetryAnswered, Trying, Quitting, Work!RetryAnswered, Work!Created
  <2> QED
    BY <2>3 DEF Work!Next
<1>3. CASE GiveUp(t)
  <2>1. /\ t \in Quitting /\ t \notin Trying
        /\ Trying' = Trying \ {t} /\ Quitting' = Quitting \ {t}
    BY <1>3, PlansOfTick DEF GiveUp, Trying, Quitting
  <2>2. Trying' = Trying
    BY <2>1
  <2>3. notified' = TRUE
    BY <1>3 DEF GiveUp, Notifies
  <2>4. Work!GivesUp(t)
    BY <1>3, <2>1, <2>2, <2>3 DEF GiveUp, Trying, Quitting, Work!GivesUp
  <2> QED
    BY <2>4 DEF Work!Next
<1> QED
  BY <1>1, <1>2, <1>3

LEMMA NextWork ==
  ASSUME ShapeInv, CalmInv, TypedInv, TypedInv', [Next]_vars
  PROVE  [Work!Next]_(Work!vars)
<1>1. ASSUME UNCHANGED <<status, notified, firing, tick>>
      PROVE  [Work!Next]_(Work!vars)
  BY <1>1, StepsOfRound
<1>2. ASSUME \/ \E g \in Guilds : DiscordPosts(g) \/ PostAnswered(g)
             \/ \E report \in BagToSet(reports) : Announce(report)
             \/ \E e \in BagToSet(edits) : DiscordEdits(e) \/ AnswerFails(e) \/ EditFails(e)
             \/ UNCHANGED vars
      PROVE  UNCHANGED <<status, notified, firing, tick>>
  BY <1>2 DEF DiscordPosts, PostAnswered, Announce, DiscordEdits, AnswerFails, EditFails,
              vars, roundVars
<1>3. ASSUME NEW g \in Guilds, PodSignup(g)
      PROVE  [Work!Next]_(Work!vars)
  BY <1>3, SignupSteps, StepsOfRound
<1>4. ASSUME NEW g \in Guilds, FiringPressReturns(g)
      PROVE  [Work!Next]_(Work!vars)
  <2>1. g # NoGuild
    BY MessagesAssumption
  <2> QED
    BY <1>4, <2>1, StepsOfRound DEF FiringPressReturns, Firing
<1>5. CASE CancelPod \/ ConcludePod
  BY <1>5, StepsOfRound DEF CancelPod, ConcludePod
<1>6. CASE ExpireOverdueRound
  BY <1>6, StepsOfRound DEF ExpireOverdueRound, ClaimWins
<1>7. CASE FiringSweepReturns
  <2>1. Sweep # NoGuild
    BY MessagesAssumption
  <2> QED
    BY <1>7, <2>1, StepsOfRound DEF FiringSweepReturns, Firing
<1>8. CASE Evict
  <2>1. /\ {t \in Ticks : tick'[t] = "try"} = {}
        /\ {t \in Ticks : tick'[t] = "quit"} = {}
    BY <1>8 DEF Evict
  <2>2. Work!Evicted
    BY <1>8, <2>1 DEF Evict, Work!Evicted
  <2> QED
    BY <2>2 DEF Work!Next
<1> QED
  BY <1>1, <1>2, <1>3, <1>4, <1>5, <1>6, <1>7, <1>8, StepsOfTick DEF Next, Turn, Mishap

\* While messages are posted, edited and lost, the round itself moves as the
\* rounds of PodRounds do: RoundWork is what both have in common.
THEOREM MessagesFollowRound == Spec => RefinesRoundWork
<1>1. Init => Work!Init
  <2>1. ASSUME Init
        PROVE  /\ {t \in Ticks : tick[t] = "try"} = {}
               /\ {t \in Ticks : tick[t] = "quit"} = {}
    BY <2>1 DEF Init
  <2> QED
    BY <2>1 DEF Init, Work!Init
<1>2. Init => TypedInv
  BY InitialTyped
<1>3. MessagesInv /\ TypedInv /\ [Next]_vars => TypedInv'
  BY TypedStep DEF MessagesInv
<1>4. MessagesInv /\ TypedInv /\ TypedInv' /\ [Next]_vars => [Work!Next]_(Work!vars)
  BY NextWork DEF MessagesInv
<1> QED
  BY <1>1, <1>2, <1>3, <1>4, MessagesInvariant, PTL DEF Spec, RefinesRoundWork, Work!Spec
=============================================================================
