--------------------------- MODULE PodRoundsProofs ---------------------------
(* Proofs about PodRounds, for every value of its constants.               *)
EXTENDS PodRounds, FiniteSetTheorems, TLAPS

USE DEF Statuses, NoDeadline

-----------------------------------------------------------------------------
(* The operators the actions are built from.                               *)

LEMMA IdleTasks ==
  /\ NoFire \in FireTask
  /\ NoExpire \in ExpireTask
  /\ NoRetry \in RetryTask
BY MaxDraftsAssumption
   DEF NoFire, NoExpire, NoRetry, FireTask, ExpireTask, RetryTask

LEMMA TaskUpdates ==
  ASSUME TypeOK, NEW r \in Rounds
  PROVE  /\ \A phase \in {"idle", "channel", "channelMade", "invite", "draft"} :
              [fire EXCEPT ![r].phase = phase] \in [Rounds -> FireTask]
         /\ \A chat \in BOOLEAN :
              [fire EXCEPT ![r].phase = "draft", ![r].chat = chat]
                \in [Rounds -> FireTask]
         /\ \A draft \in 0..MaxDrafts :
              [fire EXCEPT ![r].draft = draft] \in [Rounds -> FireTask]
<1>1. fire[r] \in FireTask /\ fire \in [Rounds -> FireTask]
  BY DEF TypeOK
<1>2. ASSUME NEW phase \in {"idle", "channel", "channelMade", "invite", "draft"}
      PROVE  [fire EXCEPT ![r].phase = phase] \in [Rounds -> FireTask]
  <2>1. [fire[r] EXCEPT !.phase = phase] \in FireTask
    BY <1>1 DEF FireTask
  <2> QED BY <1>1, <2>1, Zenon DEF TypeOK
<1>3. ASSUME NEW chat \in BOOLEAN
      PROVE  [fire EXCEPT ![r].phase = "draft", ![r].chat = chat]
                \in [Rounds -> FireTask]
  <2>1. [fire[r] EXCEPT !.phase = "draft", !.chat = chat] \in FireTask
    BY <1>1 DEF FireTask
  <2> QED BY <1>1, <2>1 DEF TypeOK
<1>4. ASSUME NEW draft \in 0..MaxDrafts
      PROVE  [fire EXCEPT ![r].draft = draft] \in [Rounds -> FireTask]
  <2>1. [fire[r] EXCEPT !.draft = draft] \in FireTask
    BY <1>1 DEF FireTask
  <2> QED BY <1>1, <2>1 DEF TypeOK
<1> QED BY <1>2, <1>3, <1>4

\* A claim leaves fireRound waiting for its chat channel, or done.
LEMMA ClaimedIs ==
  ASSUME TypeOK, NEW r \in Rounds, NEW owner \in Ticks \cup {NoTick},
         NEW token \in BOOLEAN, NEW roster \in SUBSET Players
  PROVE  /\ Claimed(r, owner, token, roster) \in FireTask
         /\ \/ Claimed(r, owner, token, roster) = NoFire
            \/ /\ Claimed(r, owner, token, roster).phase = "channel"
               /\ Claimed(r, owner, token, roster).roster = roster
               /\ Claimed(r, owner, token, roster).draft = 0
BY IdleTasks DEF Claimed, NoFire, FireTask

\* What one turn of the expire sweep does to a round: nothing, expire it, or
\* claim it; and only an open round is expired or claimed.
LoopEffect(r, st, fr) ==
  \/ status'[r] = st[r] /\ fire'[r] = fr[r]
  \/ /\ status[r] = "COLLECTING" /\ ~HasQuorum(r)
     /\ status'[r] = "EXPIRED" /\ fire'[r] = fr[r]
  \/ /\ status[r] = "COLLECTING" /\ HasQuorum(r)
     /\ status'[r] = "THRESHOLD_REACHED"
     /\ \/ fire'[r] = fr[r]
        \/ \E owner \in Ticks \cup {NoTick}, token \in BOOLEAN :
             fire'[r] = Claimed(r, owner, token, signedUp[r])

LEMMA ExpireLoopEffect ==
  ASSUME TypeOK, NEW t \in Ticks,
         NEW queue \in SUBSET Rounds, NEW tokens \in SUBSET Rounds,
         NEW st \in [Rounds -> Statuses], NEW fr \in [Rounds -> FireTask],
         ExpireLoop(t, queue, tokens, st, fr)
  PROVE  /\ status' \in [Rounds -> Statuses]
         /\ fire' \in [Rounds -> FireTask]
         /\ expire' \in [Ticks -> ExpireTask]
         /\ \A r \in Rounds : LoopEffect(r, st, fr)
<1> DEFINE Settled(done) == [r \in Rounds |->
             IF r \notin done \/ ~Claims(r) THEN st[r]
             ELSE IF ReadyToFire(r) THEN "THRESHOLD_REACHED"
             ELSE "EXPIRED"]
<1>1. PICK done \in SUBSET queue :
        /\ \A r \in done : ~Suspends(r)
        /\ \/ /\ done = queue
              /\ status' = Settled(done)
              /\ fire' = fr
              /\ expire' = [expire EXCEPT ![t] = NoExpire]
           \/ \E r \in queue \ done :
              /\ Suspends(r)
              /\ status' = [Settled(done) EXCEPT ![r] = "THRESHOLD_REACHED"]
              /\ fire' = [fr EXCEPT ![r] =
                            Claimed(r, t, r \in tokens, signedUp[r])]
              /\ expire' = [expire EXCEPT ![t] =
                              [queue |-> queue \ (done \cup {r}),
                               tokens |-> tokens]]
  BY Zenon DEF ExpireLoop
<1>2. Settled(done) \in [Rounds -> Statuses]
  OBVIOUS
<1>3. \A r \in Rounds :
        \/ Settled(done)[r] = st[r]
        \/ /\ status[r] = "COLLECTING" /\ ~HasQuorum(r)
           /\ Settled(done)[r] = "EXPIRED"
        \/ /\ status[r] = "COLLECTING" /\ HasQuorum(r)
           /\ Settled(done)[r] = "THRESHOLD_REACHED"
  BY DEF ReadyToFire, Claims
<1> HIDE DEF Settled
<1>4. CASE /\ status' = Settled(done)
           /\ fire' = fr
           /\ expire' = [expire EXCEPT ![t] = NoExpire]
  BY <1>2, <1>3, <1>4, IdleTasks DEF TypeOK, LoopEffect
<1>5. ASSUME NEW q \in queue \ done,
             Suspends(q),
             status' = [Settled(done) EXCEPT ![q] = "THRESHOLD_REACHED"],
             fire' = [fr EXCEPT ![q] =
                        Claimed(q, t, q \in tokens, signedUp[q])],
             expire' = [expire EXCEPT ![t] =
                          [queue |-> queue \ (done \cup {q}),
                           tokens |-> tokens]]
      PROVE  /\ status' \in [Rounds -> Statuses]
             /\ fire' \in [Rounds -> FireTask]
             /\ expire' \in [Ticks -> ExpireTask]
             /\ \A r \in Rounds : LoopEffect(r, st, fr)
  <2> DEFINE token == q \in tokens
  <2>a. token \in BOOLEAN
    OBVIOUS
  <2>b. fire' = [fr EXCEPT ![q] = Claimed(q, t, token, signedUp[q])]
    BY <1>5
  <2> HIDE DEF token
  <2>1. Claimed(q, t, token, signedUp[q]) \in FireTask
    BY <2>a, ClaimedIs DEF TypeOK
  <2>2. fire' \in [Rounds -> FireTask] /\ status' \in [Rounds -> Statuses]
    BY <1>2, <1>5, <2>1, <2>b
  <2>3. expire' \in [Ticks -> ExpireTask]
    BY <1>5 DEF TypeOK, ExpireTask
  <2>4. LoopEffect(q, st, fr)
    <3>1. status[q] = "COLLECTING" /\ HasQuorum(q)
      BY <1>5 DEF Suspends, ReadyToFire, Claims
    <3>2. status'[q] = "THRESHOLD_REACHED"
      BY <1>2, <1>5
    <3>3. fire'[q] = Claimed(q, t, token, signedUp[q])
      BY <2>b
    <3> QED BY <2>a, <3>1, <3>2, <3>3 DEF LoopEffect
  <2>5. ASSUME NEW r \in Rounds, r # q
        PROVE  LoopEffect(r, st, fr)
    BY <1>2, <1>3, <1>5, <2>5 DEF LoopEffect
  <2> QED BY <2>2, <2>3, <2>4, <2>5
<1> QED BY <1>1, <1>4, <1>5

\* One turn of the retry sweep only takes candidates out, and reports only
\* candidates it was to give up.
LEMMA RetryLoopEffect ==
  ASSUME TypeOK, NEW t \in Ticks,
         NEW try \in SUBSET Rounds, NEW quit \in SUBSET Rounds,
         NEW chats \in SUBSET Rounds,
         RetryLoop(t, try, quit, chats)
  PROVE  /\ notified' \in [Rounds -> BOOLEAN]
         /\ \A r \in Rounds : notified'[r] => notified[r] \/ r \in quit
         /\ retry' \in [Ticks -> RetryTask]
         /\ \A u \in Ticks \ {t} : retry'[u] = retry[u]
         /\ retry'[t].try \subseteq try
         /\ retry'[t].quit \subseteq quit
         /\ retry'[t].chats \subseteq chats
         /\ retry'[t].cur \in try \cup {NoRound}
         /\ retry'[t].draft = 0
<1>1. PICK done \in SUBSET quit :
        /\ notified' = [r \in Rounds |-> notified[r] \/ r \in done]
        /\ \/ retry' = [retry EXCEPT ![t] = NoRetry]
           \/ \E r \in try :
                retry' = [retry EXCEPT ![t] =
                            [try |-> try \ {r}, quit |-> quit \ done,
                             chats |-> chats, cur |-> r, draft |-> 0]]
  BY Zenon DEF RetryLoop
<1>2. notified' \in [Rounds -> BOOLEAN]
  BY <1>1, Zenon DEF TypeOK
<1>3. \A r \in Rounds : notified'[r] => notified[r] \/ r \in quit
  BY <1>1, Zenon
<1>4. CASE retry' = [retry EXCEPT ![t] = NoRetry]
  BY <1>2, <1>3, <1>4, IdleTasks DEF TypeOK, NoRetry, RetryTask
<1>5. ASSUME NEW q \in try,
             retry' = [retry EXCEPT ![t] =
                         [try |-> try \ {q}, quit |-> quit \ done,
                          chats |-> chats, cur |-> q, draft |-> 0]]
      PROVE  /\ retry' \in [Ticks -> RetryTask]
             /\ \A u \in Ticks \ {t} : retry'[u] = retry[u]
             /\ retry'[t].try \subseteq try
             /\ retry'[t].quit \subseteq quit
             /\ retry'[t].chats \subseteq chats
             /\ retry'[t].cur \in try \cup {NoRound}
             /\ retry'[t].draft = 0
  BY <1>5, MaxDraftsAssumption DEF TypeOK, RetryTask
<1> QED BY <1>1, <1>2, <1>3, <1>4, <1>5

LEMMA FireReturnsEffect ==
  ASSUME TypeOK, NEW r \in Rounds, NEW st \in [Rounds -> Statuses],
         FireReturns(r, st)
  PROVE  /\ status' \in [Rounds -> Statuses]
         /\ fire' \in [Rounds -> FireTask]
         /\ expire' \in [Ticks -> ExpireTask]
         /\ \A q \in Rounds : LoopEffect(q, st, [fire EXCEPT ![r] = NoFire])
<1> DEFINE fr == [fire EXCEPT ![r] = NoFire]
           t  == fire[r].owner
<1>1. fr \in [Rounds -> FireTask]
  BY IdleTasks DEF TypeOK
<1>2. CASE status' = st /\ fire' = fr /\ UNCHANGED expire
  BY <1>1, <1>2 DEF TypeOK, LoopEffect
<1>3. CASE t \in Ticks /\ ExpireLoop(t, expire[t].queue, expire[t].tokens, st, fr)
  <2>1. expire[t].queue \in SUBSET Rounds /\ expire[t].tokens \in SUBSET Rounds
    BY <1>3 DEF TypeOK, ExpireTask
  <2> HIDE DEF fr, t
  <2>2. QED
    BY <1>1, <1>3, <2>1, ExpireLoopEffect DEF fr
<1> QED BY <1>2, <1>3 DEF FireReturns

\* The hook has answered: either createDraft goes out, or fireRound returns.
LEMMA AttemptEffect ==
  ASSUME TypeOK, NEW r \in Rounds, NEW chat \in BOOLEAN,
         AttemptPodCreation(r, chat)
  PROVE  /\ status' \in [Rounds -> Statuses]
         /\ fire' \in [Rounds -> FireTask]
         /\ expire' \in [Ticks -> ExpireTask]
         /\ \/ /\ status' = status
               /\ fire' = [fire EXCEPT ![r].phase = "draft", ![r].chat = chat]
            \/ \A q \in Rounds :
                 LoopEffect(q, status, [fire EXCEPT ![r] = NoFire])
<1>1. CASE /\ fire' = [fire EXCEPT ![r].phase = "draft", ![r].chat = chat]
           /\ UNCHANGED <<status, expire>>
  BY <1>1, TaskUpdates DEF TypeOK
<1>2. CASE FireReturns(r, status)
  BY <1>2, FireReturnsEffect DEF TypeOK
<1> QED BY <1>1, <1>2 DEF AttemptPodCreation

-----------------------------------------------------------------------------
(* Types.                                                                  *)

LEMMA InitTypeOK == Init => TypeOK
BY IdleTasks, CapacityAssumption, WindowAssumption, MaxDraftsAssumption
   DEF Init, TypeOK

LEMMA NextTypeOK == TypeOK /\ [Next]_vars => TypeOK'
<1> SUFFICES ASSUME TypeOK, [Next]_vars PROVE TypeOK'
  OBVIOUS
<1> USE DEF rowVars, timeVars, chatVars
<1>1. ASSUME NEW r \in Rounds, StartPod(r) PROVE TypeOK'
  BY <1>1, ThresholdsAssumption, LeadsAssumption DEF TypeOK, StartPod
<1>2. ASSUME NEW r \in Rounds, CancelPod(r) PROVE TypeOK'
  BY <1>2 DEF TypeOK, CancelPod
<1>3. ASSUME NEW r \in Rounds, ConcludePod(r) PROVE TypeOK'
  BY <1>3 DEF TypeOK, ConcludePod
<1>4. ASSUME NEW r \in Rounds, NEW p \in Players, NEW leave \in BOOLEAN,
             RecordSignup(r, p, leave)
      PROVE  TypeOK'
  <2> DEFINE roster == IF leave THEN signedUp[r] \ {p} ELSE signedUp[r] \cup {p}
             token  == HasToken(r)
  <2>1. roster \in SUBSET Players
    BY DEF TypeOK
  <2>2. token \in BOOLEAN
    BY DEF HasToken
  <2>3. Claimed(r, NoTick, token, roster) \in FireTask
    <3> HIDE DEF roster, token
    <3> QED BY <2>1, <2>2, ClaimedIs
  <2>4. signedUp' = [signedUp EXCEPT ![r] = roster]
    BY <1>4 DEF RecordSignup
  <2>5. \/ /\ status' = [status EXCEPT ![r] = "THRESHOLD_REACHED"]
           /\ fire' = [fire EXCEPT ![r] = Claimed(r, NoTick, token, roster)]
        \/ UNCHANGED <<status, fire>>
    BY <1>4 DEF RecordSignup
  <2>6. UNCHANGED <<rowVars, timeVars, chatChannelId, shareId, notified, linked,
                    expire, retry, chatVars, drafts>>
    BY <1>4 DEF RecordSignup
  <2> HIDE DEF roster, token
  <2>7. /\ signedUp' \in [Rounds -> SUBSET Players]
        /\ status' \in [Rounds -> Statuses]
        /\ fire' \in [Rounds -> FireTask]
    BY <2>1, <2>3, <2>4, <2>5 DEF TypeOK
  <2> QED BY <2>6, <2>7 DEF TypeOK
<1>5. ASSUME NEW g \in Guilds, LinkNiamosGuildToken(g) PROVE TypeOK'
  BY <1>5 DEF TypeOK, LinkNiamosGuildToken
<1>6. ASSUME NEW t \in Ticks, RunScheduledJob(t) PROVE TypeOK'
  <2>1. PICK tokens \in SUBSET Rounds, overdue \in SUBSET Rounds,
             try \in SUBSET Rounds, quit \in SUBSET Rounds,
             chats \in SUBSET Rounds :
          /\ ExpireLoop(t, overdue, tokens, status, fire)
          /\ RetryLoop(t, try, quit, chats)
    <3> DEFINE tokens  == {r \in Rounds : HasToken(r)}
               overdue == {r \in Rounds : Overdue(r)}
               stuck   == {r \in Rounds : Stuck(r)}
               young   == {r \in stuck : WithinWindow(r)}
               try     == young \cap tokens
               quit    == stuck \ young
               chats   == {r \in stuck : chatChannelId[r]}
    <3>1. /\ tokens \in SUBSET Rounds /\ overdue \in SUBSET Rounds
          /\ try \in SUBSET Rounds /\ quit \in SUBSET Rounds
          /\ chats \in SUBSET Rounds
      OBVIOUS
    <3>2. /\ ExpireLoop(t, overdue, tokens, status, fire)
          /\ RetryLoop(t, try, quit, chats)
      BY <1>6, Zenon DEF RunScheduledJob
    <3> HIDE DEF tokens, overdue, try, quit, chats
    <3> QED BY <3>1, <3>2
  <2>2. UNCHANGED <<rowVars, timeVars, chatChannelId, shareId, signedUp, linked,
                    chatVars, drafts>>
    BY <1>6, Zenon DEF RunScheduledJob
  <2>3. /\ status' \in [Rounds -> Statuses]
        /\ fire' \in [Rounds -> FireTask]
        /\ expire' \in [Ticks -> ExpireTask]
    BY <2>1, ExpireLoopEffect DEF TypeOK
  <2>4. /\ notified' \in [Rounds -> BOOLEAN]
        /\ retry' \in [Ticks -> RetryTask]
    BY <2>1, RetryLoopEffect
  <2> QED BY <2>2, <2>3, <2>4 DEF TypeOK
<1>7. ASSUME NEW t \in Ticks, RetryAnswered(t) PROVE TypeOK'
  <2> DEFINE r == retry[t].cur
  <2>1. r \in Rounds
    BY <1>7 DEF RetryAnswered, TypeOK, RetryTask
  <2>2. /\ shareId' \in [Rounds -> 0..MaxDrafts]
        /\ chatChannelId' \in [Rounds -> BOOLEAN]
        /\ status' \in [Rounds -> Statuses]
    <3>1. CASE UNCHANGED <<status, shareId, chatChannelId>>
      BY <3>1 DEF TypeOK
    <3>2. CASE /\ MarkPodCreated(r, retry[t].draft, r \in retry[t].chats)
               /\ status' = [status EXCEPT ![r] = "POD_CREATED"]
      <4>1. shareId' = [shareId EXCEPT ![r] = retry[t].draft]
        BY <3>2 DEF MarkPodCreated
      <4>2. chatChannelId' = [chatChannelId EXCEPT
                                ![r] = chatChannelId[r] \/ r \in retry[t].chats]
        BY <3>2, Zenon DEF MarkPodCreated
      <4>3. (chatChannelId[r] \/ r \in retry[t].chats) \in BOOLEAN
        OBVIOUS
      <4>4. chatChannelId' \in [Rounds -> BOOLEAN]
        BY <4>2, <4>3, Zenon DEF TypeOK
      <4> QED BY <2>1, <3>2, <4>1, <4>4 DEF TypeOK, RetryTask
    <3> QED BY <1>7, <3>1, <3>2 DEF RetryAnswered
  <2>3. /\ RetryLoop(t, retry[t].try, retry[t].quit, retry[t].chats)
        /\ UNCHANGED <<rowVars, timeVars, signedUp, linked, fire, expire,
                       chatVars, drafts>>
    BY <1>7, Zenon DEF RetryAnswered
  <2>4. /\ notified' \in [Rounds -> BOOLEAN]
        /\ retry' \in [Ticks -> RetryTask]
    <3>1. /\ retry[t].try \in SUBSET Rounds /\ retry[t].quit \in SUBSET Rounds
          /\ retry[t].chats \in SUBSET Rounds
      BY DEF TypeOK, RetryTask
    <3> QED BY <2>3, <3>1, RetryLoopEffect
  <2> QED BY <2>2, <2>3, <2>4 DEF TypeOK
<1>8. ASSUME NEW r \in Rounds, DiscordCreatesChannel(r) PROVE TypeOK'
  <2>1. /\ fire' = [fire EXCEPT ![r].phase = "channelMade"]
        /\ channels' = [channels EXCEPT ![r] = @ + 1]
        /\ members' = [members EXCEPT ![r] = fire[r].roster]
        /\ UNCHANGED <<status, rowVars, timeVars, chatChannelId, shareId,
                       notified, signedUp, linked, expire, retry, drafts>>
    BY <1>8 DEF DiscordCreatesChannel
  <2>2. fire' \in [Rounds -> FireTask]
    BY <2>1, TaskUpdates
  <2>3. fire[r].roster \in SUBSET Players
    BY DEF TypeOK, FireTask
  <2> QED BY <2>1, <2>2, <2>3 DEF TypeOK
<1>9. ASSUME NEW r \in Rounds, NiamosCreatesDraft(r) PROVE TypeOK'
  <2> DEFINE next == drafts[r] + 1
  <2>1. next \in 0..MaxDrafts /\ drafts' = [drafts EXCEPT ![r] = next]
    BY <1>9, MaxDraftsAssumption DEF NiamosCreatesDraft, TypeOK
  <2>2. /\ \/ UNCHANGED fire
           \/ fire' = [fire EXCEPT ![r].draft = next]
        /\ \/ UNCHANGED retry
           \/ \E t \in Ticks : retry' = [retry EXCEPT ![t].draft = next]
    BY <1>9 DEF NiamosCreatesDraft
  <2>3. UNCHANGED <<status, rowVars, timeVars, chatChannelId, shareId, notified,
                    signedUp, linked, expire, chatVars>>
    BY <1>9 DEF NiamosCreatesDraft
  <2> HIDE DEF next
  <2>4. fire' \in [Rounds -> FireTask]
    <3>1. [fire EXCEPT ![r].draft = next] \in [Rounds -> FireTask]
      <4>1. [fire[r] EXCEPT !.draft = next] \in FireTask
        <5>1. fire[r] \in FireTask
          BY DEF TypeOK
        <5> QED BY <2>1, <5>1 DEF FireTask
      <4> QED BY <4>1 DEF TypeOK
    <3> QED BY <2>2, <3>1 DEF TypeOK
  <2>5. ASSUME NEW t \in Ticks
        PROVE  [retry[t] EXCEPT !.draft = next] \in RetryTask
    <3>1. retry[t] \in RetryTask
      BY DEF TypeOK
    <3> QED BY <2>1, <3>1 DEF RetryTask
  <2>6. retry' \in [Ticks -> RetryTask]
    BY <2>2, <2>5 DEF TypeOK
  <2> QED BY <2>1, <2>3, <2>4, <2>6 DEF TypeOK
<1>10. ASSUME NEW r \in Rounds, ChannelAnswered(r) PROVE TypeOK'
  <2>1. UNCHANGED <<rowVars, timeVars, chatChannelId, shareId, notified,
                    signedUp, linked, retry, chatVars, drafts>>
    BY <1>10 DEF ChannelAnswered
  <2>2. CASE /\ fire' = [fire EXCEPT ![r].phase = "invite"]
             /\ UNCHANGED <<status, expire>>
    BY <2>1, <2>2, TaskUpdates DEF TypeOK
  <2>3. CASE AttemptPodCreation(r, FALSE)
    BY <2>1, <2>3, AttemptEffect DEF TypeOK
  <2> QED BY <1>10, <2>2, <2>3 DEF ChannelAnswered
<1>11. ASSUME NEW r \in Rounds, InviteAnswered(r) PROVE TypeOK'
  <2>1. UNCHANGED <<rowVars, timeVars, chatChannelId, shareId, notified,
                    signedUp, linked, retry, chatVars, drafts>>
    BY <1>11 DEF InviteAnswered
  <2>2. PICK invited \in BOOLEAN : AttemptPodCreation(r, invited)
    BY <1>11 DEF InviteAnswered
  <2> QED BY <2>1, <2>2, AttemptEffect DEF TypeOK
<1>12. ASSUME NEW r \in Rounds, DraftAnswered(r) PROVE TypeOK'
  <2>1. UNCHANGED <<rowVars, timeVars, notified, signedUp, linked, retry,
                    chatVars, drafts>>
    BY <1>12 DEF DraftAnswered
  <2>2. CASE /\ MarkPodCreated(r, fire[r].draft, fire[r].chat)
             /\ FireReturns(r, [status EXCEPT ![r] = "POD_CREATED"])
    <3>1. [status EXCEPT ![r] = "POD_CREATED"] \in [Rounds -> Statuses]
      BY DEF TypeOK
    <3>2. /\ status' \in [Rounds -> Statuses]
          /\ fire' \in [Rounds -> FireTask]
          /\ expire' \in [Ticks -> ExpireTask]
      BY <2>2, <3>1, FireReturnsEffect
    <3>3. shareId' \in [Rounds -> 0..MaxDrafts]
      BY <2>2 DEF MarkPodCreated, TypeOK, FireTask
    <3>4. chatChannelId' \in [Rounds -> BOOLEAN]
      <4>1. chatChannelId' = [chatChannelId EXCEPT
                                ![r] = chatChannelId[r] \/ fire[r].chat]
        BY <2>2, Zenon DEF MarkPodCreated
      <4>2. (chatChannelId[r] \/ fire[r].chat) \in BOOLEAN
        OBVIOUS
      <4> QED BY <4>1, <4>2, Zenon DEF TypeOK
    <3> QED BY <2>1, <3>2, <3>3, <3>4 DEF TypeOK
  <2>3. CASE FireReturns(r, status) /\ UNCHANGED <<shareId, chatChannelId>>
    BY <2>1, <2>3, FireReturnsEffect DEF TypeOK
  <2> QED BY <1>12, <2>2, <2>3 DEF DraftAnswered
<1>13. CASE ClockAdvances
  BY <1>13, WindowAssumption DEF TypeOK, ClockAdvances, TimeLeft
<1>14. CASE Evict
  BY <1>14, IdleTasks DEF TypeOK, Evict
<1>15. CASE UNCHANGED vars
  BY <1>15 DEF TypeOK, vars
<1> QED
  BY <1>1, <1>2, <1>3, <1>4, <1>5, <1>6, <1>7, <1>8, <1>9, <1>10, <1>11,
     <1>12, <1>13, <1>14, <1>15 DEF Next

\* Every field of a row and every continuation has its type, in every
\* behaviour and for any number of rounds, players and overlapping ticks.
THEOREM TypeCorrect == Spec => []TypeOK
BY InitTypeOK, NextTypeOK, PTL DEF Spec
-----------------------------------------------------------------------------
(* What a step may do to one round and to one tick, whatever action it is. *)

SameRow(r) ==
  /\ signedUp'[r] = signedUp[r]
  /\ threshold'[r] = threshold[r]

SameLink(r) ==
  /\ shareId'[r] = shareId[r]
  /\ chatChannelId'[r] = chatChannelId[r]

\* A createDraft call for r is in flight and Niamos has made draft d for it.
Asked(r, d) ==
  \/ fire[r].phase = "draft" /\ fire[r].draft = d
  \/ \E t \in Ticks : retry[t].cur = r /\ retry[t].draft = d

StatusStep(r) ==
  \/ /\ status'[r] = status[r] /\ SameRow(r) /\ SameLink(r)
  \/ /\ status[r] = "NONE" /\ status'[r] = "COLLECTING"
     /\ threshold'[r] \in Thresholds
     /\ signedUp'[r] = signedUp[r] /\ SameLink(r)
  \/ /\ status[r] = "COLLECTING"
     /\ \E p \in Players :
          signedUp'[r] = signedUp[r] \cup {p} \/ signedUp'[r] = signedUp[r] \ {p}
     /\ \/ Full(signedUp'[r]) /\ status'[r] = "THRESHOLD_REACHED"
        \/ ~Full(signedUp'[r]) /\ status'[r] = "COLLECTING"
     /\ threshold'[r] = threshold[r] /\ SameLink(r)
  \/ /\ status[r] = "COLLECTING"
     /\ \/ HasQuorum(r) /\ status'[r] = "THRESHOLD_REACHED"
        \/ ~HasQuorum(r) /\ status'[r] = "EXPIRED"
     /\ SameRow(r) /\ SameLink(r)
  \/ /\ \E d \in 1..MaxDrafts : Asked(r, d) /\ shareId'[r] = d
     /\ status'[r] = "POD_CREATED" /\ SameRow(r)
  \/ /\ status[r] \in {"COLLECTING", "THRESHOLD_REACHED"}
     /\ status'[r] = "CANCELLED" /\ SameRow(r) /\ SameLink(r)
  \/ /\ status[r] = "POD_CREATED"
     /\ status'[r] = "CONCLUDED" /\ SameRow(r) /\ SameLink(r)

FireStep(r) ==
  \/ fire'[r] = fire[r]
  \/ fire'[r] = NoFire
  \/ /\ fire[r].phase # "idle"
     /\ fire'[r].phase \in {"channelMade", "invite", "draft"}
     /\ fire'[r].roster = fire[r].roster
     /\ fire'[r].draft \in {fire[r].draft, drafts'[r]}
  \/ /\ status[r] = "COLLECTING" /\ status'[r] = "THRESHOLD_REACHED"
     /\ fire'[r].phase = "channel" /\ fire'[r].roster = signedUp'[r]
     /\ fire'[r].draft = 0

ChatStep(r) ==
  \/ channels'[r] = channels[r] /\ members'[r] = members[r]
  \/ /\ fire[r].phase = "channel" /\ fire'[r].phase = "channelMade"
     /\ channels'[r] = channels[r] + 1 /\ members'[r] = fire[r].roster

DraftStep(r) ==
  \/ drafts'[r] = drafts[r]
  \/ AtWork(r) /\ drafts'[r] = drafts[r] + 1

ClockStep(r) ==
  /\ stuckFor[r] = RetryWindow => stuckFor'[r] = RetryWindow
  /\ notified'[r] =>
       \/ notified[r] \/ stuckFor[r] = RetryWindow
       \/ \E t \in Ticks : r \in retry[t].quit

RetryStep(t) ==
  /\ \A r \in Rounds :
       r \in retry'[t].try \/ retry'[t].cur = r =>
         \/ r \in retry[t].try \/ retry[t].cur = r
         \/ status[r] = "THRESHOLD_REACHED"
  /\ \A r \in retry'[t].quit : r \in retry[t].quit \/ stuckFor[r] = RetryWindow
  /\ \A r \in retry'[t].chats :
       \/ r \in retry[t].chats
       \/ status[r] = "THRESHOLD_REACHED" /\ chatChannelId[r]
  /\ \A r \in Rounds :
       retry'[t].cur = r =>
         \/ retry'[t].draft \in {0, drafts'[r]}
         \/ retry[t].cur = r /\ retry'[t].draft = retry[t].draft

RoundStep(r) ==
  StatusStep(r) /\ FireStep(r) /\ ChatStep(r) /\ DraftStep(r) /\ ClockStep(r)

Steps == /\ \A r \in Rounds : RoundStep(r)
         /\ \A t \in Ticks : RetryStep(t)

LEMMA RetryUnchanged ==
  ASSUME UNCHANGED retry
  PROVE  \A t \in Ticks : RetryStep(t)
BY DEF RetryStep

\* The turn of a sweep, or of a continuation that ends, as steps of rounds.
LEMMA LoopSteps ==
  ASSUME TypeOK, NEW r \in Rounds, NEW fr,
         LoopEffect(r, status, fr), fr[r] \in {fire[r], NoFire},
         SameRow(r), SameLink(r)
  PROVE  StatusStep(r) /\ FireStep(r)
<1>1. CASE status'[r] = status[r] /\ fire'[r] = fr[r]
  BY <1>1 DEF StatusStep, FireStep
<1>2. CASE /\ status[r] = "COLLECTING" /\ ~HasQuorum(r)
           /\ status'[r] = "EXPIRED" /\ fire'[r] = fr[r]
  BY <1>2 DEF StatusStep, FireStep
<1>3. CASE /\ status[r] = "COLLECTING" /\ HasQuorum(r)
           /\ status'[r] = "THRESHOLD_REACHED"
           /\ \/ fire'[r] = fr[r]
              \/ \E owner \in Ticks \cup {NoTick}, token \in BOOLEAN :
                   fire'[r] = Claimed(r, owner, token, signedUp[r])
  <2>1. StatusStep(r)
    BY <1>3 DEF StatusStep
  <2>2. ASSUME NEW owner \in Ticks \cup {NoTick}, NEW token \in BOOLEAN,
               fire'[r] = Claimed(r, owner, token, signedUp[r])
        PROVE  FireStep(r)
    <3>1. signedUp[r] \in SUBSET Players
      BY DEF TypeOK
    <3> QED BY <1>3, <2>2, <3>1, ClaimedIs DEF FireStep, SameRow
  <2> QED BY <1>3, <2>1, <2>2 DEF FireStep
<1> QED BY <1>1, <1>2, <1>3 DEF LoopEffect
\* Every turn is a step of each round and of each tick.
LEMMA NextSteps ==
  ASSUME TypeOK, QuorumInv, [Next]_vars
  PROVE  Steps
<1> USE DEF rowVars, timeVars, chatVars
<1> DEFINE Quiet(r) == ChatStep(r) /\ DraftStep(r) /\ ClockStep(r)
<1>1. ASSUME NEW q \in Rounds, StartPod(q) PROVE Steps
  <2>1. \A r \in Rounds : StatusStep(r)
    BY <1>1 DEF StartPod, TypeOK, StatusStep, SameRow, SameLink
  <2>2. \A r \in Rounds : FireStep(r) /\ Quiet(r)
    BY <1>1 DEF StartPod, FireStep, ChatStep, DraftStep, ClockStep
  <2>3. \A t \in Ticks : RetryStep(t)
    BY <1>1, RetryUnchanged DEF StartPod
  <2> QED BY <2>1, <2>2, <2>3 DEF Steps, RoundStep
<1>2. ASSUME NEW q \in Rounds, CancelPod(q) PROVE Steps
  <2>1. \A r \in Rounds : StatusStep(r)
    BY <1>2 DEF CancelPod, TypeOK, StatusStep, SameRow, SameLink
  <2>2. \A r \in Rounds : FireStep(r) /\ Quiet(r)
    BY <1>2 DEF CancelPod, FireStep, ChatStep, DraftStep, ClockStep
  <2>3. \A t \in Ticks : RetryStep(t)
    BY <1>2, RetryUnchanged DEF CancelPod
  <2> QED BY <2>1, <2>2, <2>3 DEF Steps, RoundStep
<1>3. ASSUME NEW q \in Rounds, ConcludePod(q) PROVE Steps
  <2>1. \A r \in Rounds : StatusStep(r)
    BY <1>3 DEF ConcludePod, TypeOK, StatusStep, SameRow, SameLink
  <2>2. \A r \in Rounds : FireStep(r) /\ Quiet(r)
    BY <1>3 DEF ConcludePod, FireStep, ChatStep, DraftStep, ClockStep
  <2>3. \A t \in Ticks : RetryStep(t)
    BY <1>3, RetryUnchanged DEF ConcludePod
  <2> QED BY <2>1, <2>2, <2>3 DEF Steps, RoundStep
<1>4. ASSUME NEW q \in Rounds, NEW p \in Players, NEW leave \in BOOLEAN,
             RecordSignup(q, p, leave)
      PROVE  Steps
  <2> DEFINE roster == IF leave THEN signedUp[q] \ {p} ELSE signedUp[q] \cup {p}
             token  == HasToken(q)
  <2>1. /\ status[q] = "COLLECTING"
        /\ signedUp' = [signedUp EXCEPT ![q] = roster]
        /\ \/ /\ Full(roster)
              /\ status' = [status EXCEPT ![q] = "THRESHOLD_REACHED"]
              /\ fire' = [fire EXCEPT ![q] = Claimed(q, NoTick, token, roster)]
           \/ ~Full(roster) /\ UNCHANGED <<status, fire>>
        /\ UNCHANGED <<rowVars, timeVars, chatChannelId, shareId, notified,
                       linked, expire, retry, chatVars, drafts>>
    BY <1>4 DEF RecordSignup, Open, Claims
  <2>2. roster \in {signedUp[q] \cup {p}, signedUp[q] \ {p}}
    OBVIOUS
  <2>3. roster \in SUBSET Players /\ token \in BOOLEAN
    BY DEF TypeOK, HasToken
  <2> HIDE DEF roster, token
  <2>4. signedUp'[q] = roster /\ \A r \in Rounds \ {q} : signedUp'[r] = signedUp[r]
    BY <2>1 DEF TypeOK
  <2>5. StatusStep(q)
    BY <2>1, <2>2, <2>4 DEF TypeOK, StatusStep, SameLink
  <2>6. \A r \in Rounds \ {q} : StatusStep(r)
    BY <2>1, <2>4 DEF TypeOK, StatusStep, SameRow, SameLink
  <2>7. FireStep(q)
    <3>1. CASE UNCHANGED fire
      BY <3>1 DEF FireStep
    <3>2. CASE /\ status' = [status EXCEPT ![q] = "THRESHOLD_REACHED"]
               /\ fire' = [fire EXCEPT ![q] = Claimed(q, NoTick, token, roster)]
      <4>1. fire'[q] = Claimed(q, NoTick, token, roster)
        BY <3>2 DEF TypeOK
      <4>2. status'[q] = "THRESHOLD_REACHED"
        BY <3>2 DEF TypeOK
      <4> QED BY <2>1, <2>3, <2>4, <4>1, <4>2, ClaimedIs DEF FireStep
    <3> QED BY <2>1, <3>1, <3>2
  <2>8. \A r \in Rounds \ {q} : FireStep(r)
    BY <2>1 DEF TypeOK, FireStep
  <2>9. \A r \in Rounds : Quiet(r)
    BY <2>1 DEF ChatStep, DraftStep, ClockStep
  <2>10. \A t \in Ticks : RetryStep(t)
    BY <2>1, RetryUnchanged
  <2> QED BY <2>5, <2>6, <2>7, <2>8, <2>9, <2>10 DEF Steps, RoundStep
<1>5. ASSUME NEW g \in Guilds, LinkNiamosGuildToken(g) PROVE Steps
  <2>1. \A r \in Rounds : StatusStep(r) /\ FireStep(r) /\ Quiet(r)
    BY <1>5 DEF LinkNiamosGuildToken, StatusStep, SameRow, SameLink, FireStep,
                ChatStep, DraftStep, ClockStep
  <2>2. \A t \in Ticks : RetryStep(t)
    BY <1>5, RetryUnchanged DEF LinkNiamosGuildToken
  <2> QED BY <2>1, <2>2 DEF Steps, RoundStep
<1>6. ASSUME NEW t \in Ticks, RunScheduledJob(t) PROVE Steps
  <2> DEFINE tokens  == {r \in Rounds : HasToken(r)}
             overdue == {r \in Rounds : Overdue(r)}
             stuck   == {r \in Rounds : Stuck(r)}
             young   == {r \in stuck : WithinWindow(r)}
             try     == young \cap tokens
             quit    == stuck \ young
             chats   == {r \in stuck : chatChannelId[r]}
  <2>1. /\ ExpireLoop(t, overdue, tokens, status, fire)
        /\ RetryLoop(t, try, quit, chats)
        /\ UNCHANGED <<rowVars, timeVars, chatChannelId, shareId, signedUp,
                       linked, chatVars, drafts>>
    BY <1>6, Zenon DEF RunScheduledJob
  <2>2. \A r \in Rounds : LoopEffect(r, status, fire)
    <3> HIDE DEF overdue, tokens
    <3>1. overdue \in SUBSET Rounds /\ tokens \in SUBSET Rounds
      BY DEF overdue, tokens
    <3> QED BY <2>1, <3>1, ExpireLoopEffect DEF TypeOK
  <2>3. \A r \in Rounds : StatusStep(r) /\ FireStep(r)
    <3> TAKE r \in Rounds
    <3>1. SameRow(r) /\ SameLink(r)
      BY <2>1 DEF SameRow, SameLink
    <3> QED BY <2>2, <3>1, LoopSteps
  <2>4. /\ \A r \in try : status[r] = "THRESHOLD_REACHED"
        /\ \A r \in quit : stuckFor[r] = RetryWindow
        /\ \A r \in chats : status[r] = "THRESHOLD_REACHED" /\ chatChannelId[r]
        /\ try \in SUBSET Rounds /\ quit \in SUBSET Rounds
        /\ chats \in SUBSET Rounds
    BY WindowAssumption DEF TypeOK, Stuck, WithinWindow
  <2> HIDE DEF try, quit, chats
  <2>5. /\ \A r \in Rounds : notified'[r] => notified[r] \/ r \in quit
        /\ \A u \in Ticks \ {t} : retry'[u] = retry[u]
        /\ retry'[t].try \subseteq try /\ retry'[t].quit \subseteq quit
        /\ retry'[t].chats \subseteq chats
        /\ retry'[t].cur \in try \cup {NoRound} /\ retry'[t].draft = 0
    BY <2>1, <2>4, RetryLoopEffect
  <2>6. \A r \in Rounds : Quiet(r)
    BY <2>1, <2>4, <2>5 DEF ChatStep, DraftStep, ClockStep
  <2>7. RetryStep(t)
    BY <2>4, <2>5, SentinelAssumption DEF RetryStep
  <2>8. \A u \in Ticks \ {t} : RetryStep(u)
    BY <2>5 DEF RetryStep
  <2> QED BY <2>3, <2>6, <2>7, <2>8 DEF Steps, RoundStep
<1>7. ASSUME NEW t \in Ticks, RetryAnswered(t) PROVE Steps
  <2> DEFINE q == retry[t].cur
  <2>1. /\ q \in Rounds
        /\ retry[t].try \in SUBSET Rounds /\ retry[t].quit \in SUBSET Rounds
        /\ retry[t].chats \in SUBSET Rounds /\ retry[t].draft \in 0..MaxDrafts
    BY <1>7 DEF RetryAnswered, TypeOK, RetryTask
  <2>2. /\ \/ /\ retry[t].draft # 0
              /\ shareId' = [shareId EXCEPT ![q] = retry[t].draft]
              /\ chatChannelId' = [chatChannelId EXCEPT
                                     ![q] = @ \/ q \in retry[t].chats]
              /\ status' = [status EXCEPT ![q] = "POD_CREATED"]
           \/ UNCHANGED <<status, shareId, chatChannelId>>
        /\ RetryLoop(t, retry[t].try, retry[t].quit, retry[t].chats)
        /\ UNCHANGED <<rowVars, timeVars, signedUp, linked, fire, expire,
                       chatVars, drafts>>
    BY <1>7, Zenon DEF RetryAnswered, MarkPodCreated
  <2>3. \A r \in Rounds : FireStep(r)
    BY <2>2 DEF FireStep
  <2>4. StatusStep(q)
    <3>1. CASE UNCHANGED <<status, shareId, chatChannelId>>
      BY <2>2, <3>1 DEF StatusStep, SameRow, SameLink
    <3>2. CASE /\ retry[t].draft # 0
               /\ shareId' = [shareId EXCEPT ![q] = retry[t].draft]
               /\ status' = [status EXCEPT ![q] = "POD_CREATED"]
      <4> DEFINE d == retry[t].draft
      <4>1. d \in 1..MaxDrafts /\ Asked(q, d)
        BY <2>1, <3>2, MaxDraftsAssumption DEF Asked
      <4>2. shareId'[q] = d /\ status'[q] = "POD_CREATED"
        BY <2>1, <3>2 DEF TypeOK
      <4>3. SameRow(q)
        BY <2>2 DEF SameRow
      <4> HIDE DEF d, q
      <4> QED BY <4>1, <4>2, <4>3 DEF StatusStep
    <3> QED BY <2>2, <3>1, <3>2
  <2>5. \A r \in Rounds \ {q} : StatusStep(r)
    <3> TAKE r \in Rounds \ {q}
    <3>1. status'[r] = status[r] /\ shareId'[r] = shareId[r]
      BY <2>1, <2>2 DEF TypeOK
    <3>2. chatChannelId'[r] = chatChannelId[r]
      BY <2>2, Zenon DEF TypeOK
    <3> QED BY <2>2, <3>1, <3>2 DEF StatusStep, SameRow, SameLink
  <2>6. /\ \A r \in Rounds : notified'[r] => notified[r] \/ r \in retry[t].quit
        /\ \A u \in Ticks \ {t} : retry'[u] = retry[u]
        /\ retry'[t].try \subseteq retry[t].try
        /\ retry'[t].quit \subseteq retry[t].quit
        /\ retry'[t].chats \subseteq retry[t].chats
        /\ retry'[t].cur \in retry[t].try \cup {NoRound} /\ retry'[t].draft = 0
    <3> DEFINE try == retry[t].try
               quit == retry[t].quit
               chats == retry[t].chats
    <3>1. RetryLoop(t, try, quit, chats)
      BY <2>2
    <3>2. try \in SUBSET Rounds /\ quit \in SUBSET Rounds /\ chats \in SUBSET Rounds
      BY <2>1
    <3> HIDE DEF try, quit, chats
    <3>3. /\ \A r \in Rounds : notified'[r] => notified[r] \/ r \in quit
          /\ \A u \in Ticks \ {t} : retry'[u] = retry[u]
          /\ retry'[t].try \subseteq try /\ retry'[t].quit \subseteq quit
          /\ retry'[t].chats \subseteq chats
          /\ retry'[t].cur \in try \cup {NoRound} /\ retry'[t].draft = 0
      BY <3>1, <3>2, RetryLoopEffect
    <3> QED BY <3>3 DEF try, quit, chats
  <2>7. \A r \in Rounds : Quiet(r)
    BY <2>2, <2>6 DEF ChatStep, DraftStep, ClockStep
  <2>8. RetryStep(t)
    BY <2>6, SentinelAssumption DEF RetryStep
  <2>9. \A u \in Ticks \ {t} : RetryStep(u)
    BY <2>6 DEF RetryStep
  <2> HIDE DEF q
  <2> QED BY <2>3, <2>4, <2>5, <2>7, <2>8, <2>9 DEF Steps, RoundStep
<1>8. ASSUME NEW q \in Rounds, DiscordCreatesChannel(q) PROVE Steps
  <2>1. /\ fire[q].phase = "channel"
        /\ fire' = [fire EXCEPT ![q].phase = "channelMade"]
        /\ channels' = [channels EXCEPT ![q] = @ + 1]
        /\ members' = [members EXCEPT ![q] = fire[q].roster]
        /\ UNCHANGED <<status, rowVars, timeVars, chatChannelId, shareId,
                       notified, signedUp, linked, expire, retry, drafts>>
    BY <1>8 DEF DiscordCreatesChannel
  <2>2. /\ fire'[q].phase = "channelMade" /\ fire'[q].roster = fire[q].roster
        /\ fire'[q].draft = fire[q].draft
        /\ \A r \in Rounds \ {q} : fire'[r] = fire[r]
    <3>1. fire[q] \in FireTask /\ fire \in [Rounds -> FireTask]
      BY DEF TypeOK
    <3> QED BY <2>1, <3>1 DEF FireTask
  <2>3. \A r \in Rounds : FireStep(r)
    BY <2>1, <2>2 DEF FireStep
  <2>4. \A r \in Rounds : ChatStep(r)
    BY <2>1, <2>2 DEF ChatStep, TypeOK
  <2>5. \A r \in Rounds : StatusStep(r) /\ DraftStep(r) /\ ClockStep(r)
    BY <2>1 DEF StatusStep, SameRow, SameLink, DraftStep, ClockStep
  <2>6. \A t \in Ticks : RetryStep(t)
    BY <2>1, RetryUnchanged
  <2> QED BY <2>3, <2>4, <2>5, <2>6 DEF Steps, RoundStep
<1>9. ASSUME NEW q \in Rounds, NiamosCreatesDraft(q) PROVE Steps
  <2> DEFINE next == drafts[q] + 1
  <2>1. /\ drafts' = [drafts EXCEPT ![q] = next]
        /\ \/ /\ fire[q].phase = "draft"
              /\ fire' = [fire EXCEPT ![q].draft = next]
              /\ UNCHANGED retry
           \/ \E t \in Ticks :
              /\ retry[t].cur = q
              /\ retry' = [retry EXCEPT ![t].draft = next]
              /\ UNCHANGED fire
        /\ UNCHANGED <<status, rowVars, timeVars, chatChannelId, shareId,
                       notified, signedUp, linked, expire, chatVars>>
    BY <1>9 DEF NiamosCreatesDraft
  <2>2. AtWork(q)
    BY <2>1 DEF AtWork
  <2>3. \A r \in Rounds : DraftStep(r)
    BY <2>1, <2>2 DEF DraftStep, TypeOK
  <2>4. drafts'[q] = next
    BY <2>1 DEF TypeOK
  <2> HIDE DEF next
  <2>5. \A r \in Rounds : FireStep(r)
    <3>1. CASE UNCHANGED fire
      BY <3>1 DEF FireStep
    <3>2. CASE fire[q].phase = "draft" /\ fire' = [fire EXCEPT ![q].draft = next]
      <4>1. fire[q] \in FireTask /\ fire \in [Rounds -> FireTask]
        BY DEF TypeOK
      <4>2. /\ fire'[q].phase = "draft" /\ fire'[q].roster = fire[q].roster
            /\ fire'[q].draft = next
            /\ \A r \in Rounds \ {q} : fire'[r] = fire[r]
        BY <3>2, <4>1 DEF FireTask
      <4> QED BY <2>4, <3>2, <4>2 DEF FireStep
    <3> QED BY <2>1, <3>1, <3>2
  <2>6. \A t \in Ticks : RetryStep(t)
    <3>1. CASE UNCHANGED retry
      BY <3>1, RetryUnchanged
    <3>2. ASSUME NEW t \in Ticks, retry[t].cur = q,
                 retry' = [retry EXCEPT ![t].draft = next]
          PROVE  \A u \in Ticks : RetryStep(u)
      <4>1. retry[t] \in RetryTask /\ retry \in [Ticks -> RetryTask]
        BY DEF TypeOK
      <4>2. /\ retry'[t].try = retry[t].try /\ retry'[t].quit = retry[t].quit
            /\ retry'[t].chats = retry[t].chats /\ retry'[t].cur = q
            /\ retry'[t].draft = next
            /\ \A u \in Ticks \ {t} : retry'[u] = retry[u]
        BY <3>2, <4>1 DEF RetryTask
      <4> QED BY <2>4, <3>2, <4>2 DEF RetryStep
    <3> QED BY <2>1, <3>1, <3>2
  <2>7. \A r \in Rounds : StatusStep(r) /\ ChatStep(r) /\ ClockStep(r)
    BY <2>1 DEF StatusStep, SameRow, SameLink, ChatStep, ClockStep
  <2> QED BY <2>3, <2>5, <2>6, <2>7 DEF Steps, RoundStep
<1>10. ASSUME NEW q \in Rounds, fire[q].phase # "idle",
              NEW chat \in BOOLEAN, AttemptPodCreation(q, chat),
              UNCHANGED <<rowVars, timeVars, chatChannelId, shareId, notified,
                          signedUp, linked, retry, chatVars, drafts>>
       PROVE  Steps
  <2>1. \A r \in Rounds : StatusStep(r) /\ FireStep(r)
    <3>1. CASE /\ status' = status
               /\ fire' = [fire EXCEPT ![q].phase = "draft", ![q].chat = chat]
      <4>1. fire[q] \in FireTask /\ fire \in [Rounds -> FireTask]
        BY DEF TypeOK
      <4>2. /\ fire'[q].phase = "draft" /\ fire'[q].roster = fire[q].roster
            /\ fire'[q].draft = fire[q].draft
            /\ \A r \in Rounds \ {q} : fire'[r] = fire[r]
        BY <3>1, <4>1 DEF FireTask
      <4>3. \A r \in Rounds : FireStep(r)
        BY <1>10, <4>2 DEF FireStep
      <4>4. \A r \in Rounds : StatusStep(r)
        BY <1>10, <3>1 DEF StatusStep, SameRow, SameLink
      <4> QED BY <4>3, <4>4
    <3>2. CASE \A r \in Rounds :
                 LoopEffect(r, status, [fire EXCEPT ![q] = NoFire])
      <4> TAKE r \in Rounds
      <4>1. SameRow(r) /\ SameLink(r)
        BY <1>10 DEF SameRow, SameLink
      <4>2. [fire EXCEPT ![q] = NoFire][r] \in {fire[r], NoFire}
        BY DEF TypeOK
      <4> QED BY <3>2, <4>1, <4>2, LoopSteps
    <3> QED BY <1>10, <3>1, <3>2, AttemptEffect
  <2>2. \A r \in Rounds : Quiet(r)
    BY <1>10 DEF ChatStep, DraftStep, ClockStep
  <2>3. \A t \in Ticks : RetryStep(t)
    BY <1>10, RetryUnchanged
  <2> QED BY <2>1, <2>2, <2>3 DEF Steps, RoundStep
<1>11. ASSUME NEW q \in Rounds, ChannelAnswered(q) PROVE Steps
  <2>1. UNCHANGED <<rowVars, timeVars, chatChannelId, shareId, notified,
                    signedUp, linked, retry, chatVars, drafts>>
    BY <1>11 DEF ChannelAnswered
  <2>2. CASE /\ fire[q].phase = "channelMade"
             /\ fire' = [fire EXCEPT ![q].phase = "invite"]
             /\ UNCHANGED <<status, expire>>
    <3>1. fire[q] \in FireTask /\ fire \in [Rounds -> FireTask]
      BY DEF TypeOK
    <3>2. /\ fire'[q].phase = "invite" /\ fire'[q].roster = fire[q].roster
          /\ fire'[q].draft = fire[q].draft
          /\ \A r \in Rounds \ {q} : fire'[r] = fire[r]
      BY <2>2, <3>1 DEF FireTask
    <3>3. \A r \in Rounds : FireStep(r)
      BY <2>2, <3>2 DEF FireStep
    <3>4. \A r \in Rounds : StatusStep(r) /\ ChatStep(r) /\ DraftStep(r) /\ ClockStep(r)
      BY <2>1, <2>2 DEF StatusStep, SameRow, SameLink, ChatStep, DraftStep, ClockStep
    <3>5. \A t \in Ticks : RetryStep(t)
      BY <2>1, RetryUnchanged
    <3> QED BY <3>3, <3>4, <3>5 DEF Steps, RoundStep
  <2>3. CASE /\ fire[q].phase \in {"channel", "channelMade"}
             /\ AttemptPodCreation(q, FALSE)
    BY <1>10, <2>1, <2>3
  <2> QED BY <1>11, <2>2, <2>3 DEF ChannelAnswered
<1>12. ASSUME NEW q \in Rounds, InviteAnswered(q) PROVE Steps
  <2>1. PICK invited \in BOOLEAN : AttemptPodCreation(q, invited)
    BY <1>12 DEF InviteAnswered
  <2>2. /\ fire[q].phase # "idle"
        /\ UNCHANGED <<rowVars, timeVars, chatChannelId, shareId, notified,
                       signedUp, linked, retry, chatVars, drafts>>
    BY <1>12 DEF InviteAnswered
  <2> QED BY <1>10, <2>1, <2>2
<1>13. ASSUME NEW q \in Rounds, DraftAnswered(q) PROVE Steps
  <2> DEFINE fr == [fire EXCEPT ![q] = NoFire]
  <2>1. /\ fire[q].phase = "draft"
        /\ UNCHANGED <<rowVars, timeVars, notified, signedUp, linked, retry,
                       chatVars, drafts>>
    BY <1>13 DEF DraftAnswered
  <2>2. \A r \in Rounds : SameRow(r) /\ fr[r] \in {fire[r], NoFire}
    BY <2>1 DEF SameRow, TypeOK
  <2>3. \A r \in Rounds : Quiet(r)
    BY <2>1 DEF ChatStep, DraftStep, ClockStep
  <2>4. \A t \in Ticks : RetryStep(t)
    BY <2>1, RetryUnchanged
  <2>5. CASE FireReturns(q, status) /\ UNCHANGED <<shareId, chatChannelId>>
    <3>1. \A r \in Rounds : LoopEffect(r, status, fr)
      BY <2>5, FireReturnsEffect DEF TypeOK
    <3>2. \A r \in Rounds : SameLink(r)
      BY <2>5 DEF SameLink
    <3> HIDE DEF fr
    <3>3. \A r \in Rounds : StatusStep(r) /\ FireStep(r)
      BY <2>2, <3>1, <3>2, LoopSteps
    <3> QED BY <2>3, <2>4, <3>3 DEF Steps, RoundStep
  <2>6. CASE /\ fire[q].draft # 0
             /\ MarkPodCreated(q, fire[q].draft, fire[q].chat)
             /\ FireReturns(q, [status EXCEPT ![q] = "POD_CREATED"])
    <3> DEFINE st == [status EXCEPT ![q] = "POD_CREATED"]
               d  == fire[q].draft
    <3>1. /\ st \in [Rounds -> Statuses] /\ st[q] = "POD_CREATED"
          /\ \A r \in Rounds \ {q} : st[r] = status[r]
      BY DEF TypeOK
    <3>2. \A r \in Rounds : LoopEffect(r, st, fr)
      BY <2>6, <3>1, FireReturnsEffect
    <3>3. status[q] # "COLLECTING"
      BY <2>1 DEF QuorumInv, AtWork, Begun, Fired
    <3>4. fr[q] = NoFire
      BY DEF TypeOK
    <3>5. d \in 1..MaxDrafts /\ Asked(q, d)
      <4>1. fire[q] \in FireTask
        BY DEF TypeOK
      <4> QED BY <2>1, <2>6, <4>1, MaxDraftsAssumption DEF FireTask, Asked
    <3>6. shareId' = [shareId EXCEPT ![q] = d]
      BY <2>6 DEF MarkPodCreated
    <3>7. chatChannelId' = [chatChannelId EXCEPT ![q] = @ \/ fire[q].chat]
      BY <2>6, Zenon DEF MarkPodCreated
    <3> HIDE DEF st, fr, d
    <3>8. StatusStep(q) /\ FireStep(q)
      <4>1. status'[q] = "POD_CREATED" /\ fire'[q] = NoFire
        BY <3>1, <3>2, <3>3, <3>4 DEF LoopEffect
      <4>2. shareId'[q] = d
        BY <3>6 DEF TypeOK
      <4> QED BY <2>2, <3>5, <4>1, <4>2 DEF StatusStep, FireStep
    <3>9. \A r \in Rounds \ {q} : StatusStep(r) /\ FireStep(r)
      <4> TAKE r \in Rounds \ {q}
      <4>1. LoopEffect(r, status, fr)
        BY <3>1, <3>2 DEF LoopEffect
      <4>2. shareId'[r] = shareId[r]
        BY <3>6 DEF TypeOK
      <4>3. chatChannelId'[r] = chatChannelId[r]
        BY <3>7, Zenon DEF TypeOK
      <4>4. SameLink(r)
        BY <4>2, <4>3 DEF SameLink
      <4> QED BY <2>2, <4>1, <4>4, LoopSteps
    <3> QED BY <2>3, <2>4, <3>8, <3>9 DEF Steps, RoundStep
  <2> QED BY <1>13, <2>5, <2>6 DEF DraftAnswered
<1>14. CASE ClockAdvances
  <2>1. \A r \in Rounds : ClockStep(r)
    BY <1>14 DEF ClockAdvances, ClockStep, TypeOK
  <2>2. \A r \in Rounds : StatusStep(r) /\ FireStep(r) /\ ChatStep(r) /\ DraftStep(r)
    BY <1>14 DEF ClockAdvances, StatusStep, SameRow, SameLink, FireStep,
                 ChatStep, DraftStep
  <2>3. \A t \in Ticks : RetryStep(t)
    BY <1>14, RetryUnchanged DEF ClockAdvances
  <2> QED BY <2>1, <2>2, <2>3 DEF Steps, RoundStep
<1>15. CASE Evict
  <2>1. \A r \in Rounds : StatusStep(r) /\ FireStep(r) /\ Quiet(r)
    BY <1>15 DEF Evict, StatusStep, SameRow, SameLink, FireStep,
                 ChatStep, DraftStep, ClockStep
  <2>2. \A t \in Ticks : RetryStep(t)
    BY <1>15, SentinelAssumption DEF Evict, RetryStep, NoRetry
  <2> QED BY <2>1, <2>2 DEF Steps, RoundStep
<1>16. CASE UNCHANGED vars
  <2>1. \A r \in Rounds : StatusStep(r) /\ FireStep(r) /\ Quiet(r)
    BY <1>16 DEF vars, StatusStep, SameRow, SameLink, FireStep,
                 ChatStep, DraftStep, ClockStep
  <2>2. \A t \in Ticks : RetryStep(t)
    BY <1>16, RetryUnchanged DEF vars
  <2> QED BY <2>1, <2>2 DEF Steps, RoundStep
<1> QED
  BY <1>1, <1>2, <1>3, <1>4, <1>5, <1>6, <1>7, <1>8, <1>9, <1>11,
     <1>12, <1>13, <1>14, <1>15, <1>16 DEF Next
-----------------------------------------------------------------------------
(* What the sweeps have still to do.                                       *)

\* The turn of an expire sweep touches its own tick's list alone, leaves none
\* of it open but what it keeps for later, and keeps something only when it
\* is suspended on a round it has just claimed.
ExpireTurn(t, queue, fr) ==
  /\ \A u \in Ticks \ {t} : expire'[u] = expire[u]
  /\ \A r \in queue : r \in expire'[t].queue \/ status'[r] # "COLLECTING"
  /\ \/ expire'[t].queue = {} /\ fire' = fr
     \/ \E q \in Rounds :
          /\ status[q] = "COLLECTING"
          /\ fire'[q].phase = "channel" /\ fire'[q].owner = t
          /\ \A r \in Rounds \ {q} : fire'[r] = fr[r]

LEMMA ExpireLoopTurn ==
  ASSUME TypeOK, NEW t \in Ticks,
         NEW queue \in SUBSET Rounds, NEW tokens \in SUBSET Rounds,
         NEW st \in [Rounds -> Statuses], NEW fr \in [Rounds -> FireTask],
         \A r \in Rounds : st[r] = "COLLECTING" => status[r] = "COLLECTING",
         ExpireLoop(t, queue, tokens, st, fr)
  PROVE  ExpireTurn(t, queue, fr)
<1> DEFINE Settled(done) == [r \in Rounds |->
             IF r \notin done \/ ~Claims(r) THEN st[r]
             ELSE IF ReadyToFire(r) THEN "THRESHOLD_REACHED"
             ELSE "EXPIRED"]
<1>1. PICK done \in SUBSET queue :
        \/ /\ done = queue
           /\ status' = Settled(done)
           /\ fire' = fr
           /\ expire' = [expire EXCEPT ![t] = NoExpire]
        \/ \E r \in queue \ done :
           /\ Suspends(r)
           /\ status' = [Settled(done) EXCEPT ![r] = "THRESHOLD_REACHED"]
           /\ fire' = [fr EXCEPT ![r] =
                         Claimed(r, t, r \in tokens, signedUp[r])]
           /\ expire' = [expire EXCEPT ![t] =
                           [queue |-> queue \ (done \cup {r}),
                            tokens |-> tokens]]
  BY Zenon DEF ExpireLoop
<1>2. \A r \in done : Settled(done)[r] # "COLLECTING"
  BY DEF Claims
<1>3. Settled(done) \in [Rounds -> Statuses]
  OBVIOUS
<1> HIDE DEF Settled
<1>4. CASE /\ done = queue
           /\ status' = Settled(done)
           /\ fire' = fr
           /\ expire' = [expire EXCEPT ![t] = NoExpire]
  BY <1>2, <1>4 DEF TypeOK, NoExpire, ExpireTurn
<1>5. ASSUME NEW q \in queue \ done,
             Suspends(q),
             status' = [Settled(done) EXCEPT ![q] = "THRESHOLD_REACHED"],
             fire' = [fr EXCEPT ![q] =
                        Claimed(q, t, q \in tokens, signedUp[q])],
             expire' = [expire EXCEPT ![t] =
                          [queue |-> queue \ (done \cup {q}),
                           tokens |-> tokens]]
      PROVE  /\ \A u \in Ticks \ {t} : expire'[u] = expire[u]
             /\ \A r \in queue : r \in expire'[t].queue \/ status'[r] # "COLLECTING"
             /\ \E p \in Rounds :
                  /\ status[p] = "COLLECTING"
                  /\ fire'[p].phase = "channel" /\ fire'[p].owner = t
                  /\ \A r \in Rounds \ {p} : fire'[r] = fr[r]
  <2>1. /\ \A u \in Ticks \ {t} : expire'[u] = expire[u]
        /\ expire'[t].queue = queue \ (done \cup {q})
    BY <1>5 DEF TypeOK
  <2>2. /\ status'[q] = "THRESHOLD_REACHED"
        /\ \A r \in done : status'[r] # "COLLECTING"
    BY <1>2, <1>3, <1>5
  <2>3. status[q] = "COLLECTING" /\ origin[q] # NoGuild
    BY <1>5 DEF Suspends, ReadyToFire, Claims
  <2> DEFINE task == Claimed(q, t, q \in tokens, signedUp[q])
  <2>4. task.phase = "channel" /\ task.owner = t
    BY <2>3 DEF Claimed, NoFire
  <2> HIDE DEF task
  <2>5. /\ fire'[q] = task
        /\ \A r \in Rounds \ {q} : fire'[r] = fr[r]
    BY <1>5 DEF task
  <2> QED BY <2>1, <2>2, <2>3, <2>4, <2>5
<1> QED BY <1>1, <1>4, <1>5 DEF ExpireTurn

\* The turn of a retry sweep takes a candidate out of its plans only to ask
\* for its draft or to store that it was given up, and ends with nothing left.
LEMMA RetryLoopTurn ==
  ASSUME TypeOK, NEW t \in Ticks,
         NEW try \in SUBSET Rounds, NEW quit \in SUBSET Rounds,
         NEW chats \in SUBSET Rounds,
         RetryLoop(t, try, quit, chats)
  PROVE  /\ \A u \in Ticks \ {t} : retry'[u] = retry[u]
         /\ retry'[t].cur = NoRound => retry'[t] = NoRetry
         /\ \A r \in Rounds : r \in try <=> r \in retry'[t].try \/ retry'[t].cur = r
         /\ retry'[t].cur \in try \cup {NoRound} /\ retry'[t].cur \notin retry'[t].try
         /\ retry'[t].try \subseteq try /\ retry'[t].quit \subseteq quit
         /\ \A r \in Rounds :
              notified'[r] <=> notified[r] \/ (r \in quit /\ r \notin retry'[t].quit)
<1>1. PICK done \in SUBSET quit :
        /\ notified' = [r \in Rounds |-> notified[r] \/ r \in done]
        /\ \/ /\ try = {} /\ done = quit
              /\ retry' = [retry EXCEPT ![t] = NoRetry]
           \/ \E r \in try :
                retry' = [retry EXCEPT ![t] =
                            [try |-> try \ {r}, quit |-> quit \ done,
                             chats |-> chats, cur |-> r, draft |-> 0]]
  BY Zenon DEF RetryLoop
<1>2. \A r \in Rounds : notified'[r] <=> notified[r] \/ r \in done
  BY <1>1, Zenon
<1>3. CASE try = {} /\ done = quit /\ retry' = [retry EXCEPT ![t] = NoRetry]
  <2>1. retry'[t] = NoRetry /\ \A u \in Ticks \ {t} : retry'[u] = retry[u]
    BY <1>3 DEF TypeOK
  <2> QED BY <1>2, <1>3, <2>1, SentinelAssumption DEF NoRetry
<1>4. ASSUME NEW q \in try,
             retry' = [retry EXCEPT ![t] =
                         [try |-> try \ {q}, quit |-> quit \ done,
                          chats |-> chats, cur |-> q, draft |-> 0]]
      PROVE  /\ \A u \in Ticks \ {t} : retry'[u] = retry[u]
             /\ retry'[t].cur = q /\ retry'[t].try = try \ {q}
             /\ retry'[t].quit = quit \ done
  BY <1>4 DEF TypeOK
<1>5. ASSUME NEW q \in try, retry'[t].cur = q, retry'[t].try = try \ {q},
             retry'[t].quit = quit \ done
      PROVE  /\ q # NoRound
             /\ \A r \in Rounds : r \in try <=> r \in retry'[t].try \/ retry'[t].cur = r
             /\ retry'[t].cur \notin retry'[t].try
             /\ retry'[t].try \subseteq try /\ retry'[t].quit \subseteq quit
             /\ \A r \in quit : r \in done <=> r \notin retry'[t].quit
  BY <1>5, SentinelAssumption
<1>6. ASSUME NEW q \in try,
             retry' = [retry EXCEPT ![t] =
                         [try |-> try \ {q}, quit |-> quit \ done,
                          chats |-> chats, cur |-> q, draft |-> 0]]
      PROVE  \A r \in Rounds :
               notified'[r] <=> notified[r] \/ (r \in quit /\ r \notin retry'[t].quit)
  BY <1>2, <1>4, <1>5, <1>6
<1> QED BY <1>1, <1>3, <1>4, <1>5, <1>6


\* No list of a sweep loses a round that is still open.
KeepsQueues ==
  \A t \in Ticks : \A r \in expire[t].queue :
    r \in expire'[t].queue \/ status'[r] # "COLLECTING"

LEMMA AwaitSame ==
  ASSUME AwaitInv, expire' = expire,
         \A t \in Ticks, r \in Rounds : Awaits(t, r)' <=> Awaits(t, r)
  PROVE  AwaitInv' /\ KeepsQueues
BY DEF AwaitInv, KeepsQueues

\* Firing an open round is nobody's work yet.
LEMMA OpenIsIdle ==
  ASSUME QuorumInv, NEW r \in Rounds, status[r] = "COLLECTING"
  PROVE  fire[r].phase = "idle"
BY DEF QuorumInv, AtWork, Begun, Fired

\* A sweep that starts or goes on, when what it awaited before is over.
LEMMA AwaitLoop ==
  ASSUME TypeOK, AwaitInv, NEW t \in Ticks,
         NEW queue \in SUBSET Rounds, expire[t].queue \subseteq queue,
         NEW tokens \in SUBSET Rounds,
         NEW st \in [Rounds -> Statuses], NEW fr \in [Rounds -> FireTask],
         \A r \in Rounds : st[r] = "COLLECTING" => status[r] = "COLLECTING",
         \A r \in Rounds : status[r] = "COLLECTING" => fr[r].phase = "idle",
         \A r \in Rounds : fr[r].phase # "idle" => fr[r].owner # t,
         \A u \in Ticks \ {t}, r \in Rounds :
           Awaits(u, r) <=> fr[r].phase # "idle" /\ fr[r].owner = u,
         ExpireLoop(t, queue, tokens, st, fr)
  PROVE  AwaitInv' /\ KeepsQueues
<1>1. /\ \A u \in Ticks \ {t} : expire'[u] = expire[u]
      /\ \A r \in queue : r \in expire'[t].queue \/ status'[r] # "COLLECTING"
      /\ \/ expire'[t].queue = {} /\ fire' = fr
         \/ \E q \in Rounds :
              /\ status[q] = "COLLECTING"
              /\ fire'[q].phase = "channel" /\ fire'[q].owner = t
              /\ \A r \in Rounds \ {q} : fire'[r] = fr[r]
  <2>1. ExpireTurn(t, queue, fr)
    BY ExpireLoopTurn
  <2> QED BY <2>1 DEF ExpireTurn
<1>2. KeepsQueues
  <2>1. ASSUME NEW u \in Ticks \ {t}, NEW r \in expire[u].queue
        PROVE  r \in expire'[u].queue
    BY <1>1, <2>1
  <2>2. ASSUME NEW r \in expire[t].queue
        PROVE  r \in expire'[t].queue \/ status'[r] # "COLLECTING"
    BY <1>1, <2>2
  <2> QED BY <2>1, <2>2 DEF KeepsQueues
<1>3. CASE expire'[t].queue = {} /\ fire' = fr
  <2>1. \A u \in Ticks \ {t}, r \in Rounds : Awaits(u, r)' <=> Awaits(u, r)
    BY <1>3 DEF Awaits
  <2>2. \A r \in Rounds : ~Awaits(t, r)'
    BY <1>3 DEF Awaits
  <2> QED BY <1>1, <1>2, <1>3, <2>1, <2>2 DEF AwaitInv
<1>4. ASSUME NEW q \in Rounds, status[q] = "COLLECTING",
             fire'[q].phase = "channel", fire'[q].owner = t,
             \A r \in Rounds \ {q} : fire'[r] = fr[r]
      PROVE  AwaitInv'
  <2>1. \A u \in Ticks \ {t}, r \in Rounds : Awaits(u, r)' <=> Awaits(u, r)
    BY <1>4 DEF Awaits
  <2>2. \A r \in Rounds : Awaits(t, r)' <=> r = q
    BY <1>4 DEF Awaits
  <2> QED BY <1>1, <2>1, <2>2 DEF AwaitInv
<1> QED BY <1>1, <1>2, <1>3, <1>4

\* A sweep goes on when the round it awaits is done; a signup just returns.
LEMMA AwaitReturns ==
  ASSUME TypeOK, QuorumInv, AwaitInv, NEW q \in Rounds, fire[q].phase # "idle",
         NEW st \in [Rounds -> Statuses],
         \A r \in Rounds : st[r] = "COLLECTING" => status[r] = "COLLECTING",
         FireReturns(q, st)
  PROVE  AwaitInv' /\ KeepsQueues
<1> DEFINE fr == [fire EXCEPT ![q] = NoFire]
           t  == fire[q].owner
<1>1. /\ fr \in [Rounds -> FireTask] /\ fr[q].phase = "idle"
      /\ \A r \in Rounds \ {q} : fr[r] = fire[r]
  BY IdleTasks DEF TypeOK, NoFire
<1>2. \A u \in Ticks \ {t}, r \in Rounds :
        Awaits(u, r) <=> fr[r].phase # "idle" /\ fr[r].owner = u
  BY <1>1 DEF Awaits
<1>3. CASE t = NoTick /\ fire' = fr /\ UNCHANGED expire
  <2>1. t \notin Ticks
    BY <1>3, SentinelAssumption
  <2> HIDE DEF fr, t
  <2>2. \A u \in Ticks, r \in Rounds : Awaits(u, r)' <=> Awaits(u, r)
    BY <1>2, <1>3, <2>1 DEF Awaits
  <2> QED BY <1>3, <2>2, AwaitSame
<1>4. CASE t \in Ticks /\ ExpireLoop(t, expire[t].queue, expire[t].tokens, st, fr)
  <2>1. expire[t].queue \in SUBSET Rounds /\ expire[t].tokens \in SUBSET Rounds
    BY <1>4 DEF TypeOK, ExpireTask
  <2>2. \A r \in Rounds : fr[r].phase # "idle" => fr[r].owner # t
    <3>1. Awaits(t, q)
      BY DEF Awaits
    <3>2. \A r \in Rounds : Awaits(t, r) => r = q
      BY <1>4, <3>1 DEF AwaitInv
    <3> HIDE DEF fr, t
    <3> QED BY <1>1, <3>2 DEF Awaits
  <2>3. \A r \in Rounds : status[r] = "COLLECTING" => fr[r].phase = "idle"
    BY <1>1, OpenIsIdle
  <2> HIDE DEF fr, t
  <2> QED BY <1>1, <1>2, <1>4, <2>1, <2>2, <2>3, AwaitLoop
<1> QED BY <1>3, <1>4 DEF FireReturns

\* The hook's answer: the round is still fired, or the sweep goes on.
LEMMA AwaitAttempt ==
  ASSUME TypeOK, QuorumInv, AwaitInv, NEW q \in Rounds, fire[q].phase # "idle",
         NEW chat \in BOOLEAN, AttemptPodCreation(q, chat)
  PROVE  AwaitInv' /\ KeepsQueues
<1>1. CASE /\ fire' = [fire EXCEPT ![q].phase = "draft", ![q].chat = chat]
           /\ UNCHANGED <<status, expire>>
  <2>1. fire[q] \in FireTask /\ fire \in [Rounds -> FireTask]
    BY DEF TypeOK
  <2>2. /\ fire'[q].phase = "draft" /\ fire'[q].owner = fire[q].owner
        /\ \A r \in Rounds \ {q} : fire'[r] = fire[r]
    BY <1>1, <2>1 DEF FireTask
  <2>3. \A u \in Ticks, r \in Rounds : Awaits(u, r)' <=> Awaits(u, r)
    BY <2>2 DEF Awaits
  <2> QED BY <1>1, <2>3, AwaitSame
<1>2. CASE FireReturns(q, status)
  BY <1>2, AwaitReturns DEF TypeOK
<1> QED BY <1>1, <1>2 DEF AttemptPodCreation


LEMMA AwaitStep ==
  ASSUME TypeOK, QuorumInv, AwaitInv, [Next]_vars
  PROVE  AwaitInv' /\ (KeepsQueues \/ Evict)
<1>1. ASSUME UNCHANGED <<fire, expire>>
      PROVE  AwaitInv' /\ KeepsQueues
  BY <1>1, AwaitSame DEF Awaits
<1>2. ASSUME NEW q \in Rounds, NEW p \in Players, NEW leave \in BOOLEAN,
             RecordSignup(q, p, leave)
      PROVE  AwaitInv' /\ KeepsQueues
  <2> DEFINE roster == IF leave THEN signedUp[q] \ {p} ELSE signedUp[q] \cup {p}
             task   == Claimed(q, NoTick, HasToken(q), roster)
  <2>1. /\ status[q] = "COLLECTING" /\ UNCHANGED expire
        /\ fire' = [fire EXCEPT ![q] = task] \/ UNCHANGED fire
    BY <1>2 DEF RecordSignup, Open, Claims
  <2>2. task.owner = NoTick
    BY DEF Claimed, NoFire
  <2>3. fire[q].phase = "idle"
    BY <2>1, OpenIsIdle
  <2> HIDE DEF task, roster
  <2>4. \A u \in Ticks, r \in Rounds : Awaits(u, r)' <=> Awaits(u, r)
    BY <2>1, <2>2, <2>3, SentinelAssumption DEF TypeOK, Awaits
  <2> QED BY <2>1, <2>4, AwaitSame
<1>3. ASSUME NEW t \in Ticks, RunScheduledJob(t)
      PROVE  AwaitInv' /\ KeepsQueues
  <2>1. PICK queue \in SUBSET Rounds, tokens \in SUBSET Rounds :
          ExpireLoop(t, queue, tokens, status, fire)
    <3> DEFINE queue  == {r \in Rounds : Overdue(r)}
               tokens == {r \in Rounds : HasToken(r)}
    <3>1. ExpireLoop(t, queue, tokens, status, fire)
      BY <1>3, Zenon DEF RunScheduledJob
    <3>2. queue \in SUBSET Rounds /\ tokens \in SUBSET Rounds
      OBVIOUS
    <3> HIDE DEF queue, tokens
    <3> QED BY <3>1, <3>2
  <2>2. \A r \in Rounds : ~Awaits(t, r)
    BY <1>3, Zenon DEF RunScheduledJob, Running
  <2>3. expire[t].queue = {}
    BY <2>2 DEF AwaitInv
  <2>4. \A r \in Rounds : fire[r].phase # "idle" => fire[r].owner # t
    BY <2>2 DEF Awaits
  <2>5. \A r \in Rounds : status[r] = "COLLECTING" => fire[r].phase = "idle"
    BY OpenIsIdle
  <2>6. \A u \in Ticks \ {t}, r \in Rounds :
          Awaits(u, r) <=> fire[r].phase # "idle" /\ fire[r].owner = u
    BY DEF Awaits
  <2>7. /\ status \in [Rounds -> Statuses] /\ fire \in [Rounds -> FireTask]
        /\ expire[t].queue \subseteq queue
    BY <2>3 DEF TypeOK
  <2> QED BY <2>1, <2>4, <2>5, <2>6, <2>7, AwaitLoop
<1>4. ASSUME NEW q \in Rounds, UNCHANGED expire,
             fire'[q].phase # "idle" <=> fire[q].phase # "idle",
             fire'[q].owner = fire[q].owner,
             \A r \in Rounds \ {q} : fire'[r] = fire[r]
      PROVE  AwaitInv' /\ KeepsQueues
  <2>1. \A u \in Ticks, r \in Rounds : Awaits(u, r)' <=> Awaits(u, r)
    BY <1>4 DEF Awaits
  <2> QED BY <1>4, <2>1, AwaitSame
<1>5. ASSUME NEW q \in Rounds, DiscordCreatesChannel(q)
      PROVE  AwaitInv' /\ KeepsQueues
  <2>1. fire[q] \in FireTask /\ fire \in [Rounds -> FireTask]
    BY DEF TypeOK
  <2>2. /\ fire[q].phase = "channel" /\ UNCHANGED expire
        /\ fire' = [fire EXCEPT ![q].phase = "channelMade"]
    BY <1>5 DEF DiscordCreatesChannel
  <2>3. /\ fire'[q].phase = "channelMade" /\ fire'[q].owner = fire[q].owner
        /\ \A r \in Rounds \ {q} : fire'[r] = fire[r]
    BY <2>1, <2>2 DEF FireTask
  <2> QED BY <1>4, <2>2, <2>3
<1>6. ASSUME NEW q \in Rounds, NiamosCreatesDraft(q)
      PROVE  AwaitInv' /\ KeepsQueues
  <2>1. fire[q] \in FireTask /\ fire \in [Rounds -> FireTask]
    BY DEF TypeOK
  <2> DEFINE next == drafts[q] + 1
  <2>2. /\ UNCHANGED expire
        /\ fire' = [fire EXCEPT ![q].draft = next] \/ UNCHANGED fire
    BY <1>6 DEF NiamosCreatesDraft
  <2> HIDE DEF next
  <2>3. CASE fire' = [fire EXCEPT ![q].draft = next]
    <3>1. /\ fire'[q].phase = fire[q].phase /\ fire'[q].owner = fire[q].owner
          /\ \A r \in Rounds \ {q} : fire'[r] = fire[r]
      BY <2>1, <2>3 DEF FireTask
    <3> QED BY <1>4, <2>2, <3>1
  <2> QED BY <1>1, <2>2, <2>3
<1>7. ASSUME NEW q \in Rounds, ChannelAnswered(q)
      PROVE  AwaitInv' /\ KeepsQueues
  <2>1. fire[q] \in FireTask /\ fire \in [Rounds -> FireTask]
    BY DEF TypeOK
  <2>2. CASE /\ fire[q].phase = "channelMade"
             /\ fire' = [fire EXCEPT ![q].phase = "invite"]
             /\ UNCHANGED <<status, expire>>
    <3>1. /\ fire'[q].phase = "invite" /\ fire'[q].owner = fire[q].owner
          /\ \A r \in Rounds \ {q} : fire'[r] = fire[r]
      BY <2>1, <2>2 DEF FireTask
    <3> QED BY <1>4, <2>2, <3>1
  <2>3. CASE /\ fire[q].phase \in {"channel", "channelMade"}
             /\ AttemptPodCreation(q, FALSE)
    BY <2>3, AwaitAttempt
  <2> QED BY <1>7, <2>2, <2>3 DEF ChannelAnswered
<1>8. ASSUME NEW q \in Rounds, InviteAnswered(q)
      PROVE  AwaitInv' /\ KeepsQueues
  <2>1. /\ fire[q].phase = "invite"
        /\ \E invited \in BOOLEAN : AttemptPodCreation(q, invited)
    BY <1>8 DEF InviteAnswered
  <2> QED BY <2>1, AwaitAttempt
<1>9. ASSUME NEW q \in Rounds, DraftAnswered(q)
      PROVE  AwaitInv' /\ KeepsQueues
  <2>1. PICK st \in {status, [status EXCEPT ![q] = "POD_CREATED"]} :
          fire[q].phase = "draft" /\ FireReturns(q, st)
    BY <1>9 DEF DraftAnswered
  <2>2. /\ st \in [Rounds -> Statuses]
        /\ \A r \in Rounds : st[r] = "COLLECTING" => status[r] = "COLLECTING"
    BY <2>1 DEF TypeOK
  <2> QED BY <2>1, <2>2, AwaitReturns
<1>10. CASE Evict
  <2>1. /\ \A t \in Ticks : expire'[t].queue = {}
        /\ \A t \in Ticks, r \in Rounds : ~Awaits(t, r)'
    BY <1>10 DEF Evict, NoExpire, NoFire, Awaits
  <2> QED BY <1>10, <2>1 DEF AwaitInv
<1>11. ASSUME \/ \E q \in Rounds : StartPod(q) \/ CancelPod(q) \/ ConcludePod(q)
              \/ \E g \in Guilds : LinkNiamosGuildToken(g)
              \/ \E t \in Ticks : RetryAnswered(t)
              \/ ClockAdvances \/ UNCHANGED vars
       PROVE  UNCHANGED <<fire, expire>>
  BY <1>11 DEF StartPod, CancelPod, ConcludePod, LinkNiamosGuildToken, RetryAnswered,
               ClockAdvances, vars
<1> QED
  BY <1>1, <1>2, <1>3, <1>5, <1>6, <1>7, <1>8, <1>9, <1>10, <1>11 DEF Next

\* No retry sweep drops what it planned, but for asking and storing.
KeepsPlans ==
  \A t \in Ticks, r \in Rounds :
    /\ r \in retry[t].try => r \in retry'[t].try \/ retry'[t].cur = r
    /\ r \in retry[t].quit => r \in retry'[t].quit \/ notified'[r]
    /\ retry[t].cur = r => retry'[t].cur = r \/ RetryAnswered(t)

LEMMA PlanStep ==
  ASSUME TypeOK, PlanInv, [Next]_vars
  PROVE  PlanInv' /\ (KeepsPlans \/ Evict)
<1>1. ASSUME NEW t \in Ticks, NEW try \in SUBSET Rounds, NEW quit \in SUBSET Rounds,
             NEW chats \in SUBSET Rounds, try \cap quit = {},
             retry[t].try \subseteq try, retry[t].quit \subseteq quit,
             retry[t].cur = NoRound \/ RetryAnswered(t),
             RetryLoop(t, try, quit, chats)
      PROVE  PlanInv' /\ KeepsPlans
  <2>1. /\ \A u \in Ticks \ {t} : retry'[u] = retry[u]
        /\ retry'[t].cur = NoRound => retry'[t] = NoRetry
        /\ \A r \in Rounds : r \in try <=> r \in retry'[t].try \/ retry'[t].cur = r
        /\ retry'[t].cur \in try \cup {NoRound} /\ retry'[t].cur \notin retry'[t].try
        /\ retry'[t].try \subseteq try /\ retry'[t].quit \subseteq quit
        /\ \A r \in Rounds :
             notified'[r] <=> notified[r] \/ (r \in quit /\ r \notin retry'[t].quit)
    BY <1>1, RetryLoopTurn
  <2>2. retry'[t].cur \notin retry'[t].quit
    BY <1>1, <2>1, SentinelAssumption
  <2>3. retry'[t].try \cap retry'[t].quit = {}
    BY <1>1, <2>1
  <2>4. PlanInv'
    BY <2>1, <2>2, <2>3 DEF PlanInv
  <2>5. KeepsPlans
    BY <1>1, <2>1, SentinelAssumption DEF KeepsPlans
  <2> QED BY <2>4, <2>5
<1>2. ASSUME NEW t \in Ticks, RunScheduledJob(t)
      PROVE  PlanInv' /\ KeepsPlans
  <2> DEFINE tokens == {r \in Rounds : HasToken(r)}
             stuck  == {r \in Rounds : Stuck(r)}
             young  == {r \in stuck : WithinWindow(r)}
             try    == young \cap tokens
             quit   == stuck \ young
             chats  == {r \in stuck : chatChannelId[r]}
  <2>1. RetryLoop(t, try, quit, chats) /\ ~Running(t)
    BY <1>2, Zenon DEF RunScheduledJob
  <2>2. try \in SUBSET Rounds /\ quit \in SUBSET Rounds /\ chats \in SUBSET Rounds
    OBVIOUS
  <2>3. try \cap quit = {}
    OBVIOUS
  <2> HIDE DEF try, quit, chats
  <2>4. retry[t].cur = NoRound
    BY <2>1 DEF Running
  <2>5. retry[t].try = {} /\ retry[t].quit = {}
    BY <2>4 DEF PlanInv, NoRetry
  <2> QED BY <1>1, <2>1, <2>2, <2>3, <2>4, <2>5
<1>3. ASSUME NEW t \in Ticks, RetryAnswered(t)
      PROVE  PlanInv' /\ KeepsPlans
  <2>1. PICK try, quit, chats :
          /\ try = retry[t].try /\ quit = retry[t].quit /\ chats = retry[t].chats
          /\ RetryLoop(t, try, quit, chats)
    BY <1>3 DEF RetryAnswered
  <2>2. /\ retry[t].try \in SUBSET Rounds /\ retry[t].quit \in SUBSET Rounds
        /\ retry[t].chats \in SUBSET Rounds
    BY DEF TypeOK, RetryTask
  <2>3. retry[t].try \cap retry[t].quit = {}
    BY DEF PlanInv
  <2> QED BY <1>1, <1>3, <2>1, <2>2, <2>3
<1>4. ASSUME \A t \in Ticks : /\ retry'[t].try = retry[t].try
                              /\ retry'[t].quit = retry[t].quit
                              /\ retry'[t].cur = retry[t].cur
                              /\ retry'[t] = retry[t] \/ retry'[t].cur # NoRound
      PROVE  PlanInv' /\ KeepsPlans
  BY <1>4 DEF PlanInv, KeepsPlans
<1>5. ASSUME NEW q \in Rounds, NiamosCreatesDraft(q)
      PROVE  PlanInv' /\ KeepsPlans
  <2>1. CASE UNCHANGED retry
    BY <1>4, <2>1
  <2>2. ASSUME NEW t \in Ticks, retry[t].cur = q,
               retry' = [retry EXCEPT ![t].draft = drafts[q] + 1]
        PROVE  PlanInv' /\ KeepsPlans
    <3>1. retry[t] \in RetryTask /\ retry \in [Ticks -> RetryTask]
      BY DEF TypeOK
    <3>2. /\ retry'[t].try = retry[t].try /\ retry'[t].quit = retry[t].quit
          /\ retry'[t].cur = q
          /\ \A u \in Ticks \ {t} : retry'[u] = retry[u]
      BY <2>2, <3>1 DEF RetryTask
    <3>3. q # NoRound
      BY SentinelAssumption
    <3> QED BY <1>4, <2>2, <3>2, <3>3
  <2> QED BY <1>5, <2>1, <2>2 DEF NiamosCreatesDraft
<1>6. CASE Evict
  <2>1. \A t \in Ticks : retry'[t] = NoRetry
    BY <1>6 DEF Evict
  <2>2. \A t \in Ticks : retry'[t].try = {} /\ retry'[t].quit = {}
    BY <2>1 DEF NoRetry
  <2>3. \A t \in Ticks : retry'[t].cur \notin retry'[t].try \cup retry'[t].quit
    BY <2>2
  <2> QED BY <1>6, <2>1, <2>2, <2>3 DEF PlanInv
<1>7. ASSUME \/ \E q \in Rounds : \/ StartPod(q) \/ CancelPod(q) \/ ConcludePod(q)
                                  \/ DiscordCreatesChannel(q) \/ ChannelAnswered(q)
                                  \/ InviteAnswered(q) \/ DraftAnswered(q)
             \/ \E q \in Rounds, p \in Players, leave \in BOOLEAN : RecordSignup(q, p, leave)
             \/ \E g \in Guilds : LinkNiamosGuildToken(g)
             \/ ClockAdvances \/ UNCHANGED vars
      PROVE  UNCHANGED retry
  BY <1>7 DEF StartPod, CancelPod, ConcludePod, RecordSignup, LinkNiamosGuildToken,
              DiscordCreatesChannel, ChannelAnswered, InviteAnswered, DraftAnswered,
              ClockAdvances, vars
<1> QED BY <1>2, <1>3, <1>4, <1>5, <1>6, <1>7 DEF Next

-----------------------------------------------------------------------------
(* The inductive invariant.                                                *)

\* Adding or removing one player changes a roster's size by one at most.
LEMMA RosterSize ==
  ASSUME TypeOK, NEW r \in Rounds, NEW p \in Players
  PROVE  /\ IsFiniteSet(signedUp[r])
         /\ Cardinality(signedUp[r]) \in Nat
         /\ Cardinality(signedUp[r] \cup {p}) \in Nat
         /\ Cardinality(signedUp[r] \ {p}) \in Nat
         /\ Cardinality(signedUp[r] \cup {p}) <= Cardinality(signedUp[r]) + 1
         /\ Cardinality(signedUp[r] \ {p}) <= Cardinality(signedUp[r])
<1>1. IsFiniteSet(signedUp[r])
  BY PlayersAssumption, FS_Subset DEF TypeOK
<1>2. Cardinality(signedUp[r]) \in Nat
  BY <1>1, FS_CardinalityType
<1>3. /\ IsFiniteSet(signedUp[r] \cup {p})
      /\ Cardinality(signedUp[r] \cup {p}) <= Cardinality(signedUp[r]) + 1
  BY <1>1, <1>2, FS_AddElement
<1>4. /\ IsFiniteSet(signedUp[r] \ {p})
      /\ Cardinality(signedUp[r] \ {p}) <= Cardinality(signedUp[r])
  BY <1>1, <1>2, FS_RemoveElement
<1> QED BY <1>1, <1>2, <1>3, <1>4, FS_CardinalityType

LEMMA SeatsPreserved == TypeOK /\ SeatsInv /\ Steps => SeatsInv'
<1> SUFFICES ASSUME TypeOK, SeatsInv, Steps, NEW r \in Rounds
             PROVE  /\ Cardinality(signedUp'[r]) <= PodCapacity
                    /\ status'[r] = "COLLECTING" =>
                         Cardinality(signedUp'[r]) < PodCapacity
                    /\ status'[r] = "NONE" => signedUp'[r] = {}
  BY DEF SeatsInv, RosterFitsPod
<1>1. /\ Cardinality(signedUp[r]) <= PodCapacity
      /\ status[r] = "COLLECTING" => Cardinality(signedUp[r]) < PodCapacity
      /\ status[r] = "NONE" => signedUp[r] = {}
      /\ status[r] \in Statuses
  BY DEF SeatsInv, RosterFitsPod, TypeOK
<1>2. StatusStep(r)
  BY DEF Steps, RoundStep
<1>3. CASE signedUp'[r] = signedUp[r] /\ status[r] # "NONE"
  BY <1>1, <1>2, <1>3 DEF StatusStep
<1>4. CASE signedUp'[r] = signedUp[r] /\ status[r] = "NONE"
  BY <1>1, <1>2, <1>4, CapacityAssumption, FS_EmptySet DEF StatusStep
<1>5. CASE /\ status[r] = "COLLECTING"
           /\ \E p \in Players :
                signedUp'[r] = signedUp[r] \cup {p} \/ signedUp'[r] = signedUp[r] \ {p}
           /\ \/ Full(signedUp'[r]) /\ status'[r] = "THRESHOLD_REACHED"
              \/ ~Full(signedUp'[r]) /\ status'[r] = "COLLECTING"
  <2>1. PICK p \in Players :
          signedUp'[r] = signedUp[r] \cup {p} \/ signedUp'[r] = signedUp[r] \ {p}
    BY <1>5
  <2>2. /\ Cardinality(signedUp[r]) \in Nat
        /\ Cardinality(signedUp'[r]) \in Nat
        /\ Cardinality(signedUp'[r]) <= Cardinality(signedUp[r]) + 1
    <3>1. /\ Cardinality(signedUp[r]) \in Nat
          /\ Cardinality(signedUp[r] \cup {p}) \in Nat
          /\ Cardinality(signedUp[r] \ {p}) \in Nat
          /\ Cardinality(signedUp[r] \cup {p}) <= Cardinality(signedUp[r]) + 1
          /\ Cardinality(signedUp[r] \ {p}) <= Cardinality(signedUp[r])
      BY RosterSize
    <3>2. CASE signedUp'[r] = signedUp[r] \cup {p}
      BY <3>1, <3>2
    <3>3. CASE signedUp'[r] = signedUp[r] \ {p}
      BY <3>1, <3>3
    <3> QED BY <2>1, <3>2, <3>3
  <2> QED BY <1>1, <1>5, <2>2, CapacityAssumption DEF Full
<1> QED BY <1>2, <1>3, <1>4, <1>5 DEF StatusStep, SameRow

\* Work in hand always concerns a round that was claimed with its quorum.
LEMMA QuorumPreserved == TypeOK /\ SeatsInv /\ QuorumInv /\ Steps => QuorumInv'
<1> SUFFICES ASSUME TypeOK, SeatsInv, QuorumInv, Steps, NEW r \in Rounds
             PROVE  /\ AtWork(r)' \/ drafts'[r] > 0 \/ channels'[r] > 0 =>
                         status'[r] \in Begun /\ HasQuorum(r)'
                    /\ status'[r] \in Fired => HasQuorum(r)'
                    /\ status'[r] = "EXPIRED" => ~HasQuorum(r)'
  BY DEF QuorumInv
<1>1. /\ AtWork(r) \/ drafts[r] > 0 \/ channels[r] > 0 =>
           status[r] \in Begun /\ HasQuorum(r)
      /\ status[r] \in Fired => HasQuorum(r)
      /\ status[r] = "EXPIRED" => ~HasQuorum(r)
  BY DEF QuorumInv
<1>2. /\ StatusStep(r) /\ FireStep(r) /\ ChatStep(r) /\ DraftStep(r)
      /\ \A t \in Ticks : RetryStep(t)
  BY DEF Steps, RoundStep
<1>3. Cardinality(signedUp[r]) \in Nat /\ threshold[r] \in 1..PodCapacity
  <2>1. IsFiniteSet(signedUp[r])
    BY PlayersAssumption, FS_Subset DEF TypeOK
  <2> QED BY <2>1, FS_CardinalityType DEF TypeOK
\* A round that has begun stays begun and keeps its quorum.
<1>4. ASSUME status[r] \in Begun
      PROVE  /\ status'[r] \in Begun
             /\ HasQuorum(r)' <=> HasQuorum(r)
  BY <1>2, <1>4 DEF StatusStep, SameRow, Begun, Fired, HasQuorum
\* A round is claimed only with its quorum.
<1>5. ASSUME status[r] # "THRESHOLD_REACHED", status'[r] = "THRESHOLD_REACHED"
      PROVE  HasQuorum(r)'
  <2>1. CASE HasQuorum(r) /\ SameRow(r)
    BY <2>1 DEF HasQuorum, SameRow
  <2>2. CASE /\ Full(signedUp'[r]) /\ threshold'[r] = threshold[r]
             /\ \E p \in Players :
                  signedUp'[r] = signedUp[r] \cup {p} \/ signedUp'[r] = signedUp[r] \ {p}
    <3>1. Cardinality(signedUp'[r]) \in Nat
      BY <2>2, RosterSize
    <3> QED BY <1>3, <2>2, <3>1, CapacityAssumption DEF Full, HasQuorum
  <2> QED BY <1>2, <1>5, <2>1, <2>2 DEF StatusStep
<1>6. ASSUME AtWork(r)' \/ drafts'[r] > 0 \/ channels'[r] > 0
      PROVE  status'[r] \in Begun /\ HasQuorum(r)'
  <2>1. CASE AtWork(r) \/ drafts[r] > 0 \/ channels[r] > 0
    BY <1>1, <1>4, <2>1
  <2>2. CASE status[r] = "THRESHOLD_REACHED"
    BY <1>1, <1>4, <2>2 DEF Begun, Fired
  <2>3. CASE status[r] = "COLLECTING" /\ status'[r] = "THRESHOLD_REACHED"
    BY <1>5, <2>3 DEF Begun, Fired
  <2>4. ASSUME fire'[r].phase # "idle", ~AtWork(r)
        PROVE  status[r] = "COLLECTING" /\ status'[r] = "THRESHOLD_REACHED"
    BY <1>2, <2>4 DEF FireStep, AtWork, NoFire
  <2>5. ASSUME NEW t \in Ticks, r \in retry'[t].try \/ retry'[t].cur = r, ~AtWork(r)
        PROVE  status[r] = "THRESHOLD_REACHED"
    BY <1>2, <2>5 DEF RetryStep, AtWork
  <2>6. ASSUME ~AtWork(r)
        PROVE  drafts'[r] = drafts[r] /\ channels'[r] = channels[r]
    BY <1>2, <2>6 DEF DraftStep, ChatStep, AtWork
  <2> QED BY <1>6, <2>1, <2>2, <2>3, <2>4, <2>5, <2>6 DEF AtWork
<1>7. ASSUME status'[r] \in Fired PROVE HasQuorum(r)'
  <2>1. CASE status[r] \in Fired
    BY <1>1, <1>4, <2>1 DEF Begun
  <2>2. CASE status'[r] = "THRESHOLD_REACHED"
    BY <1>1, <1>4, <1>5, <2>2 DEF Begun, Fired
  <2>3. CASE \E d \in 1..MaxDrafts : Asked(r, d)
    <3>1. AtWork(r)
      BY <2>3, SentinelAssumption DEF Asked, AtWork
    <3> QED BY <1>1, <1>4, <3>1
  <2> QED BY <1>2, <1>7, <2>1, <2>2, <2>3 DEF StatusStep, Fired
<1>8. ASSUME status'[r] = "EXPIRED" PROVE ~HasQuorum(r)'
  BY <1>1, <1>2, <1>8 DEF StatusStep, SameRow, HasQuorum
<1> QED BY <1>6, <1>7, <1>8

\* The claim's roster is the roster for good, and one continuation at most
\* will ever create a channel.
LEMMA ChatPreserved == TypeOK /\ QuorumInv /\ ChatInv /\ Steps => ChatInv'
<1> SUFFICES ASSUME TypeOK, QuorumInv, ChatInv, Steps, NEW r \in Rounds
             PROVE  /\ fire'[r].phase # "idle" => fire'[r].roster = signedUp'[r]
                    /\ fire'[r].phase = "channel" => channels'[r] = 0
                    /\ channels'[r] <= 1
                    /\ channels'[r] > 0 => members'[r] = signedUp'[r]
  BY DEF ChatInv
<1>1. /\ fire[r].phase # "idle" => fire[r].roster = signedUp[r]
      /\ fire[r].phase = "channel" => channels[r] = 0
      /\ channels[r] <= 1 /\ channels[r] \in Nat
      /\ channels[r] > 0 => members[r] = signedUp[r]
  BY DEF ChatInv, TypeOK
<1>2. fire[r].phase # "idle" \/ channels[r] > 0 => status[r] \in Begun
  BY DEF QuorumInv, AtWork
<1>3. StatusStep(r) /\ FireStep(r) /\ ChatStep(r)
  BY DEF Steps, RoundStep
<1>4. fire[r].phase # "idle" \/ channels[r] > 0 => signedUp'[r] = signedUp[r]
  BY <1>2, <1>3 DEF StatusStep, SameRow, Begun, Fired
<1>5. CASE fire'[r] = fire[r] \/ fire'[r] = NoFire
  BY <1>1, <1>3, <1>4, <1>5 DEF ChatStep, NoFire
<1>6. CASE /\ fire[r].phase # "idle"
           /\ fire'[r].phase \in {"channelMade", "invite", "draft"}
           /\ fire'[r].roster = fire[r].roster
  BY <1>1, <1>3, <1>4, <1>6 DEF ChatStep
<1>7. CASE /\ status[r] = "COLLECTING"
           /\ fire'[r].phase = "channel" /\ fire'[r].roster = signedUp'[r]
  <2>1. channels[r] = 0
    BY <1>1, <1>2, <1>7 DEF Begun, Fired
  <2> QED BY <1>3, <1>7, <2>1 DEF ChatStep
<1> QED BY <1>3, <1>5, <1>6, <1>7 DEF FireStep

\* Rows name only drafts that exist, and nothing before POD_CREATED.
LEMMA LinkPreserved == TypeOK /\ LinkInv /\ Steps => LinkInv'
<1> SUFFICES ASSUME TypeOK, LinkInv, Steps, NEW r \in Rounds
             PROVE  /\ fire'[r].draft <= drafts'[r]
                    /\ \A t \in Ticks :
                         retry'[t].cur = r => retry'[t].draft <= drafts'[r]
                    /\ status'[r] \in {"POD_CREATED", "CONCLUDED"} =>
                         shareId'[r] \in 1..drafts'[r]
                    /\ status'[r] \in {"NONE", "COLLECTING",
                                       "THRESHOLD_REACHED", "EXPIRED"} =>
                         shareId'[r] = 0 /\ ~chatChannelId'[r]
  BY DEF LinkInv
<1>1. /\ fire[r].draft <= drafts[r]
      /\ \A t \in Ticks : retry[t].cur = r => retry[t].draft <= drafts[r]
      /\ status[r] \in {"POD_CREATED", "CONCLUDED"} => shareId[r] \in 1..drafts[r]
      /\ status[r] \in {"NONE", "COLLECTING", "THRESHOLD_REACHED", "EXPIRED"} =>
           shareId[r] = 0 /\ ~chatChannelId[r]
  BY DEF LinkInv
<1>2. /\ StatusStep(r) /\ FireStep(r) /\ DraftStep(r)
      /\ \A t \in Ticks : RetryStep(t)
  BY DEF Steps, RoundStep
<1>3. /\ drafts[r] \in Nat /\ fire[r].draft \in Nat /\ shareId[r] \in Nat
      /\ \A t \in Ticks : retry[t].draft \in Nat
      /\ status[r] \in Statuses
  <2>1. fire[r] \in FireTask /\ \A t \in Ticks : retry[t] \in RetryTask
    BY DEF TypeOK
  <2> QED BY <2>1, MaxDraftsAssumption DEF TypeOK, FireTask, RetryTask
<1>4. drafts'[r] \in Nat /\ drafts[r] <= drafts'[r]
  BY <1>2, <1>3 DEF DraftStep
<1>5. fire'[r].draft <= drafts'[r]
  BY <1>1, <1>2, <1>3, <1>4 DEF FireStep, NoFire
<1>6. ASSUME NEW t \in Ticks, retry'[t].cur = r
      PROVE  retry'[t].draft <= drafts'[r]
  BY <1>1, <1>2, <1>3, <1>4, <1>6 DEF RetryStep
<1>7. CASE \E d \in 1..MaxDrafts : Asked(r, d) /\ shareId'[r] = d
  <2>1. PICK d \in 1..MaxDrafts : Asked(r, d) /\ shareId'[r] = d
    BY <1>7
  <2>2. d <= drafts[r]
    BY <1>1, <2>1 DEF Asked
  <2>3. shareId'[r] \in 1..drafts'[r]
    BY <1>3, <1>4, <2>1, <2>2, MaxDraftsAssumption
  <2>4. CASE status'[r] = "POD_CREATED"
    BY <1>5, <1>6, <2>3, <2>4
  <2>5. CASE SameLink(r)
    BY <1>1, <1>2, <1>3, <1>4, <1>5, <1>6, <2>3, <2>5
       DEF StatusStep, SameLink
  <2> QED BY <1>2, <2>4, <2>5 DEF StatusStep
<1>8. CASE SameLink(r) /\ status'[r] # "POD_CREATED"
  BY <1>1, <1>2, <1>3, <1>4, <1>5, <1>6, <1>8 DEF StatusStep, SameLink
<1>9. CASE SameLink(r) /\ status'[r] = "POD_CREATED" /\ status[r] = "POD_CREATED"
  BY <1>1, <1>3, <1>4, <1>5, <1>6, <1>9 DEF SameLink
<1> QED BY <1>2, <1>7, <1>8, <1>9 DEF StatusStep

LEMMA WindowPreserved == TypeOK' /\ WindowInv /\ Steps => WindowInv'
<1> SUFFICES ASSUME TypeOK', WindowInv, Steps PROVE WindowInv'
  OBVIOUS
<1>1. /\ \A r \in Rounds : ClockStep(r)
      /\ \A t \in Ticks : RetryStep(t)
  BY DEF Steps, RoundStep
<1>2. \A r \in Rounds : notified'[r] => stuckFor'[r] = RetryWindow
  BY <1>1 DEF WindowInv, GivesUpOnlyAfterWindow, ClockStep
<1>3. \A t \in Ticks : \A r \in retry'[t].quit \cap Rounds :
        stuckFor'[r] = RetryWindow
  BY <1>1 DEF WindowInv, RetryStep, ClockStep
<1>4. \A t \in Ticks : retry'[t].quit \subseteq Rounds
  BY DEF TypeOK, RetryTask
<1> QED BY <1>2, <1>3, <1>4 DEF WindowInv, GivesUpOnlyAfterWindow

\* No retry candidate has a chat channel: while a round can be retried its
\* row has none.
LEMMA RetryPreserved == LinkInv /\ TypeOK' /\ RetryKnowsNoChat /\ Steps =>
                          RetryKnowsNoChat'
<1> SUFFICES ASSUME LinkInv, TypeOK', RetryKnowsNoChat, Steps, NEW t \in Ticks
             PROVE  retry'[t].chats = {}
  BY DEF RetryKnowsNoChat
<1>1. RetryStep(t) /\ retry[t].chats = {}
  BY DEF Steps, RetryKnowsNoChat
<1>2. retry'[t].chats \subseteq Rounds
  BY DEF TypeOK, RetryTask
<1>3. \A r \in Rounds : status[r] = "THRESHOLD_REACHED" => ~chatChannelId[r]
  BY DEF LinkInv
<1> QED BY <1>1, <1>2, <1>3 DEF RetryStep

LEMMA InitIInv == Init => IInv
<1> SUFFICES ASSUME Init PROVE IInv
  OBVIOUS
<1>1. TypeOK
  BY InitTypeOK
<1>2. SeatsInv
  BY CapacityAssumption, FS_EmptySet DEF Init, SeatsInv, RosterFitsPod
<1>3. QuorumInv
  BY SentinelAssumption
     DEF Init, QuorumInv, AtWork, Begun, Fired, NoFire, NoRetry
<1>4. ChatInv
  BY DEF Init, ChatInv, NoFire
<1>5. LinkInv
  BY DEF Init, LinkInv, NoFire, NoRetry
<1>6. WindowInv /\ RetryKnowsNoChat
  BY DEF Init, WindowInv, GivesUpOnlyAfterWindow, RetryKnowsNoChat, NoRetry
<1>7. AwaitInv
  BY DEF Init, AwaitInv, Awaits, NoExpire, NoFire
<1>8. PlanInv
  <2>1. \A t \in Ticks : retry[t] = NoRetry
    BY DEF Init
  <2>2. NoRetry.try = {} /\ NoRetry.quit = {}
    BY DEF NoRetry
  <2> QED BY <2>1, <2>2 DEF PlanInv
<1> QED BY <1>1, <1>2, <1>3, <1>4, <1>5, <1>6, <1>7, <1>8 DEF IInv

LEMMA NextIInv == IInv /\ [Next]_vars => IInv'
<1> SUFFICES ASSUME IInv, [Next]_vars PROVE IInv'
  OBVIOUS
<1>1. TypeOK /\ QuorumInv
  BY DEF IInv
<1>2. TypeOK'
  BY <1>1, NextTypeOK
<1>3. Steps
  BY <1>1, NextSteps
<1>4. AwaitInv' /\ PlanInv'
  BY AwaitStep, PlanStep DEF IInv
<1> QED
  BY <1>2, <1>3, <1>4, SeatsPreserved, QuorumPreserved, ChatPreserved, LinkPreserved,
     WindowPreserved, RetryPreserved
     DEF IInv

\* The invariant holds in every reachable state.
THEOREM Invariant == Spec => []IInv
BY InitIInv, NextIInv, PTL DEF Spec

-----------------------------------------------------------------------------
(* The safety properties.                                                  *)

\* No table is ever overbooked, and no open round is full: whichever signup
\* takes the last seat fires the round in its own turn.
THEOREM RostersFit == Spec => []RosterFitsPod
<1>1. IInv => RosterFitsPod
  BY DEF IInv, SeatsInv
<1> QED BY <1>1, Invariant, PTL

\* At most one chat channel is made per round, however sweeps, signups and
\* evictions interleave: only the turn that claims it asks for one
\* (services/pods.ts:266-269).
THEOREM OneChat == Spec => []OneChatPerRound
<1>1. IInv => OneChatPerRound
  BY DEF IInv, ChatInv, OneChatPerRound
<1> QED BY <1>1, Invariant, PTL

\* The chat admits exactly the round's players: the roster it was opened to is
\* the one the round keeps.
THEOREM ChatForRoster == Spec => []ChatAdmitsRoster
<1>1. IInv => ChatAdmitsRoster
  BY DEF IInv, ChatInv, ChatAdmitsRoster
<1> QED BY <1>1, Invariant, PTL

\* No round fires, and Niamos makes no draft, without enough players.
THEOREM EnoughPlayers == Spec => []FiredWithEnough
<1>1. IInv => FiredWithEnough
  BY DEF IInv, QuorumInv, FiredWithEnough, HasQuorum
<1> QED BY <1>1, Invariant, PTL

\* An expired round was short of players and left nothing behind.
THEOREM ExpiryIsClean == Spec => []ExpiredIsClean
<1>1. ASSUME IInv, NEW r \in Rounds, status[r] = "EXPIRED"
      PROVE  /\ Cardinality(signedUp[r]) < threshold[r]
             /\ channels[r] = 0 /\ drafts[r] = 0
  <2>1. ~HasQuorum(r) /\ ~(drafts[r] > 0 \/ channels[r] > 0)
    BY <1>1 DEF IInv, QuorumInv, Begun, Fired
  <2>2. Cardinality(signedUp[r]) \in Nat
    BY <1>1, PlayersAssumption, FS_Subset, FS_CardinalityType DEF IInv, TypeOK
  <2>3. threshold[r] \in Nat /\ channels[r] \in Nat /\ drafts[r] \in Nat
    BY <1>1, CapacityAssumption, MaxDraftsAssumption DEF IInv, TypeOK
  <2> QED BY <2>1, <2>2, <2>3 DEF HasQuorum
<1>2. IInv => ExpiredIsClean
  BY <1>1 DEF ExpiredIsClean
<1> QED BY <1>2, Invariant, PTL

\* A started round links to a draft that exists.
THEOREM LinksAreReal == Spec => []ShareLinkIsReal
<1>1. IInv => ShareLinkIsReal
  BY DEF IInv, LinkInv, ShareLinkIsReal
<1> QED BY <1>1, Invariant, PTL

\* Failure is reported no earlier than the retry window allows.
THEOREM PatientGiveUp == Spec => []GivesUpOnlyAfterWindow
<1>1. IInv => GivesUpOnlyAfterWindow
  BY DEF IInv, WindowInv
<1> QED BY <1>1, Invariant, PTL

\* The retry sweep never finds a chat channel to refresh.
THEOREM RetryHasNoChat == Spec => []RetryKnowsNoChat
<1>1. IInv => RetryKnowsNoChat
  BY DEF IInv
<1> QED BY <1>1, Invariant, PTL

\* What a cron event reads it keeps, settles, asks for or gives up in its turn.
LEMMA ReadsAreKept ==
  ASSUME TypeOK, NEW t \in Ticks, RunScheduledJob(t), NEW r \in Rounds
  PROVE  /\ Overdue(r) => r \in expire'[t].queue \/ status'[r] # "COLLECTING"
         /\ Stuck(r) /\ WithinWindow(r) /\ HasToken(r) =>
              r \in retry'[t].try \/ retry'[t].cur = r
         /\ Stuck(r) /\ ~WithinWindow(r) => r \in retry'[t].quit \/ notified'[r]
<1> DEFINE tokens  == {q \in Rounds : HasToken(q)}
           overdue == {q \in Rounds : Overdue(q)}
           stuck   == {q \in Rounds : Stuck(q)}
           young   == {q \in stuck : WithinWindow(q)}
           try     == young \cap tokens
           quit    == stuck \ young
           chats   == {q \in stuck : chatChannelId[q]}
<1>1. /\ ExpireLoop(t, overdue, tokens, status, fire)
      /\ RetryLoop(t, try, quit, chats)
  BY Zenon DEF RunScheduledJob
<1>2. /\ overdue \in SUBSET Rounds /\ tokens \in SUBSET Rounds
      /\ try \in SUBSET Rounds /\ quit \in SUBSET Rounds /\ chats \in SUBSET Rounds
  OBVIOUS
<1>3. /\ Overdue(r) => r \in overdue
      /\ Stuck(r) /\ WithinWindow(r) /\ HasToken(r) => r \in try
      /\ Stuck(r) /\ ~WithinWindow(r) => r \in quit
  OBVIOUS
<1> HIDE DEF tokens, overdue, try, quit, chats
<1>4. ExpireTurn(t, overdue, fire)
  BY <1>1, <1>2, ExpireLoopTurn DEF TypeOK
<1>5. /\ r \in try => r \in retry'[t].try \/ retry'[t].cur = r
      /\ r \in quit => r \in retry'[t].quit \/ notified'[r]
  BY <1>1, <1>2, RetryLoopTurn
<1> QED BY <1>3, <1>4, <1>5 DEF ExpireTurn

\* Whatever happens between a sweep's awaits, and whatever other ticks do, it
\* works through all that it read: only an eviction makes it forget.
THEOREM SweepsAreThorough == Spec => SweepsForgetNothing
<1> DEFINE Kept(t, r) ==
      LET read == RunScheduledJob(t) IN
      /\ r \in expire[t].queue \/ (read /\ Overdue(r)) =>
           r \in expire'[t].queue \/ status'[r] # "COLLECTING"
      /\ \/ r \in retry[t].try
         \/ read /\ Stuck(r) /\ WithinWindow(r) /\ HasToken(r)
         => r \in retry'[t].try \/ retry'[t].cur = r
      /\ r \in retry[t].quit \/ (read /\ Stuck(r) /\ ~WithinWindow(r)) =>
           r \in retry'[t].quit \/ notified'[r]
      /\ retry[t].cur = r => retry'[t].cur = r \/ RetryAnswered(t)
<1>1. ASSUME IInv, [Next]_vars, ~Evict, NEW t \in Ticks, NEW r \in Rounds
      PROVE  Kept(t, r)
  <2>1. TypeOK /\ QuorumInv /\ AwaitInv /\ PlanInv
    BY <1>1 DEF IInv
  <2>2. KeepsQueues /\ KeepsPlans
    BY <1>1, <2>1, AwaitStep, PlanStep
  <2>3. RunScheduledJob(t) =>
          /\ Overdue(r) => r \in expire'[t].queue \/ status'[r] # "COLLECTING"
          /\ Stuck(r) /\ WithinWindow(r) /\ HasToken(r) =>
               r \in retry'[t].try \/ retry'[t].cur = r
          /\ Stuck(r) /\ ~WithinWindow(r) => r \in retry'[t].quit \/ notified'[r]
    BY <2>1, ReadsAreKept
  <2> QED BY <2>2, <2>3, Zenon DEF KeepsQueues, KeepsPlans
<1>2. IInv /\ [Next]_vars => [Evict \/ \A t \in Ticks, r \in Rounds : Kept(t, r)]_vars
  BY <1>1
<1> QED BY <1>2, Invariant, PTL DEF Spec, SweepsForgetNothing

-----------------------------------------------------------------------------
(* Refinement.                                                             *)

\* The instance brings a copy of Cardinality with it.
LEMMA SameCardinality == \A S : Lifecycle!Cardinality(S) = Cardinality(S)
BY Zenon DEF Cardinality, Lifecycle!Cardinality

LEMMA StepsRefine ==
  ASSUME IInv, SeatsInv', Steps
  PROVE  Lifecycle!Next
<1> SUFFICES ASSUME NEW r \in Rounds
             PROVE  \/ Lifecycle!Stays(r) \/ Lifecycle!Opens(r)
                    \/ Lifecycle!RosterChanges(r) \/ Lifecycle!Closes(r)
                    \/ Lifecycle!IsCreated(r) \/ Lifecycle!IsCancelled(r)
                    \/ Lifecycle!IsConcluded(r)
  BY DEF Lifecycle!Next
<1>1. StatusStep(r)
  BY DEF Steps, RoundStep
<1>2. CASE status'[r] = status[r] /\ SameRow(r)
  BY <1>2 DEF SameRow, Lifecycle!Stays
<1>3. CASE /\ status[r] = "NONE" /\ status'[r] = "COLLECTING"
           /\ threshold'[r] \in Thresholds /\ signedUp'[r] = signedUp[r]
  BY <1>3 DEF Lifecycle!Opens, Lifecycle!Moves
<1>4. CASE /\ status[r] = "COLLECTING"
           /\ \E p \in Players :
                signedUp'[r] = signedUp[r] \cup {p} \/ signedUp'[r] = signedUp[r] \ {p}
           /\ \/ Full(signedUp'[r]) /\ status'[r] = "THRESHOLD_REACHED"
              \/ ~Full(signedUp'[r]) /\ status'[r] = "COLLECTING"
           /\ threshold'[r] = threshold[r]
  <2>1. PICK p \in Players :
          signedUp'[r] \in {signedUp[r] \cup {p}, signedUp[r] \ {p}}
    BY <1>4
  <2>2. Cardinality(signedUp'[r]) \in Nat
    <3>1. /\ Cardinality(signedUp[r] \cup {p}) \in Nat
          /\ Cardinality(signedUp[r] \ {p}) \in Nat
      BY RosterSize DEF IInv
    <3> QED BY <2>1, <3>1
  <2>3. Full(signedUp'[r]) <=> Cardinality(signedUp'[r]) = PodCapacity
    BY <2>2, CapacityAssumption DEF Full, SeatsInv, RosterFitsPod
  <2>4. status'[r] = IF Lifecycle!Cardinality(signedUp'[r]) = PodCapacity
                     THEN "THRESHOLD_REACHED" ELSE "COLLECTING"
    BY <1>4, <2>3, SameCardinality
  <2>5. threshold'[r] = threshold[r] /\ status[r] = "COLLECTING"
    BY <1>4
  <2>6. Lifecycle!RosterChanges(r)
    BY <2>1, <2>4, <2>5 DEF Lifecycle!RosterChanges, Lifecycle!Moves
  <2> QED BY <2>6
<1>5. CASE /\ status[r] = "COLLECTING"
           /\ \/ HasQuorum(r) /\ status'[r] = "THRESHOLD_REACHED"
              \/ ~HasQuorum(r) /\ status'[r] = "EXPIRED"
           /\ SameRow(r)
  <2>1. HasQuorum(r) <=> Lifecycle!Enough(r)
    BY SameCardinality DEF HasQuorum, Lifecycle!Enough
  <2>2. status'[r] = IF Lifecycle!Enough(r) THEN "THRESHOLD_REACHED" ELSE "EXPIRED"
    BY <1>5, <2>1
  <2>3. status[r] = "COLLECTING" /\ SameRow(r)
    BY <1>5
  <2>4. Lifecycle!Closes(r)
    BY <2>2, <2>3 DEF Lifecycle!Closes, Lifecycle!Moves, SameRow
  <2> QED BY <2>4
<1>6. CASE /\ \E d \in 1..MaxDrafts : Asked(r, d)
           /\ status'[r] = "POD_CREATED" /\ SameRow(r)
  <2>1. AtWork(r)
    BY <1>6 DEF Asked, AtWork
  <2>2. status[r] \in Begun /\ HasQuorum(r)
    BY <2>1 DEF IInv, QuorumInv
  <2>3. Lifecycle!Enough(r)
    BY <2>2, SameCardinality DEF HasQuorum, Lifecycle!Enough
  <2>4. status[r] \in {"THRESHOLD_REACHED", "POD_CREATED", "CANCELLED", "CONCLUDED"}
    BY <2>2 DEF Begun, Fired
  <2>5. status'[r] = "POD_CREATED" /\ SameRow(r)
    BY <1>6
  <2>6. Lifecycle!IsCreated(r)
    BY <2>3, <2>4, <2>5 DEF Lifecycle!IsCreated, Lifecycle!Moves, SameRow
  <2> QED BY <2>6
<1>7. CASE /\ status[r] \in {"COLLECTING", "THRESHOLD_REACHED"}
           /\ status'[r] = "CANCELLED" /\ SameRow(r)
  BY <1>7 DEF Lifecycle!IsCancelled, Lifecycle!Moves, SameRow
<1>8. CASE /\ status[r] = "POD_CREATED"
           /\ status'[r] = "CONCLUDED" /\ SameRow(r)
  BY <1>8 DEF Lifecycle!IsConcluded, Lifecycle!Moves, SameRow
<1> QED BY <1>1, <1>2, <1>3, <1>4, <1>5, <1>6, <1>7, <1>8 DEF StatusStep

\* The Durable Object's turns, sweeps, requests and evictions implement the
\* lifecycle: what players and organizers see is a legal history of rounds.
THEOREM Refinement == Spec => RefinesLifecycle
<1>1. Init => Lifecycle!Init
  BY DEF Init, Lifecycle!Init
<1>2. ASSUME IInv, [Next]_vars PROVE Lifecycle!Next
  <2>1. IInv'
    BY <1>2, NextIInv
  <2>2. Steps
    BY <1>2, NextSteps DEF IInv
  <2> QED BY <1>2, <2>1, <2>2, StepsRefine DEF IInv
<1>3. IInv /\ [Next]_vars => [Lifecycle!Next]_(Lifecycle!vars)
  BY <1>2
<1> QED
  BY <1>1, <1>3, Invariant, PTL DEF Spec, RefinesLifecycle, Lifecycle!Spec

-----------------------------------------------------------------------------
(* The work in hand for one round.                                         *)

Firing(r)   == fire[r].phase # "idle"
Trying(r)   == {t \in Ticks : r \in retry[t].try \/ retry[t].cur = r}
Quitting(r) == {t \in Ticks : r \in retry[t].quit}

\* No retry sweep turns to the round.
RetryRests(r) ==
  Trying(r)' = Trying(r) /\ Quitting(r)' = Quitting(r) /\ (notified'[r] <=> notified[r])

WorkStep(r) == [Work(r)!Next]_(Work(r)!vars)

LEMMA WorkRests ==
  ASSUME TypeOK, TypeOK', NEW r \in Rounds, RetryRests(r),
         status'[r] = status[r], Firing(r)' <=> Firing(r)
  PROVE  WorkStep(r)
<1>1. notified'[r] = notified[r]
  BY DEF RetryRests, TypeOK
<1>2. (fire'[r].phase # "idle") = (fire[r].phase # "idle")
  BY DEF Firing
<1>3. UNCHANGED Work(r)!vars
  BY <1>1, <1>2, Zenon DEF RetryRests, Trying, Quitting, Work!vars
<1> QED BY <1>3 DEF WorkStep

\* A claim, an end, or the end of a firing: what is left to show of such a
\* step is how the status and the firing change.
LEMMA WorkMoves ==
  ASSUME TypeOK, TypeOK', NEW r \in Rounds, RetryRests(r),
         \/ status[r] = "NONE" /\ status'[r] = "COLLECTING" /\ (Firing(r)' <=> Firing(r))
         \/ status[r] = "COLLECTING" /\ status'[r] = "THRESHOLD_REACHED"
         \/ /\ \/ status[r] = "COLLECTING" /\ status'[r] \in {"EXPIRED", "CANCELLED"}
               \/ status[r] = "THRESHOLD_REACHED" /\ status'[r] = "CANCELLED"
               \/ status[r] = "POD_CREATED" /\ status'[r] = "CONCLUDED"
            /\ Firing(r)' <=> Firing(r)
         \/ /\ Firing(r) /\ ~Firing(r)'
            /\ status'[r] \in {status[r], "POD_CREATED"}
  PROVE  WorkStep(r)
<1>1. notified'[r] = notified[r]
  BY DEF RetryRests, TypeOK
<1>2. /\ {t \in Ticks : r \in retry'[t].try \/ retry'[t].cur = r} =
           {t \in Ticks : r \in retry[t].try \/ retry[t].cur = r}
      /\ {t \in Ticks : r \in retry'[t].quit} = {t \in Ticks : r \in retry[t].quit}
  BY DEF RetryRests, Trying, Quitting
<1>3. CASE status[r] = "NONE" /\ status'[r] = "COLLECTING" /\ (Firing(r)' <=> Firing(r))
  <2>1. Work(r)!Opens
    BY <1>1, <1>2, <1>3 DEF Firing, Work!Opens
  <2> QED BY <2>1 DEF WorkStep, Work!Next
<1>4. CASE status[r] = "COLLECTING" /\ status'[r] = "THRESHOLD_REACHED"
  <2>1. Work(r)!Claimed
    BY <1>1, <1>2, <1>4 DEF Work!Claimed
  <2> QED BY <2>1 DEF WorkStep, Work!Next
<1>5. CASE /\ \/ status[r] = "COLLECTING" /\ status'[r] \in {"EXPIRED", "CANCELLED"}
              \/ status[r] = "THRESHOLD_REACHED" /\ status'[r] = "CANCELLED"
              \/ status[r] = "POD_CREATED" /\ status'[r] = "CONCLUDED"
           /\ Firing(r)' <=> Firing(r)
  <2>1. Work(r)!Ends
    BY <1>1, <1>2, <1>5 DEF Firing, Work!Ends
  <2> QED BY <2>1 DEF WorkStep, Work!Next
<1>6. CASE /\ Firing(r) /\ ~Firing(r)'
           /\ status'[r] \in {status[r], "POD_CREATED"}
  <2>1. Work(r)!FiringEnds
    BY <1>1, <1>2, <1>6 DEF Firing, Work!FiringEnds, Work!Created
  <2> QED BY <2>1 DEF WorkStep, Work!Next
<1> QED BY <1>3, <1>4, <1>5, <1>6

\* Whatever else a turn of a sweep or of a firing does, it moves a round of
\* its own once.
LEMMA LoopWork ==
  ASSUME TypeOK, TypeOK', QuorumInv, NEW r \in Rounds, RetryRests(r),
         NEW st, NEW fr, LoopEffect(r, st, fr),
         \/ fr[r] = fire[r] /\ st[r] = status[r]
         \/ Firing(r) /\ fr[r] = NoFire /\ st[r] \in {status[r], "POD_CREATED"}
  PROVE  WorkStep(r)
<1>1. status[r] = "COLLECTING" => ~Firing(r)
  BY OpenIsIdle DEF Firing
<1>2. CASE fr[r] = fire[r] /\ st[r] = status[r]
  <2>1. CASE status'[r] = st[r] /\ fire'[r] = fr[r]
    BY <1>2, <2>1, WorkRests DEF Firing
  <2>2. CASE status[r] = "COLLECTING" /\ status'[r] = "EXPIRED" /\ fire'[r] = fr[r]
    BY <1>2, <2>2, WorkMoves DEF Firing
  <2>3. CASE status[r] = "COLLECTING" /\ status'[r] = "THRESHOLD_REACHED"
    BY <2>3, WorkMoves
  <2> QED BY <2>1, <2>2, <2>3 DEF LoopEffect
<1>3. CASE Firing(r) /\ fr[r] = NoFire /\ st[r] \in {status[r], "POD_CREATED"}
  <2>1. status'[r] = st[r] /\ fire'[r] = NoFire
    BY <1>1, <1>3 DEF LoopEffect
  <2>2. ~Firing(r)'
    BY <2>1 DEF Firing, NoFire
  <2> QED BY <1>3, <2>1, <2>2, WorkMoves
<1> QED BY <1>2, <1>3

\* A tick takes the round up, or is done with it: what is left to show of
\* such a step is where the round is in that tick's plans before and after.
LEMMA RetryMoves ==
  ASSUME TypeOK, TypeOK', NEW r \in Rounds, NEW t \in Ticks,
         \A u \in Ticks \ {t} : retry'[u] = retry[u],
         Firing(r)' <=> Firing(r),
         \/ /\ Stuck(r) /\ status'[r] = status[r]
            /\ t \notin Trying(r) /\ t \notin Quitting(r)
            /\ \/ t \in Trying(r)' /\ t \notin Quitting(r)' /\ ~notified'[r]
               \/ t \notin Trying(r)' /\ t \in Quitting(r)' /\ ~notified'[r]
               \/ t \notin Trying(r)' /\ t \notin Quitting(r)' /\ notified'[r]
         \/ /\ t \in Trying(r) /\ t \notin Trying(r)'
            /\ t \in Quitting(r)' <=> t \in Quitting(r)
            /\ notified'[r] <=> notified[r]
            /\ status'[r] \in {status[r], "POD_CREATED"}
         \/ /\ t \in Quitting(r) /\ t \notin Quitting(r)' /\ notified'[r]
            /\ t \in Trying(r)' <=> t \in Trying(r)
            /\ status'[r] = status[r]
  PROVE  WorkStep(r)
<1> DEFINE trying == Trying(r)
           quitting == Quitting(r)
           later == Trying(r)'
           given == Quitting(r)'
<1>1. /\ trying \subseteq Ticks /\ quitting \subseteq Ticks
      /\ later \subseteq Ticks /\ given \subseteq Ticks
      /\ \A u \in Ticks \ {t} : u \in later <=> u \in trying
      /\ \A u \in Ticks \ {t} : u \in given <=> u \in quitting
  BY DEF Trying, Quitting
<1>2. (fire'[r].phase # "idle") = (fire[r].phase # "idle")
  BY DEF Firing
<1>3. notified[r] \in BOOLEAN /\ notified'[r] \in BOOLEAN
  BY DEF TypeOK
<1>4. CASE /\ Stuck(r) /\ status'[r] = status[r]
           /\ t \notin trying /\ t \notin quitting
           /\ \/ t \in later /\ t \notin given /\ ~notified'[r]
              \/ t \notin later /\ t \in given /\ ~notified'[r]
              \/ t \notin later /\ t \notin given /\ notified'[r]
  <2>1. /\ status[r] = "THRESHOLD_REACHED" /\ ~notified[r] /\ status'[r] = status[r]
        /\ t \notin trying \cup quitting
    BY <1>4 DEF Stuck
  <2>2. \/ later = trying \cup {t} /\ given = quitting /\ notified'[r] = notified[r]
        \/ later = trying /\ given = quitting \cup {t} /\ notified'[r] = notified[r]
        \/ later = trying /\ given = quitting /\ notified'[r] = TRUE
    <3> HIDE DEF trying, quitting, later, given
    <3>1. ~notified'[r] => notified'[r] = notified[r]
      BY <1>3, <2>1, Zenon
    <3>2. notified'[r] => notified'[r] = TRUE
      BY <1>3, Zenon
    <3>3. CASE t \in later /\ t \notin given /\ ~notified'[r]
      <4>1. later = trying \cup {t} /\ given = quitting
        BY <1>1, <1>4, <3>3
      <4> QED BY <3>1, <3>3, <4>1
    <3>4. CASE t \notin later /\ t \in given /\ ~notified'[r]
      <4>1. later = trying /\ given = quitting \cup {t}
        BY <1>1, <1>4, <3>4
      <4> QED BY <3>1, <3>4, <4>1
    <3>5. CASE t \notin later /\ t \notin given /\ notified'[r]
      <4>1. later = trying /\ given = quitting
        BY <1>1, <1>4, <3>5
      <4> QED BY <3>2, <3>5, <4>1
    <3> QED BY <1>4, <3>3, <3>4, <3>5
  <2>3. Work(r)!RetryReads(t)
    BY <1>2, <2>1, <2>2, Zenon
       DEF Trying, Quitting, Work!RetryReads, Work!Stuck
  <2> QED BY <2>3 DEF WorkStep, Work!Next
<1>5. CASE /\ t \in trying /\ t \notin later
           /\ t \in given <=> t \in quitting
           /\ notified'[r] <=> notified[r]
           /\ status'[r] \in {status[r], "POD_CREATED"}
  <2>1. later = trying \ {t} /\ given = quitting
    <3> HIDE DEF trying, quitting, later, given
    <3> QED BY <1>1, <1>5
  <2>2. notified'[r] = notified[r]
    BY <1>3, <1>5
  <2>3. Work(r)!RetryAnswered(t)
    BY <1>2, <1>5, <2>1, <2>2, Zenon
       DEF Trying, Quitting, Work!RetryAnswered, Work!Created
  <2> QED BY <2>3 DEF WorkStep, Work!Next
<1>6. CASE /\ t \in quitting /\ t \notin given /\ notified'[r]
           /\ t \in later <=> t \in trying
           /\ status'[r] = status[r]
  <2>1. given = quitting \ {t} /\ later = trying
    <3> HIDE DEF trying, quitting, later, given
    <3> QED BY <1>1, <1>6
  <2>2. notified'[r] = TRUE
    BY <1>3, <1>6
  <2>3. Work(r)!GivesUp(t)
    BY <1>2, <1>6, <2>1, <2>2, Zenon DEF Trying, Quitting, Work!GivesUp
  <2> QED BY <2>3 DEF WorkStep, Work!Next
<1> QED BY <1>4, <1>5, <1>6

\* The turn of a retry sweep is one step of the work in hand for each round
\* it plans for, and none of any other.
LEMMA RetryLoopWork ==
  ASSUME TypeOK, TypeOK', NEW t \in Ticks, NEW r \in Rounds,
         NEW try \in SUBSET Rounds, NEW quit \in SUBSET Rounds,
         NEW chats \in SUBSET Rounds, try \cap quit = {},
         RetryLoop(t, try, quit, chats)
  PROVE  /\ \A u \in Ticks \ {t} : retry'[u] = retry[u]
         /\ t \in Trying(r)' <=> r \in try
         /\ t \in Quitting(r)' => r \in quit
         /\ notified'[r] <=> notified[r] \/ (r \in quit /\ t \notin Quitting(r)')
         /\ (r \in try <=> t \in Trying(r)) /\ (r \in quit <=> t \in Quitting(r))
            /\ UNCHANGED <<status, fire>> => WorkStep(r)
<1>1. /\ \A u \in Ticks \ {t} : retry'[u] = retry[u]
      /\ r \in try <=> r \in retry'[t].try \/ retry'[t].cur = r
      /\ r \in retry'[t].quit => r \in quit
      /\ notified'[r] <=> notified[r] \/ (r \in quit /\ r \notin retry'[t].quit)
  BY RetryLoopTurn
<1>2. /\ \A u \in Ticks \ {t} : retry'[u] = retry[u]
      /\ t \in Trying(r)' <=> r \in try
      /\ t \in Quitting(r)' => r \in quit
      /\ notified'[r] <=> notified[r] \/ (r \in quit /\ t \notin Quitting(r)')
  BY <1>1 DEF Trying, Quitting
<1>3. ASSUME r \in try <=> t \in Trying(r), r \in quit <=> t \in Quitting(r),
             UNCHANGED <<status, fire>>
      PROVE  WorkStep(r)
  <2>1. Firing(r)' <=> Firing(r)
    BY <1>3 DEF Firing
  <2>2. CASE t \in Quitting(r) /\ t \notin Quitting(r)'
    BY <1>2, <1>3, <2>1, <2>2, RetryMoves
  <2>3. CASE t \in Quitting(r)' <=> t \in Quitting(r)
    <3>1. Trying(r)' = Trying(r) /\ Quitting(r)' = Quitting(r)
      BY <1>2, <1>3, <2>3 DEF Trying, Quitting
    <3>2. notified'[r] <=> notified[r]
      BY <1>2, <1>3, <2>3
    <3> QED BY <1>3, <2>1, <3>1, <3>2, WorkRests DEF RetryRests
  <2> QED BY <1>2, <1>3, <2>2, <2>3
<1> QED BY <1>2, <1>3

\* Every turn is at most one step of each round's work.
LEMMA NextWork ==
  ASSUME IInv, IInv', [Next]_vars, NEW r \in Rounds
  PROVE  WorkStep(r)
<1> USE DEF rowVars, timeVars, chatVars
<1>1. TypeOK /\ TypeOK' /\ QuorumInv /\ PlanInv
  BY DEF IInv
<1>2. ASSUME UNCHANGED <<retry, notified>>
      PROVE  RetryRests(r)
  BY <1>2 DEF RetryRests, Trying, Quitting
<1>3. ASSUME UNCHANGED <<status, fire, retry, notified>>
      PROVE  WorkStep(r)
  BY <1>1, <1>2, <1>3, WorkRests DEF Firing
<1>4. ASSUME NEW q \in Rounds, NEW from \in Statuses, NEW to \in Statuses,
             \/ from = "NONE" /\ to = "COLLECTING"
             \/ from \in {"COLLECTING", "THRESHOLD_REACHED"} /\ to = "CANCELLED"
             \/ from = "POD_CREATED" /\ to = "CONCLUDED",
             status[q] = from, status' = [status EXCEPT ![q] = to],
             UNCHANGED <<fire, retry, notified>>
      PROVE  WorkStep(r)
  <2>1. Firing(r)' <=> Firing(r)
    BY <1>4 DEF Firing
  <2>2. CASE r = q
    <3>1. status[r] = from /\ status'[r] = to
      BY <1>1, <1>4, <2>2 DEF TypeOK
    <3> QED BY <1>1, <1>2, <1>4, <2>1, <3>1, WorkMoves
  <2>3. CASE r # q
    <3>1. status'[r] = status[r]
      BY <1>1, <1>4, <2>3 DEF TypeOK
    <3> QED BY <1>1, <1>2, <1>4, <2>1, <3>1, WorkRests
  <2> QED BY <2>2, <2>3
<1>5. ASSUME NEW q \in Rounds, StartPod(q) \/ CancelPod(q) \/ ConcludePod(q)
      PROVE  WorkStep(r)
  BY <1>4, <1>5 DEF StartPod, CancelPod, ConcludePod, Statuses
<1>6. ASSUME NEW q \in Rounds, NEW p \in Players, NEW leave \in BOOLEAN,
             RecordSignup(q, p, leave)
      PROVE  WorkStep(r)
  <2>1. /\ status[q] = "COLLECTING" /\ UNCHANGED <<retry, notified>>
        /\ \/ UNCHANGED <<status, fire>>
           \/ /\ status' = [status EXCEPT ![q] = "THRESHOLD_REACHED"]
              /\ \A p2 \in Rounds \ {q} : fire'[p2] = fire[p2]
    BY <1>1, <1>6 DEF RecordSignup, Open, Claims, TypeOK
  <2>2. CASE UNCHANGED <<status, fire>>
    BY <1>3, <2>1, <2>2
  <2>3. CASE /\ status' = [status EXCEPT ![q] = "THRESHOLD_REACHED"]
             /\ \A p2 \in Rounds \ {q} : fire'[p2] = fire[p2]
    <3>1. CASE r = q
      BY <1>1, <1>2, <2>1, <2>3, <3>1, WorkMoves DEF TypeOK
    <3>2. CASE r # q
      BY <1>1, <1>2, <2>1, <2>3, <3>2, WorkRests DEF TypeOK, Firing
    <3> QED BY <3>1, <3>2
  <2> QED BY <2>1, <2>2, <2>3
<1>7. ASSUME NEW t \in Ticks, RunScheduledJob(t)
      PROVE  WorkStep(r)
  <2> DEFINE tokens  == {q \in Rounds : HasToken(q)}
             overdue == {q \in Rounds : Overdue(q)}
             stuck   == {q \in Rounds : Stuck(q)}
             young   == {q \in stuck : WithinWindow(q)}
             try     == young \cap tokens
             quit    == stuck \ young
             chats   == {q \in stuck : chatChannelId[q]}
  <2>1. /\ ExpireLoop(t, overdue, tokens, status, fire)
        /\ RetryLoop(t, try, quit, chats)
        /\ ~Running(t)
    BY <1>7, Zenon DEF RunScheduledJob
  <2>2. /\ overdue \in SUBSET Rounds /\ tokens \in SUBSET Rounds
        /\ try \in SUBSET Rounds /\ quit \in SUBSET Rounds
        /\ chats \in SUBSET Rounds /\ try \cap quit = {}
        /\ r \in try \/ r \in quit => Stuck(r)
    OBVIOUS
  <2> HIDE DEF tokens, overdue, try, quit, chats
  <2>3. LoopEffect(r, status, fire)
    BY <1>1, <2>1, <2>2, ExpireLoopEffect DEF TypeOK
  <2>4. /\ \A u \in Ticks \ {t} : retry'[u] = retry[u]
        /\ t \in Trying(r)' <=> r \in try
        /\ t \in Quitting(r)' => r \in quit
        /\ notified'[r] <=> notified[r] \/ (r \in quit /\ t \notin Quitting(r)')
    BY <1>1, <2>1, <2>2, RetryLoopWork
  <2>5. t \notin Trying(r) /\ t \notin Quitting(r)
    <3>1. retry[t].cur = NoRound /\ retry[t].try = {} /\ retry[t].quit = {}
      BY <1>1, <2>1 DEF Running, PlanInv, NoRetry
    <3> QED BY <3>1, SentinelAssumption DEF Trying, Quitting
  <2>6. CASE r \notin try /\ r \notin quit
    <3>1. RetryRests(r)
      BY <2>4, <2>5, <2>6 DEF RetryRests, Trying, Quitting
    <3> QED BY <1>1, <2>3, <3>1, LoopWork
  <2>7. CASE r \in try \/ r \in quit
    <3>1. Stuck(r) /\ ~notified[r]
      BY <2>2, <2>7 DEF Stuck
    <3>2. status'[r] = status[r] /\ fire'[r] = fire[r]
      BY <2>3, <3>1 DEF LoopEffect, Stuck
    <3>3. Firing(r)' <=> Firing(r)
      BY <3>2 DEF Firing
    <3>4. CASE r \in try
      BY <1>1, <2>2, <2>4, <2>5, <3>1, <3>2, <3>3, <3>4, RetryMoves
    <3>5. CASE r \in quit
      BY <1>1, <2>2, <2>4, <2>5, <3>1, <3>2, <3>3, <3>5, RetryMoves
    <3> QED BY <2>7, <3>4, <3>5
  <2> QED BY <2>6, <2>7
<1>8. ASSUME NEW t \in Ticks, RetryAnswered(t)
      PROVE  WorkStep(r)
  <2>1. PICK q, try, quit, chats :
          /\ q = retry[t].cur /\ try = retry[t].try
          /\ quit = retry[t].quit /\ chats = retry[t].chats
          /\ q # NoRound /\ RetryLoop(t, try, quit, chats) /\ UNCHANGED fire
          /\ status' = [status EXCEPT ![q] = "POD_CREATED"] \/ UNCHANGED status
    BY <1>8 DEF RetryAnswered
  <2>2. /\ q \in Rounds /\ q \notin try /\ q \notin quit /\ try \cap quit = {}
        /\ try \in SUBSET Rounds /\ quit \in SUBSET Rounds
        /\ chats \in SUBSET Rounds
    BY <1>1, <2>1 DEF TypeOK, RetryTask, PlanInv
  <2>3. /\ \A u \in Ticks \ {t} : retry'[u] = retry[u]
        /\ t \in Trying(r)' <=> r \in try
        /\ t \in Quitting(r)' => r \in quit
        /\ notified'[r] <=> notified[r] \/ (r \in quit /\ t \notin Quitting(r)')
    BY <1>1, <2>1, <2>2, RetryLoopWork
  <2>4. /\ t \in Trying(r) <=> r \in try \/ r = q
        /\ t \in Quitting(r) <=> r \in quit
    BY <2>1 DEF Trying, Quitting
  <2>5. Firing(r)' <=> Firing(r)
    BY <2>1 DEF Firing
  <2>6. CASE r = q
    <3>1. status'[r] \in {status[r], "POD_CREATED"}
      BY <1>1, <2>1, <2>2, <2>6 DEF TypeOK
    <3> QED BY <1>1, <2>2, <2>3, <2>4, <2>5, <2>6, <3>1, RetryMoves
  <2>7. CASE r # q
    <3>1. status'[r] = status[r]
      BY <1>1, <2>1, <2>7 DEF TypeOK
    <3>2. CASE r \in quit /\ t \notin Quitting(r)'
      BY <1>1, <2>2, <2>3, <2>4, <2>5, <2>7, <3>1, <3>2, RetryMoves
    <3>3. CASE r \in quit <=> t \in Quitting(r)'
      <4>1. RetryRests(r)
        BY <2>3, <2>4, <2>7, <3>3 DEF RetryRests, Trying, Quitting
      <4> QED BY <1>1, <2>5, <3>1, <4>1, WorkRests
    <3> QED BY <2>3, <3>2, <3>3
  <2> QED BY <2>6, <2>7
<1>9. ASSUME NEW q \in Rounds, UNCHANGED <<status, retry, notified>>,
             fire'[q].phase # "idle" <=> fire[q].phase # "idle",
             \A p \in Rounds \ {q} : fire'[p] = fire[p]
      PROVE  WorkStep(r)
  <2>1. Firing(r)' <=> Firing(r)
    BY <1>9 DEF Firing
  <2> QED BY <1>1, <1>2, <1>9, <2>1, WorkRests
<1>10. ASSUME NEW q \in Rounds, fire[q].phase # "idle",
              NEW st \in [Rounds -> Statuses],
              st[q] \in {status[q], "POD_CREATED"},
              \A p \in Rounds \ {q} : st[p] = status[p],
              FireReturns(q, st), UNCHANGED <<retry, notified>>
       PROVE  WorkStep(r)
  <2> DEFINE fr == [fire EXCEPT ![q] = NoFire]
  <2>1. LoopEffect(r, st, fr)
    BY <1>1, <1>10, FireReturnsEffect
  <2>2. \/ fr[r] = fire[r] /\ st[r] = status[r]
        \/ Firing(r) /\ fr[r] = NoFire /\ st[r] \in {status[r], "POD_CREATED"}
    BY <1>1, <1>10 DEF TypeOK, Firing
  <2> HIDE DEF fr
  <2> QED BY <1>1, <1>2, <1>10, <2>1, <2>2, LoopWork
<1>11. ASSUME NEW q \in Rounds, fire[q].phase # "idle", NEW chat \in BOOLEAN,
              AttemptPodCreation(q, chat), UNCHANGED <<retry, notified>>
       PROVE  WorkStep(r)
  <2>1. CASE /\ fire' = [fire EXCEPT ![q].phase = "draft", ![q].chat = chat]
             /\ UNCHANGED <<status, expire>>
    <3>1. fire[q] \in FireTask /\ fire \in [Rounds -> FireTask]
      BY <1>1 DEF TypeOK
    <3>2. /\ fire'[q].phase = "draft" /\ \A p \in Rounds \ {q} : fire'[p] = fire[p]
      BY <2>1, <3>1 DEF FireTask
    <3> QED BY <1>9, <1>11, <2>1, <3>2
  <2>2. CASE FireReturns(q, status)
    BY <1>1, <1>10, <1>11, <2>2 DEF TypeOK
  <2> QED BY <1>11, <2>1, <2>2 DEF AttemptPodCreation
<1>12. ASSUME NEW q \in Rounds, DiscordCreatesChannel(q)
       PROVE  WorkStep(r)
  <2>1. fire[q] \in FireTask /\ fire \in [Rounds -> FireTask]
    BY <1>1 DEF TypeOK
  <2>2. /\ fire[q].phase = "channel" /\ UNCHANGED <<status, retry, notified>>
        /\ fire' = [fire EXCEPT ![q].phase = "channelMade"]
    BY <1>12 DEF DiscordCreatesChannel
  <2>3. fire'[q].phase = "channelMade" /\ \A p \in Rounds \ {q} : fire'[p] = fire[p]
    BY <2>1, <2>2 DEF FireTask
  <2> QED BY <1>9, <2>2, <2>3
<1>13. ASSUME NEW q \in Rounds, ChannelAnswered(q)
       PROVE  WorkStep(r)
  <2>1. UNCHANGED <<retry, notified>>
    BY <1>13 DEF ChannelAnswered
  <2>2. CASE /\ fire[q].phase = "channelMade"
             /\ fire' = [fire EXCEPT ![q].phase = "invite"]
             /\ UNCHANGED <<status, expire>>
    <3>1. fire[q] \in FireTask /\ fire \in [Rounds -> FireTask]
      BY <1>1 DEF TypeOK
    <3>2. fire'[q].phase = "invite" /\ \A p \in Rounds \ {q} : fire'[p] = fire[p]
      BY <2>2, <3>1 DEF FireTask
    <3> QED BY <1>9, <2>1, <2>2, <3>2
  <2>3. CASE fire[q].phase \in {"channel", "channelMade"} /\ AttemptPodCreation(q, FALSE)
    BY <1>11, <2>1, <2>3
  <2> QED BY <1>13, <2>2, <2>3 DEF ChannelAnswered
<1>14. ASSUME NEW q \in Rounds, InviteAnswered(q)
       PROVE  WorkStep(r)
  <2>1. PICK invited \in BOOLEAN : AttemptPodCreation(q, invited)
    BY <1>14 DEF InviteAnswered
  <2>2. fire[q].phase = "invite" /\ UNCHANGED <<retry, notified>>
    BY <1>14 DEF InviteAnswered
  <2> QED BY <1>11, <2>1, <2>2
<1>15. ASSUME NEW q \in Rounds, NiamosCreatesDraft(q)
       PROVE  WorkStep(r)
  <2> DEFINE next == drafts[q] + 1
  <2>1. /\ UNCHANGED <<status, notified>>
        /\ \/ fire' = [fire EXCEPT ![q].draft = next] /\ UNCHANGED retry
           \/ \E t \in Ticks : retry' = [retry EXCEPT ![t].draft = next] /\ UNCHANGED fire
    BY <1>15 DEF NiamosCreatesDraft
  <2> HIDE DEF next
  <2>2. CASE fire' = [fire EXCEPT ![q].draft = next] /\ UNCHANGED retry
    <3>1. fire[q] \in FireTask /\ fire \in [Rounds -> FireTask]
      BY <1>1 DEF TypeOK
    <3>2. fire'[q].phase = fire[q].phase /\ \A p \in Rounds \ {q} : fire'[p] = fire[p]
      BY <2>2, <3>1 DEF FireTask
    <3> QED BY <1>9, <2>1, <2>2, <3>2
  <2>3. ASSUME NEW t \in Ticks, retry' = [retry EXCEPT ![t].draft = next], UNCHANGED fire
        PROVE  WorkStep(r)
    <3>1. retry[t] \in RetryTask /\ retry \in [Ticks -> RetryTask]
      BY <1>1 DEF TypeOK
    <3>2. \A u \in Ticks : /\ retry'[u].try = retry[u].try /\ retry'[u].cur = retry[u].cur
                           /\ retry'[u].quit = retry[u].quit
      BY <2>3, <3>1 DEF RetryTask
    <3>3. RetryRests(r)
      BY <2>1, <3>2 DEF RetryRests, Trying, Quitting
    <3> QED BY <1>1, <2>1, <2>3, <3>3, WorkRests DEF Firing
  <2> QED BY <2>1, <2>2, <2>3
<1>16. ASSUME NEW q \in Rounds, DraftAnswered(q)
       PROVE  WorkStep(r)
  <2>1. PICK st \in {status, [status EXCEPT ![q] = "POD_CREATED"]} :
          /\ fire[q].phase = "draft" /\ FireReturns(q, st)
          /\ UNCHANGED <<retry, notified>>
    BY <1>16 DEF DraftAnswered
  <2>2. /\ st \in [Rounds -> Statuses] /\ st[q] \in {status[q], "POD_CREATED"}
        /\ \A p \in Rounds \ {q} : st[p] = status[p]
    BY <1>1, <2>1 DEF TypeOK, Statuses
  <2> QED BY <1>10, <2>1, <2>2
<1>17. CASE Evict
  <2>1. /\ status'[r] = status[r] /\ notified'[r] = notified[r]
        /\ fire'[r].phase = "idle"
        /\ \A t \in Ticks : /\ retry'[t].try = {} /\ retry'[t].quit = {}
                            /\ retry'[t].cur # r
    BY <1>17, SentinelAssumption DEF Evict, NoFire, NoRetry
  <2>2. /\ {t \in Ticks : r \in retry'[t].try \/ retry'[t].cur = r} = {}
        /\ {t \in Ticks : r \in retry'[t].quit} = {}
    BY <2>1
  <2>3. Work(r)!Evicted
    BY <2>1, <2>2 DEF Work!Evicted
  <2> QED BY <2>3 DEF WorkStep, Work!Next
<1>18. ASSUME \/ \E g \in Guilds : LinkNiamosGuildToken(g)
              \/ ClockAdvances \/ UNCHANGED vars
       PROVE  UNCHANGED <<status, fire, retry, notified>>
  BY <1>18 DEF LinkNiamosGuildToken, ClockAdvances, vars
<1> QED
  BY <1>3, <1>5, <1>6, <1>7, <1>8, <1>12, <1>13, <1>14, <1>15, <1>16, <1>17, <1>18 DEF Next

\* However the turns of several rounds' handlers and of overlapping sweeps
\* fall together, to each round they are the work RoundWork describes.
THEOREM WorkRefinement == Spec => RefinesRoundWork
<1>1. ASSUME Init, NEW r \in Rounds
      PROVE  Work(r)!Init
  <2>1. /\ status[r] = "NONE" /\ notified[r] = FALSE /\ fire[r].phase = "idle"
        /\ \A t \in Ticks : retry[t].try = {} /\ retry[t].quit = {} /\ retry[t].cur # r
    BY <1>1, SentinelAssumption DEF Init, NoFire, NoRetry
  <2>2. /\ {t \in Ticks : r \in retry[t].try \/ retry[t].cur = r} = {}
        /\ {t \in Ticks : r \in retry[t].quit} = {}
    BY <2>1
  <2> QED BY <2>1, <2>2 DEF Work!Init
<1>2. IInv /\ [Next]_vars => \A r \in Rounds : [Work(r)!Next]_(Work(r)!vars)
  BY NextIInv, NextWork DEF WorkStep
<1>3. Init => \A r \in Rounds : Work(r)!Init
  BY <1>1
<1> QED BY <1>2, <1>3, Invariant, PTL DEF Spec, RefinesRoundWork
=============================================================================
