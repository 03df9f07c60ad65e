---------------------------- MODULE RoundTailProofs ----------------------------
(***************************************************************************)
(* What RoundTail promises, for any number of guilds, pastes, players,     *)
(* overlapping sweeps and drafts.                                          *)
(***************************************************************************)
EXTENDS RoundTail, GuildTokensProofs

Phases == {"idle", "held", "chat", "chatMade", "draft", "told"}

\* An attempt has a token before it asks for a draft, and a draft before it
\* reports one; a token that is carried along was linked for the origin guild.
CarriedOK(w) ==
  /\ task[w].phase = "draft" => task[w].token # 0
  /\ task[w].phase = "told" => task[w].draft # 0
  /\ task[w].token # 0 => task[w].token \in Linked(Origin)

TypeInv ==
  /\ TypeOK /\ TokenInv
  /\ \A w \in Workers : CarriedOK(w)
  /\ DraftsUseGuildToken

-----------------------------------------------------------------------------
(* The tokens, seen alone, behave as GuildTokens says.                     *)

LEMMA TailStepOfTokens ==
  ASSUME Next
  PROVE  TokenNext \/ UNCHANGED tokenVars
<1>1. CASE LinkNext
  BY <1>1 DEF LinkNext, TokenNext
<1>2. CASE RecordSignup \/ CancelPod \/ ConcludePod \/ DeleteAnswered
  BY <1>2 DEF RecordSignup, CancelPod, ConcludePod, DeleteAnswered
<1>3. ASSUME NEW t \in Ticks, RunScheduledJob(t) \/ SweepReaches(t) \/ SweepReports(t)
      PROVE  UNCHANGED tokenVars
  BY <1>3 DEF RunScheduledJob, SweepReaches, SweepReports
<1>4. ASSUME NEW w \in Workers,
             \/ DiscordCreatesChannel(w) \/ ChatAnswered(w)
             \/ NiamosCreatesDraft(w) \/ DraftAnswered(w)
      PROVE  UNCHANGED tokenVars
  BY <1>4 DEF DiscordCreatesChannel, ChatAnswered, NiamosCreatesDraft, DraftAnswered
<1>5. ASSUME NEW m \in sending, MailSettles(m)
      PROVE  UNCHANGED tokenVars
  BY <1>5 DEF MailSettles
<1>6. CASE Evict
  BY <1>6 DEF Evict, TokenNext
<1> QED
  BY <1>1, <1>2, <1>3, <1>4, <1>5, <1>6 DEF Next

\* The round and its jobs only read the tokens: RoundTail implements
\* GuildTokens.
THEOREM TailImplementsTokens == Spec => TokenSpec
<1>1. Init => TokenInit
  BY DEF Init
<1>2. [Next]_vars => [TokenNext]_tokenVars
  BY TailStepOfTokens DEF vars
<1> QED
  BY <1>1, <1>2, PTL DEF Spec, TokenSpec

\* Each guild's row is one token verified for it
\* (services/niamosTokens.ts:34-44), whatever its rounds do meanwhile.
THEOREM RowsAreVerified == Spec => []RowIsVerified
<1>1. TokenInv => RowIsVerified
  BY DEF TokenInv
<1> QED
  BY <1>1, TailImplementsTokens, TokensInvariant, PTL

\* A token never outlasts one that was pasted after its link was done
\* (commands/connectNiamos.ts:34).
THEOREM OlderTokensStayAway == Spec => []NoOlderTokenReturns
<1>1. TokenInv => NoOlderTokenReturns
  BY DEF TokenInv
<1> QED
  BY <1>1, TailImplementsTokens, TokensInvariant, PTL

-----------------------------------------------------------------------------
(* How a task moves.                                                       *)

LEMMA WorkerFacts ==
  /\ Press \in Workers /\ Ticks \subseteq Workers
  /\ \A t \in Ticks : t # Press
  BY TailAssumption DEF Workers

LEMMA IdleIsTask ==
  /\ Idle \in Task
  /\ Idle.phase = "idle" /\ Idle.kind = "fire" /\ Idle.token = 0
  /\ Idle.chat = None /\ Idle.draft = 0
  BY MaxPastesAssumption, TailAssumption DEF Idle, Task

LEMMA TaskFields ==
  ASSUME NEW k \in Task
  PROVE  /\ k.phase \in Phases /\ k.kind \in {"fire", "retry"}
         /\ k.token \in 0..MaxPastes /\ k.chat \in {Chat, None} /\ k.draft \in 0..MaxDrafts
  BY DEF Task, Phases

LEMMA TaskSet ==
  ASSUME task \in [Workers -> Task], NEW w \in Workers, NEW k \in Task,
         task' = [task EXCEPT ![w] = k]
  PROVE  /\ task' \in [Workers -> Task] /\ task'[w] = k
         /\ \A v \in Workers \ {w} : task'[v] = task[v]
  OBVIOUS

\* All that tells w's new task from its old one.
Moved(w, phase, chat, draft) ==
  /\ task' \in [Workers -> Task]
  /\ task'[w].phase = phase /\ task'[w].chat = chat /\ task'[w].draft = draft
  /\ task'[w].kind = task[w].kind /\ task'[w].token = task[w].token
  /\ \A v \in Workers \ {w} : task'[v] = task[v]

LEMMA PhaseMoves ==
  ASSUME task \in [Workers -> Task], NEW w \in Workers, NEW p \in Phases,
         task' = [task EXCEPT ![w].phase = p]
  PROVE  Moved(w, p, task[w].chat, task[w].draft)
<1> DEFINE k == [task[w] EXCEPT !.phase = p]
<1>1. k \in Task
  BY DEF Task, Phases
<1>2. /\ k.phase = p /\ k.kind = task[w].kind /\ k.token = task[w].token
      /\ k.chat = task[w].chat /\ k.draft = task[w].draft
  BY DEF Task
<1>3. task' = [task EXCEPT ![w] = k]
  OBVIOUS
<1> HIDE DEF k
<1> QED
  BY <1>1, <1>2, <1>3, TaskSet DEF Moved

LEMMA PhaseAndChatMove ==
  ASSUME task \in [Workers -> Task], NEW w \in Workers, NEW p \in Phases, NEW c \in {Chat, None},
         task' = [task EXCEPT ![w].phase = p, ![w].chat = c]
  PROVE  Moved(w, p, c, task[w].draft)
<1> DEFINE k == [[task[w] EXCEPT !.phase = p] EXCEPT !.chat = c]
<1>1. k \in Task
  BY DEF Task, Phases
<1>2. /\ k.phase = p /\ k.kind = task[w].kind /\ k.token = task[w].token
      /\ k.chat = c /\ k.draft = task[w].draft
  BY DEF Task
<1>3. task' = [task EXCEPT ![w] = k]
  OBVIOUS
<1> HIDE DEF k
<1> QED
  BY <1>1, <1>2, <1>3, TaskSet DEF Moved

LEMMA DraftMoves ==
  ASSUME task \in [Workers -> Task], NEW w \in Workers, NEW d \in 0..MaxDrafts,
         task' = [task EXCEPT ![w].draft = d]
  PROVE  Moved(w, task[w].phase, task[w].chat, d)
<1> DEFINE k == [task[w] EXCEPT !.draft = d]
<1>1. k \in Task
  BY DEF Task
<1>2. /\ k.phase = task[w].phase /\ k.kind = task[w].kind /\ k.token = task[w].token
      /\ k.chat = task[w].chat /\ k.draft = d
  BY DEF Task
<1>3. task' = [task EXCEPT ![w] = k]
  OBVIOUS
<1> HIDE DEF k
<1> QED
  BY <1>1, <1>2, <1>3, TaskSet DEF Moved

\* w's task is over.
Cleared(w) ==
  /\ task' \in [Workers -> Task] /\ task'[w] = Idle
  /\ \A v \in Workers \ {w} : task'[v] = task[v]

LEMMA Clears ==
  ASSUME task \in [Workers -> Task], NEW w \in Workers, task' = [task EXCEPT ![w] = Idle]
  PROVE  Cleared(w)
  BY IdleIsTask, TaskSet DEF Cleared

LEMMA MovedKeepsTypes ==
  ASSUME \A v \in Workers : CarriedOK(v), UNCHANGED tokenVars, NEW w \in Workers,
         NEW p, NEW c, NEW d, Moved(w, p, c, d),
         p = "draft" => task[w].token # 0, p = "told" => d # 0
  PROVE  \A v \in Workers : CarriedOK(v)'
<1>1. CarriedOK(w)'
  BY DEF CarriedOK, Moved, Linked, tokenVars
<1>2. ASSUME NEW v \in Workers \ {w} PROVE CarriedOK(v)'
  BY <1>2 DEF CarriedOK, Moved, Linked, tokenVars
<1> QED
  BY <1>1, <1>2

LEMMA ClearedKeepsTypes ==
  ASSUME \A v \in Workers : CarriedOK(v), UNCHANGED tokenVars, NEW w \in Workers, Cleared(w)
  PROVE  \A v \in Workers : CarriedOK(v)'
<1>1. CarriedOK(w)'
  BY IdleIsTask DEF CarriedOK, Cleared
<1>2. ASSUME NEW v \in Workers \ {w} PROVE CarriedOK(v)'
  BY <1>2 DEF CarriedOK, Cleared, Linked, tokenVars
<1> QED
  BY <1>1, <1>2

\* The token findGuildToken reads is none, or one linked for the guild.
LEMMA GuildTokenIsLinked ==
  ASSUME TokenInv
  PROVE  /\ GuildToken(Origin) \in 0..MaxPastes
         /\ GuildToken(Origin) # 0 => GuildToken(Origin) \in Linked(Origin)
<1>1. Origin \in Guilds
  BY TailAssumption
<1>2. tokens[Origin] \in TokenRow
  BY <1>1 DEF TokenInv, TokenTypeOK
<1>3. tokens[Origin].token # 0 => tokens[Origin] # NoRow
  BY DEF NoRow
<1> QED
  BY <1>1, <1>2, <1>3 DEF GuildToken, TokenRow, TokenInv, RowIsVerified

LEMMA Attempts ==
  ASSUME task \in [Workers -> Task], NEW w \in Workers, NEW c \in {Chat, None}, NEW seen,
         AttemptPodCreation(w, c, seen)
  PROVE  \/ Moved(w, "draft", c, task[w].draft) /\ task[w].token # 0 /\ past' = seen
         \/ /\ Cleared(w)
            /\ past' = seen \cup (IF task[w].kind = "fire" THEN {"firing failed"} ELSE {})
<1>1. CASE Fails(w, seen)
  BY <1>1, Clears DEF Fails
<1>2. CASE /\ HasToken(w) /\ past' = seen
           /\ task' = [task EXCEPT ![w].phase = "draft", ![w].chat = c]
  BY <1>2, PhaseAndChatMove DEF HasToken, Phases
<1> QED
  BY <1>1, <1>2 DEF AttemptPodCreation

\* Mail is for the players, and for the chat the attempt can name.
LEMMA MailIsMessages ==
  ASSUME NEW w \in Workers, task[w] \in Task, task[w].draft # 0
  PROVE  Mail(w) \subseteq Message
<1>1. task[w].chat \in {Chat, None} /\ task[w].draft \in 1..MaxDrafts
  BY TaskFields
<1>2. KnownChat(w) \subseteq {Chat}
  BY <1>1 DEF KnownChat
<1> QED
  BY <1>1, <1>2 DEF Mail, Message

-----------------------------------------------------------------------------
(* Types, and the token each draft is made with.                           *)

\* With the tokens and the drafts untouched, only the tasks, the round and the
\* mail have to be looked at.
LEMMA TailKeepsTypes ==
  ASSUME TypeInv, UNCHANGED <<tokenVars, madeWith>>,
         status' \in {"COLLECTING", "THRESHOLD_REACHED", "POD_CREATED", "CANCELLED", "CONCLUDED"},
         chatChannelId' \in {Chat, None}, shareId' \in 0..MaxDrafts,
         task' \in [Workers -> Task], \A w \in Workers : CarriedOK(w)',
         channel' \in {"none", "open", "deleted"},
         sending' \subseteq Message, settled' \subseteq Message, deletes' \in Nat,
         past' \subseteq {"overlap", "firing failed", "delete failed", "evicted"}
  PROVE  TypeInv'
<1>1. TokenInv' /\ \A h \in Guilds : Linked(h)' = Linked(h)
  BY TokenStutter DEF TypeInv, tokenVars
<1>2. DraftsUseGuildToken'
  BY <1>1, TailAssumption DEF TypeInv, DraftsUseGuildToken
<1>3. TypeOK'
  BY <1>1 DEF TypeInv, TypeOK, TokenInv
<1> QED
  BY <1>1, <1>2, <1>3 DEF TypeInv

LEMMA TypesUnfolded ==
  ASSUME TypeInv
  PROVE  /\ TypeOK /\ TokenInv /\ task \in [Workers -> Task]
         /\ \A w \in Workers : task[w] \in Task
         /\ \A w \in Workers : CarriedOK(w)
  BY DEF TypeInv, TypeOK

LEMMA SweepReadsRound ==
  ASSUME TypeInv, NEW t \in Ticks, RunScheduledJob(t)
  PROVE  /\ task' \in [Workers -> Task]
         /\ task'[t].phase = "held" /\ task'[t].token = GuildToken(Origin)
         /\ task'[t].kind = (IF Stuck THEN "retry" ELSE "fire")
         /\ task'[t].chat = chatChannelId /\ task'[t].draft = 0
         /\ \A v \in Workers \ {t} : task'[v] = task[v]
<1> DEFINE k == [Idle EXCEPT !.phase = "held", !.kind = IF Stuck THEN "retry" ELSE "fire",
                             !.token = GuildToken(Origin), !.chat = chatChannelId]
<1>1. GuildToken(Origin) \in 0..MaxPastes /\ chatChannelId \in {Chat, None}
  BY GuildTokenIsLinked DEF TypeInv, TypeOK
<1>2. Idle \in Task /\ Idle.draft = 0
  BY IdleIsTask
<1>3. k \in Task
  BY <1>1, <1>2 DEF Task
<1>4. task' = [task EXCEPT ![t] = k]
  BY DEF RunScheduledJob
<1>5. /\ k.phase = "held" /\ k.kind = (IF Stuck THEN "retry" ELSE "fire")
      /\ k.token = GuildToken(Origin) /\ k.chat = chatChannelId /\ k.draft = 0
  BY <1>2 DEF Task
<1> HIDE DEF k
<1> QED
  BY <1>3, <1>4, <1>5, TypesUnfolded, WorkerFacts, TaskSet

LEMMA PressClaims ==
  ASSUME TypeInv, RecordSignup
  PROVE  /\ task' \in [Workers -> Task]
         /\ task'[Press].phase = "chat" /\ task'[Press].token = GuildToken(Origin)
         /\ task'[Press].kind = "fire" /\ task'[Press].chat = None /\ task'[Press].draft = 0
         /\ \A v \in Workers \ {Press} : task'[v] = task[v]
<1> DEFINE k == [Idle EXCEPT !.phase = "chat", !.token = GuildToken(Origin)]
<1>1. GuildToken(Origin) \in 0..MaxPastes
  BY GuildTokenIsLinked DEF TypeInv
<1>2. Idle \in Task /\ Idle.kind = "fire" /\ Idle.chat = None /\ Idle.draft = 0
  BY IdleIsTask
<1>3. k \in Task
  BY <1>1, <1>2 DEF Task
<1>4. task' = [task EXCEPT ![Press] = k]
  BY DEF RecordSignup
<1>5. /\ k.phase = "chat" /\ k.kind = "fire" /\ k.token = GuildToken(Origin)
      /\ k.chat = None /\ k.draft = 0
  BY <1>2 DEF Task
<1> HIDE DEF k
<1> QED
  BY <1>3, <1>4, <1>5, TypesUnfolded, WorkerFacts, TaskSet

LEMMA SweepTurns ==
  ASSUME TypeInv, NEW t \in Ticks, SweepReaches(t)
  PROVE  /\ task[t].phase = "held"
         /\ \/ /\ task[t].kind = "retry" /\ status' = status
               /\ \/ /\ Moved(t, "draft", task[t].chat, task[t].draft)
                     /\ task[t].token # 0 /\ past' = past
                  \/ Cleared(t) /\ past' = past
            \/ /\ task[t].kind = "fire" /\ status = "COLLECTING" /\ past' = past
               /\ status' = "THRESHOLD_REACHED"
               /\ Moved(t, "chat", task[t].chat, task[t].draft)
            \/ Cleared(t) /\ status' = status /\ past' = past
<1>1. task \in [Workers -> Task] /\ task[t].chat \in {Chat, None} /\ t \in Workers
  BY TypesUnfolded, WorkerFacts, TaskFields
<1>2. CASE task[t].kind = "retry" /\ AttemptPodCreation(t, task[t].chat, past) /\ UNCHANGED status
  <2> DEFINE c == task[t].chat
  <2>1. c \in {Chat, None} /\ AttemptPodCreation(t, c, past)
    BY <1>1, <1>2
  <2> HIDE DEF c
  <2>2. \/ Moved(t, "draft", c, task[t].draft) /\ task[t].token # 0 /\ past' = past
        \/ /\ Cleared(t)
           /\ past' = past \cup (IF task[t].kind = "fire" THEN {"firing failed"} ELSE {})
    BY <1>1, <2>1, Attempts
  <2>3. past \cup (IF task[t].kind = "fire" THEN {"firing failed"} ELSE {}) = past
    BY <1>2
  <2>4. \/ Moved(t, "draft", c, task[t].draft) /\ task[t].token # 0 /\ past' = past
        \/ Cleared(t) /\ past' = past
    BY <2>2, <2>3
  <2> QED
    BY <1>2, <2>4 DEF SweepReaches, c
<1>3. CASE /\ task[t].kind = "fire" /\ status = "COLLECTING"
           /\ status' = "THRESHOLD_REACHED" /\ UNCHANGED past
           /\ task' = [task EXCEPT ![t].phase = "chat"]
  BY <1>1, <1>3, PhaseMoves DEF SweepReaches, Phases
<1>4. CASE task' = [task EXCEPT ![t] = Idle] /\ UNCHANGED <<status, past>>
  BY <1>1, <1>4, Clears DEF SweepReaches
<1> QED
  BY <1>2, <1>3, <1>4 DEF SweepReaches

LEMMA ChatTurns ==
  ASSUME TypeInv, NEW w \in Workers, ChatAnswered(w)
  PROVE  /\ task[w].phase \in {"chat", "chatMade"}
         /\ \/ /\ Moved(w, "draft", Chat, task[w].draft) /\ task[w].token # 0
               /\ task[w].phase = "chatMade" /\ past' = past
            \/ /\ Moved(w, "draft", None, task[w].draft) /\ task[w].token # 0
               /\ past' = past \cup {"firing failed"}
            \/ /\ Cleared(w)
               /\ past' = past \cup {"firing failed"} \/ (past' = past /\ task[w].kind # "fire")
<1>1. task \in [Workers -> Task]
  BY TypesUnfolded
<1>2. CASE task[w].phase = "chatMade" /\ AttemptPodCreation(w, Chat, past)
  <2>1. \/ Moved(w, "draft", Chat, task[w].draft) /\ task[w].token # 0 /\ past' = past
        \/ /\ Cleared(w)
           /\ past' = past \cup (IF task[w].kind = "fire" THEN {"firing failed"} ELSE {})
    BY <1>1, <1>2, Attempts
  <2> QED
    BY <1>2, <2>1
<1>3. CASE /\ task[w].phase \in {"chat", "chatMade"}
           /\ AttemptPodCreation(w, None, past \cup {"firing failed"})
  <2> DEFINE seen == past \cup {"firing failed"}
  <2>1. \/ Moved(w, "draft", None, task[w].draft) /\ task[w].token # 0 /\ past' = seen
        \/ /\ Cleared(w)
           /\ past' = seen \cup (IF task[w].kind = "fire" THEN {"firing failed"} ELSE {})
    BY <1>1, <1>3, Attempts
  <2> QED
    BY <1>3, <2>1
<1> QED
  BY <1>2, <1>3 DEF ChatAnswered

LEMMA DraftTurns ==
  ASSUME TypeInv, NEW w \in Workers, DraftAnswered(w)
  PROVE  /\ task[w].phase = "draft"
         /\ \/ /\ task[w].draft # 0 /\ past' = past
               /\ status' = "POD_CREATED" /\ shareId' = task[w].draft
               /\ chatChannelId' = (IF task[w].chat = None THEN chatChannelId ELSE task[w].chat)
               /\ \/ w = Press /\ Cleared(w) /\ sending' = sending \cup Mail(w)
                  \/ /\ w # Press /\ Moved(w, "told", task[w].chat, task[w].draft)
                     /\ sending' = sending
            \/ /\ Cleared(w) /\ UNCHANGED <<roundVars, sending>>
               /\ past' = past \cup {"firing failed"} \/ (past' = past /\ task[w].kind # "fire")
<1>1. task \in [Workers -> Task]
  BY TypesUnfolded
<1>2. CASE /\ task[w].draft # 0 /\ MarkPodCreated(task[w].draft, task[w].chat)
           /\ w = Press /\ task' = [task EXCEPT ![w] = Idle]
           /\ sending' = sending \cup Mail(w) /\ UNCHANGED past
  BY <1>1, <1>2, Clears DEF MarkPodCreated, DraftAnswered
<1>3. CASE /\ task[w].draft # 0 /\ MarkPodCreated(task[w].draft, task[w].chat)
           /\ w # Press /\ task' = [task EXCEPT ![w].phase = "told"]
           /\ UNCHANGED sending /\ UNCHANGED past
  BY <1>1, <1>3, PhaseMoves DEF MarkPodCreated, DraftAnswered, Phases
<1>4. CASE Fails(w, past) /\ UNCHANGED <<roundVars, sending>>
  BY <1>1, <1>4, Clears DEF Fails, DraftAnswered
<1> QED
  BY <1>2, <1>3, <1>4 DEF DraftAnswered

LEMMA InitialTypes ==
  ASSUME Init
  PROVE  TypeInv
<1>1. TokenInv
  BY TokenInitial DEF Init
<1>2. task = [w \in Workers |-> Idle] /\ madeWith = <<>>
  BY DEF Init, TailInit
<1>3. task \in [Workers -> Task] /\ \A w \in Workers : CarriedOK(w)
  BY <1>2, IdleIsTask DEF CarriedOK
<1>4. TypeOK
  BY <1>1, <1>3, TailAssumption DEF Init, TailInit, TypeOK, TokenInv
<1> QED
  BY <1>1, <1>2, <1>3, <1>4 DEF TypeInv, DraftsUseGuildToken

LEMMA LinkKeepsTypes ==
  ASSUME TypeInv, LinkNext
  PROVE  TypeInv'
<1>1. TokenNext /\ UNCHANGED tailVars
  BY DEF LinkNext, TokenNext
<1>2. TokenInv' /\ \A h \in Guilds : Linked(h) \subseteq Linked(h)'
  BY <1>1, TokenStep DEF TypeInv
<1>3. Linked(Origin) \subseteq Linked(Origin)'
  BY <1>2, TailAssumption
<1>4. TypeOK'
  BY <1>1, <1>2 DEF TypeInv, TypeOK, TokenInv, tailVars, roundVars, mailVars
<1>5. \A w \in Workers : CarriedOK(w)'
  BY <1>1, <1>3 DEF TypeInv, CarriedOK, tailVars
<1>6. DraftsUseGuildToken'
  BY <1>1, <1>3 DEF TypeInv, DraftsUseGuildToken, tailVars
<1> QED
  BY <1>2, <1>4, <1>5, <1>6 DEF TypeInv

LEMMA RecordSignupKeepsTypes ==
  ASSUME TypeInv, RecordSignup
  PROVE  TypeInv'
<1>1. \A w \in Workers : CarriedOK(w)'
  <2>1. CarriedOK(Press)'
    BY PressClaims, GuildTokenIsLinked DEF TypeInv, CarriedOK, Linked, RecordSignup, tokenVars
  <2>2. ASSUME NEW v \in Workers \ {Press} PROVE CarriedOK(v)'
    BY <2>2, PressClaims DEF TypeInv, CarriedOK, Linked, RecordSignup, tokenVars
  <2> QED
    BY <2>1, <2>2
<1> QED
  BY <1>1, PressClaims, TailKeepsTypes, TypesUnfolded DEF RecordSignup, TypeOK, mailVars

LEMMA RunScheduledJobKeepsTypes ==
  ASSUME TypeInv, NEW t \in Ticks, RunScheduledJob(t)
  PROVE  TypeInv'
<1>1. \A w \in Workers : CarriedOK(w)'
  <2>1. CarriedOK(t)'
    BY SweepReadsRound, GuildTokenIsLinked
       DEF TypeInv, CarriedOK, Linked, RunScheduledJob, tokenVars
  <2>2. ASSUME NEW v \in Workers \ {t} PROVE CarriedOK(v)'
    BY <2>2, SweepReadsRound DEF TypeInv, CarriedOK, Linked, RunScheduledJob, tokenVars
  <2> QED
    BY <2>1, <2>2
<1>2. past' \subseteq {"overlap", "firing failed", "delete failed", "evicted"}
  BY TypesUnfolded DEF RunScheduledJob, TypeOK
<1> QED
  BY <1>1, <1>2, SweepReadsRound, TailKeepsTypes, TypesUnfolded
  DEF RunScheduledJob, TypeOK, mailVars, roundVars

LEMMA SweepReachesKeepsTypes ==
  ASSUME TypeInv, NEW t \in Ticks, SweepReaches(t)
  PROVE  TypeInv'
<1>1. t \in Workers /\ UNCHANGED tokenVars
  BY WorkerFacts DEF SweepReaches
<1>2. task' \in [Workers -> Task] /\ \A w \in Workers : CarriedOK(w)'
  <2>1. ASSUME Moved(t, "draft", task[t].chat, task[t].draft), task[t].token # 0
        PROVE  task' \in [Workers -> Task] /\ \A w \in Workers : CarriedOK(w)'
    BY <1>1, <2>1, MovedKeepsTypes, TypesUnfolded DEF Moved
  <2>2. ASSUME Moved(t, "chat", task[t].chat, task[t].draft)
        PROVE  task' \in [Workers -> Task] /\ \A w \in Workers : CarriedOK(w)'
    BY <1>1, <2>2, MovedKeepsTypes, TypesUnfolded DEF Moved
  <2>3. ASSUME Cleared(t)
        PROVE  task' \in [Workers -> Task] /\ \A w \in Workers : CarriedOK(w)'
    BY <1>1, <2>3, ClearedKeepsTypes, TypesUnfolded DEF Cleared
  <2> QED
    BY <2>1, <2>2, <2>3, SweepTurns
<1>3. past' = past /\ status' \in {status, "THRESHOLD_REACHED"}
  BY SweepTurns
<1> QED
  BY <1>2, <1>3, TailKeepsTypes, TypesUnfolded DEF SweepReaches, TypeOK, mailVars

LEMMA SweepReportsKeepsTypes ==
  ASSUME TypeInv, NEW t \in Ticks, SweepReports(t)
  PROVE  TypeInv'
<1>1. t \in Workers /\ UNCHANGED tokenVars /\ Cleared(t)
  BY WorkerFacts, Clears, TypesUnfolded DEF SweepReports
<1>2. task' \in [Workers -> Task] /\ \A w \in Workers : CarriedOK(w)'
  BY <1>1, ClearedKeepsTypes, TypesUnfolded DEF Cleared
<1>3. Mail(t) \subseteq Message
  BY <1>1, MailIsMessages, TypesUnfolded DEF CarriedOK, SweepReports
<1> QED
  BY <1>2, <1>3, TailKeepsTypes, TypesUnfolded DEF SweepReports, TypeOK, roundVars

LEMMA ConcludeKeepsTypes ==
  ASSUME TypeInv, CancelPod \/ ConcludePod \/ DeleteAnswered
  PROVE  TypeInv'
<1>1. UNCHANGED <<tokenVars, madeWith, task, settled, sending>>
  BY DEF CancelPod, ConcludePod, DeleteAnswered, mailVars
<1>2. \A w \in Workers : CarriedOK(w)'
  BY <1>1, TypesUnfolded DEF CarriedOK, Linked, tokenVars
<1>3. deletes' \in Nat
  <2>1. deletes \in Nat
    BY TypesUnfolded DEF TypeOK
  <2>2. \/ deletes' = deletes \/ (deletes > 0 /\ deletes' = deletes - 1)
        \/ deletes' = deletes + (IF chatChannelId = None THEN 0 ELSE 1)
    BY DEF CancelPod, ConcludePod, DeleteAnswered
  <2> QED
    BY <2>1, <2>2
<1> QED
  BY <1>1, <1>2, <1>3, TailKeepsTypes, TypesUnfolded
  DEF CancelPod, ConcludePod, DeleteAnswered, TypeOK, roundVars

LEMMA ChannelKeepsTypes ==
  ASSUME TypeInv, NEW w \in Workers, DiscordCreatesChannel(w)
  PROVE  TypeInv'
<1>1. Moved(w, "chatMade", task[w].chat, task[w].draft) /\ UNCHANGED tokenVars
  BY PhaseMoves, TypesUnfolded DEF DiscordCreatesChannel, Phases
<1>2. task' \in [Workers -> Task] /\ \A v \in Workers : CarriedOK(v)'
  BY <1>1, MovedKeepsTypes, TypesUnfolded DEF Moved
<1> QED
  BY <1>2, TailKeepsTypes, TypesUnfolded DEF DiscordCreatesChannel, TypeOK, mailVars, roundVars

LEMMA ChatAnsweredKeepsTypes ==
  ASSUME TypeInv, NEW w \in Workers, ChatAnswered(w)
  PROVE  TypeInv'
<1>1. UNCHANGED tokenVars
  BY DEF ChatAnswered
<1>2. task' \in [Workers -> Task] /\ \A v \in Workers : CarriedOK(v)'
  <2>1. ASSUME NEW c, Moved(w, "draft", c, task[w].draft), task[w].token # 0
        PROVE  task' \in [Workers -> Task] /\ \A v \in Workers : CarriedOK(v)'
    BY <1>1, <2>1, MovedKeepsTypes, TypesUnfolded DEF Moved
  <2>2. ASSUME Cleared(w)
        PROVE  task' \in [Workers -> Task] /\ \A v \in Workers : CarriedOK(v)'
    BY <1>1, <2>2, ClearedKeepsTypes, TypesUnfolded DEF Cleared
  <2> QED
    BY <2>1, <2>2, ChatTurns
<1>3. past' \subseteq past \cup {"firing failed"}
  BY ChatTurns
<1> QED
  BY <1>2, <1>3, TailKeepsTypes, TypesUnfolded DEF ChatAnswered, TypeOK, mailVars, roundVars

LEMMA DraftAnsweredKeepsTypes ==
  ASSUME TypeInv, NEW w \in Workers, DraftAnswered(w)
  PROVE  TypeInv'
<1>1. UNCHANGED tokenVars
  BY DEF DraftAnswered
<1>2. task' \in [Workers -> Task] /\ \A v \in Workers : CarriedOK(v)'
  <2>1. ASSUME Moved(w, "told", task[w].chat, task[w].draft), task[w].draft # 0
        PROVE  task' \in [Workers -> Task] /\ \A v \in Workers : CarriedOK(v)'
    BY <1>1, <2>1, MovedKeepsTypes, TypesUnfolded DEF Moved
  <2>2. ASSUME Cleared(w)
        PROVE  task' \in [Workers -> Task] /\ \A v \in Workers : CarriedOK(v)'
    BY <1>1, <2>2, ClearedKeepsTypes, TypesUnfolded DEF Cleared
  <2> QED
    BY <2>1, <2>2, DraftTurns
<1>3. task[w].chat \in {Chat, None} /\ task[w].draft \in 0..MaxDrafts
  BY TypesUnfolded, TaskFields
<1>4. task[w].draft # 0 => Mail(w) \subseteq Message
  BY MailIsMessages, TypesUnfolded
<1>5. /\ status' \in {status, "POD_CREATED"} /\ shareId' \in 0..MaxDrafts
      /\ chatChannelId' \in {Chat, None} /\ sending' \subseteq Message
      /\ past' \subseteq past \cup {"firing failed"}
  BY <1>3, <1>4, DraftTurns, TypesUnfolded DEF TypeOK, roundVars
<1> QED
  BY <1>2, <1>5, TailKeepsTypes, TypesUnfolded DEF DraftAnswered, TypeOK

LEMMA MailKeepsTypes ==
  ASSUME TypeInv, NEW m \in sending, MailSettles(m)
  PROVE  TypeInv'
<1>1. \A w \in Workers : CarriedOK(w)'
  BY TypesUnfolded DEF CarriedOK, Linked, tokenVars, MailSettles
<1>2. sending' \subseteq Message /\ settled' \subseteq Message
  BY TypesUnfolded DEF MailSettles, Left, TypeOK
<1> QED
  BY <1>1, <1>2, TailKeepsTypes, TypesUnfolded DEF MailSettles, TypeOK, roundVars

\* The one step that makes a draft.
LEMMA NiamosKeepsTypes ==
  ASSUME TypeInv, NEW w \in Workers, NiamosCreatesDraft(w)
  PROVE  TypeInv'
<1>1. UNCHANGED tokenVars /\ task[w].phase = "draft" /\ Len(madeWith) < MaxDrafts
  BY DEF NiamosCreatesDraft
<1>2. madeWith \in Seq(1..MaxPastes) /\ Len(madeWith) \in Nat
  <2>1. madeWith \in Seq(1..MaxPastes)
    BY TypesUnfolded DEF TypeOK
  <2> QED
    BY <2>1, LenProperties
<1>3. Len(madeWith) + 1 \in 1..MaxDrafts
  BY <1>1, <1>2, TailAssumption
<1>4. Moved(w, task[w].phase, task[w].chat, Len(madeWith) + 1)
  <2> DEFINE d == Len(madeWith) + 1
  <2>1. d \in 0..MaxDrafts /\ task' = [task EXCEPT ![w].draft = d]
    BY <1>3 DEF NiamosCreatesDraft
  <2> HIDE DEF d
  <2>2. Moved(w, task[w].phase, task[w].chat, d)
    BY <2>1, DraftMoves, TypesUnfolded
  <2> QED
    BY <2>2 DEF d
<1>5. task[w].token # 0 /\ task[w].token \in Linked(Origin) /\ task[w].token \in 0..MaxPastes
  BY <1>1, TypesUnfolded, TaskFields DEF CarriedOK
<1>6. task' \in [Workers -> Task] /\ \A v \in Workers : CarriedOK(v)'
  BY <1>1, <1>3, <1>4, <1>5, MovedKeepsTypes, TypesUnfolded DEF Moved
<1>7. TokenInv' /\ \A h \in Guilds : Linked(h)' = Linked(h)
  BY <1>1, TokenStutter DEF TypeInv
<1>8. /\ madeWith' \in Seq(1..MaxPastes) /\ Len(madeWith') = Len(madeWith) + 1
      /\ DOMAIN madeWith' = DOMAIN madeWith \cup {Len(madeWith) + 1}
      /\ \A d \in DOMAIN madeWith : madeWith'[d] = madeWith[d]
      /\ madeWith'[Len(madeWith) + 1] = task[w].token
  <2>1. task[w].token \in 1..MaxPastes /\ madeWith' = Append(madeWith, task[w].token)
    BY <1>5, MaxPastesAssumption DEF NiamosCreatesDraft
  <2> QED
    BY <1>2, <2>1, AppendProperties
<1>9. DraftsUseGuildToken'
  BY <1>5, <1>7, <1>8, TailAssumption DEF TypeInv, DraftsUseGuildToken
<1>10. Len(madeWith') <= MaxDrafts
  BY <1>3, <1>8
<1>11. TypeOK'
  BY <1>6, <1>7, <1>8, <1>10, TypesUnfolded
  DEF NiamosCreatesDraft, TypeOK, TokenInv, roundVars, mailVars
<1> QED
  BY <1>6, <1>7, <1>9, <1>11 DEF TypeInv

LEMMA EvictKeepsTypes ==
  ASSUME TypeInv, Evict
  PROVE  TypeInv'
<1>1. TokenInv' /\ \A h \in Guilds : Linked(h)' = Linked(h)
  BY LostPreserves DEF TypeInv, Evict
<1>2. task' \in [Workers -> Task] /\ \A w \in Workers : CarriedOK(w)'
  BY IdleIsTask DEF Evict, CarriedOK
<1>3. DraftsUseGuildToken'
  BY <1>1, TailAssumption DEF TypeInv, DraftsUseGuildToken, Evict
<1>4. /\ sending' \subseteq Message /\ settled' \subseteq Message /\ deletes' \in Nat
      /\ past' \subseteq {"overlap", "firing failed", "delete failed", "evicted"}
      /\ channel' \in {"none", "open", "deleted"}
  BY TypesUnfolded DEF TypeOK, Evict
<1>5. UNCHANGED <<status, chatChannelId, shareId, madeWith>> /\ TokenTypeOK'
  BY <1>1 DEF Evict, roundVars, TokenInv
<1>6. TypeOK'
  BY <1>2, <1>4, <1>5, TypesUnfolded DEF TypeOK
<1> QED
  BY <1>1, <1>2, <1>3, <1>6 DEF TypeInv

LEMMA TypesStep ==
  ASSUME TypeInv, [Next]_vars
  PROVE  TypeInv'
<1>1. CASE LinkNext
  BY <1>1, LinkKeepsTypes
<1>2. CASE RecordSignup
  BY <1>2, RecordSignupKeepsTypes
<1>3. CASE CancelPod \/ ConcludePod \/ DeleteAnswered
  BY <1>3, ConcludeKeepsTypes
<1>4. ASSUME NEW t \in Ticks, RunScheduledJob(t) \/ SweepReaches(t) \/ SweepReports(t)
      PROVE  TypeInv'
  BY <1>4, RunScheduledJobKeepsTypes, SweepReachesKeepsTypes, SweepReportsKeepsTypes
<1>5. ASSUME NEW w \in Workers,
             \/ DiscordCreatesChannel(w) \/ ChatAnswered(w)
             \/ NiamosCreatesDraft(w) \/ DraftAnswered(w)
      PROVE  TypeInv'
  BY <1>5, ChannelKeepsTypes, ChatAnsweredKeepsTypes, NiamosKeepsTypes, DraftAnsweredKeepsTypes
<1>6. ASSUME NEW m \in sending, MailSettles(m)
      PROVE  TypeInv'
  BY <1>6, MailKeepsTypes
<1>7. CASE Evict
  BY <1>7, EvictKeepsTypes
<1>8. CASE UNCHANGED vars
  <2>1. UNCHANGED tokenVars /\ UNCHANGED tailVars
    BY <1>8 DEF vars
  <2>2. \A w \in Workers : CarriedOK(w)'
    BY <2>1, TypesUnfolded DEF CarriedOK, Linked, tokenVars, tailVars
  <2> QED
    BY <2>1, <2>2, TailKeepsTypes, TypesUnfolded DEF TypeOK, tailVars, roundVars, mailVars
<1> QED
  BY <1>1, <1>2, <1>3, <1>4, <1>5, <1>6, <1>7, <1>8 DEF Next

\* The types, and what each handler carries over its requests: a token
\* accepted for the round's guild, or none, a draft made for its attempt.
THEOREM TailTypes == Spec => []TypeInv
<1>1. Init => TypeInv
  BY InitialTypes
<1>2. TypeInv /\ [Next]_vars => TypeInv'
  BY TypesStep
<1> QED
  BY <1>1, <1>2, PTL DEF Spec

\* Types: every id, token, draft and message the round's last stretch handles
\* is one that exists.
THEOREM TailTypeCorrect == Spec => []TypeOK
<1>1. TypeInv => TypeOK
  BY DEF TypeInv
<1> QED
  BY <1>1, TailTypes, PTL

\* Each draft is made under a token accepted for the round's own guild,
\* however the token is replaced while the round waits (services/pods.ts:210-216).
THEOREM DraftsBelongToGuild == Spec => []DraftsUseGuildToken
<1>1. TypeInv => DraftsUseGuildToken
  BY DEF TypeInv
<1> QED
  BY <1>1, TailTypes, PTL

-----------------------------------------------------------------------------
(* One attempt made the chat, and it alone can name it.                    *)

\* w claimed the round, and its attempt is not over.
Firing(w) ==
  /\ task[w].kind = "fire"
  /\ task[w].phase \in {"chat", "chatMade", "draft", "told"}

\* Nobody has claimed a round that still collects.
CollectingIsUntouched ==
  status = "COLLECTING" =>
    /\ Sent = {} /\ chatChannelId = None
    /\ \A w \in Workers : ~Firing(w) /\ task[w].kind = "fire"

OneFiring == \A v, w \in Workers : Firing(v) /\ Firing(w) => v = w

\* Only the attempt that claimed the round asks for its chat, and it alone can
\* name it, until the row can.
ChatIsFirings ==
  \A w \in Workers :
    /\ task[w].chat # None => Firing(w)
    /\ task[w].phase \in {"chat", "chatMade"} => task[w].kind = "fire"
    /\ Firing(w) /\ task[w].phase # "told" => chatChannelId = None

RowKnowsChatLate == chatChannelId # None => status \in {"POD_CREATED", "CONCLUDED"}

WelcomeIsLast ==
  \A w \in Workers : Firing(w) => \A m \in Sent : m.to # Chat

FireInv ==
  /\ CollectingIsUntouched /\ OneFiring /\ ChatIsFirings
  /\ RowKnowsChatLate /\ WelcomeIsLast /\ OneWelcome

\* A step that leaves the round, the mail and every attempt as they were.
LEMMA FiringsStay ==
  ASSUME FireInv, UNCHANGED roundVars, Sent' = Sent,
         \A w \in Workers :
           /\ task'[w].chat = task[w].chat \/ task'[w].chat = None
           /\ task'[w].kind = task[w].kind \/ task'[w].kind = "fire"
           /\ task'[w].phase = task[w].phase \/ task'[w].phase = "idle"
           /\ task'[w].phase = "idle" \/ task'[w].kind = task[w].kind
           /\ task'[w].phase = "idle" => task'[w].chat = None
  PROVE  FireInv'
<1>1. \A w \in Workers : Firing(w)' => Firing(w) /\ task'[w].phase = task[w].phase
  BY DEF Firing
<1>2. \A w \in Workers : task'[w].chat # None => Firing(w)'
  BY DEF Firing, FireInv, ChatIsFirings
<1>3. CollectingIsUntouched'
  BY <1>1 DEF FireInv, CollectingIsUntouched, roundVars
<1>4. OneFiring' /\ WelcomeIsLast' /\ OneWelcome'
  BY <1>1 DEF FireInv, OneFiring, WelcomeIsLast, OneWelcome
<1>5. ChatIsFirings'
  BY <1>1, <1>2 DEF FireInv, ChatIsFirings, roundVars, Firing
<1>6. RowKnowsChatLate'
  BY DEF FireInv, RowKnowsChatLate, roundVars
<1> QED
  BY <1>3, <1>4, <1>5, <1>6 DEF FireInv

LEMMA ClearedFires ==
  ASSUME FireInv, UNCHANGED roundVars, Sent' = Sent, NEW w \in Workers, Cleared(w)
  PROVE  FireInv'
<1>1. task'[w].phase = "idle" /\ task'[w].kind = "fire" /\ task'[w].chat = None
  BY IdleIsTask DEF Cleared
<1>2. \A v \in Workers \ {w} : task'[v] = task[v]
  BY DEF Cleared
<1>3. \A v \in Workers : task[v].phase = "idle" => task[v].chat = None
  BY DEF FireInv, ChatIsFirings, Firing
<1> QED
  BY <1>1, <1>2, <1>3, FiringsStay

LEMMA InitialFirings ==
  ASSUME Init
  PROVE  FireInv
<1>1. /\ Sent = {} /\ chatChannelId = None
      /\ \A w \in Workers : task[w] = Idle
  BY DEF Init, TailInit, Sent
<1>2. \A w \in Workers : ~Firing(w) /\ task[w].kind = "fire" /\ task[w].chat = None
  BY <1>1, IdleIsTask DEF Firing
<1>3. CollectingIsUntouched /\ OneFiring /\ RowKnowsChatLate /\ WelcomeIsLast /\ OneWelcome
  BY <1>1, <1>2 DEF CollectingIsUntouched, OneFiring, RowKnowsChatLate, WelcomeIsLast, OneWelcome
<1>4. ChatIsFirings
  BY <1>1, <1>2 DEF ChatIsFirings
<1> QED
  BY <1>3, <1>4 DEF FireInv

LEMMA RecordSignupFires ==
  ASSUME TypeInv, FireInv, RecordSignup
  PROVE  FireInv'
<1>1. /\ task'[Press].phase = "chat" /\ task'[Press].kind = "fire" /\ task'[Press].chat = None
      /\ \A v \in Workers \ {Press} : task'[v] = task[v]
  BY PressClaims
<1>2. /\ status = "COLLECTING" /\ status' = "THRESHOLD_REACHED"
      /\ chatChannelId' = chatChannelId /\ Sent' = Sent
  BY DEF RecordSignup, Sent, mailVars
<1>3. /\ Sent = {} /\ chatChannelId = None
      /\ \A w \in Workers : ~Firing(w) /\ task[w].kind = "fire"
  BY <1>2 DEF FireInv, CollectingIsUntouched
<1>4. Press \in Workers /\ Firing(Press)' /\ \A v \in Workers \ {Press} : ~Firing(v)'
  BY <1>1, <1>3, WorkerFacts DEF Firing
<1>5. CollectingIsUntouched' /\ RowKnowsChatLate'
  BY <1>2, <1>3 DEF CollectingIsUntouched, RowKnowsChatLate
<1>6. OneFiring' /\ WelcomeIsLast' /\ OneWelcome'
  BY <1>2, <1>3, <1>4 DEF OneFiring, WelcomeIsLast, OneWelcome
<1>7. ChatIsFirings'
  BY <1>1, <1>2, <1>3, <1>4 DEF ChatIsFirings, FireInv
<1> QED
  BY <1>5, <1>6, <1>7 DEF FireInv

LEMMA RunScheduledJobFires ==
  ASSUME TypeInv, FireInv, NEW t \in Ticks, RunScheduledJob(t)
  PROVE  FireInv'
<1>1. /\ task'[t].phase = "held" /\ task'[t].kind = (IF Stuck THEN "retry" ELSE "fire")
      /\ task'[t].chat = chatChannelId
      /\ \A v \in Workers \ {t} : task'[v] = task[v]
  BY SweepReadsRound
<1>2. /\ t \in Workers /\ task[t].phase = "idle" /\ (status = "COLLECTING" \/ Stuck)
      /\ status' = status /\ chatChannelId' = chatChannelId /\ Sent' = Sent
  BY WorkerFacts DEF RunScheduledJob, Sent, mailVars, roundVars, Busy
<1>3. chatChannelId = None
  BY <1>2 DEF FireInv, CollectingIsUntouched, RowKnowsChatLate, Stuck
<1>4. \A v \in Workers : Firing(v)' <=> Firing(v) /\ v # t
  BY <1>1, <1>2 DEF Firing
<1>5. CollectingIsUntouched'
  BY <1>1, <1>2, <1>4 DEF FireInv, CollectingIsUntouched, Stuck
<1>6. OneFiring' /\ WelcomeIsLast' /\ OneWelcome' /\ RowKnowsChatLate'
  BY <1>2, <1>4 DEF FireInv, OneFiring, WelcomeIsLast, OneWelcome, RowKnowsChatLate
<1>7. ChatIsFirings'
  BY <1>1, <1>2, <1>3, <1>4 DEF FireInv, ChatIsFirings
<1> QED
  BY <1>5, <1>6, <1>7 DEF FireInv

LEMMA SweepReachesFires ==
  ASSUME TypeInv, FireInv, NEW t \in Ticks, SweepReaches(t)
  PROVE  FireInv'
<1>1. /\ t \in Workers /\ task[t].phase = "held" /\ Sent' = Sent
      /\ chatChannelId' = chatChannelId /\ shareId' = shareId
  BY WorkerFacts DEF SweepReaches, Sent, mailVars
<1>2. ~Firing(t) /\ task[t].chat = None
  BY <1>1 DEF Firing, FireInv, ChatIsFirings
<1>3. CASE /\ task[t].kind = "retry" /\ status' = status
           /\ Moved(t, "draft", task[t].chat, task[t].draft)
  <2>1. \A v \in Workers : Firing(v)' <=> Firing(v)
    BY <1>1, <1>2, <1>3 DEF Firing, Moved
  <2>2. CollectingIsUntouched'
    BY <1>1, <1>3, <2>1 DEF FireInv, CollectingIsUntouched, Moved
  <2>3. OneFiring' /\ WelcomeIsLast' /\ OneWelcome' /\ RowKnowsChatLate'
    BY <1>1, <1>3, <2>1 DEF FireInv, OneFiring, WelcomeIsLast, OneWelcome, RowKnowsChatLate
  <2>4. ChatIsFirings'
    BY <1>1, <1>2, <1>3, <2>1 DEF FireInv, ChatIsFirings, Moved
  <2> QED
    BY <2>2, <2>3, <2>4 DEF FireInv
<1>4. CASE /\ task[t].kind = "fire" /\ status = "COLLECTING" /\ status' = "THRESHOLD_REACHED"
           /\ Moved(t, "chat", task[t].chat, task[t].draft)
  <2>1. /\ Sent = {} /\ chatChannelId = None
        /\ \A w \in Workers : ~Firing(w) /\ task[w].kind = "fire"
    BY <1>4 DEF FireInv, CollectingIsUntouched
  <2>2. Firing(t)' /\ \A v \in Workers \ {t} : ~Firing(v)'
    BY <1>4, <2>1 DEF Firing, Moved
  <2>3. CollectingIsUntouched' /\ RowKnowsChatLate'
    BY <1>1, <1>4, <2>1 DEF CollectingIsUntouched, RowKnowsChatLate
  <2>4. OneFiring' /\ WelcomeIsLast' /\ OneWelcome'
    BY <1>1, <2>1, <2>2 DEF OneFiring, WelcomeIsLast, OneWelcome
  <2>5. ChatIsFirings'
    BY <1>1, <1>2, <1>4, <2>1, <2>2 DEF FireInv, ChatIsFirings, Moved
  <2> QED
    BY <2>3, <2>4, <2>5 DEF FireInv
<1>5. CASE Cleared(t) /\ status' = status
  BY <1>1, <1>5, ClearedFires DEF roundVars
<1> QED
  BY <1>3, <1>4, <1>5, SweepTurns

\* CANCELLED and CONCLUDED leave the attempts alone.
LEMMA EndingFires ==
  ASSUME FireInv, CancelPod \/ ConcludePod
  PROVE  FireInv'
<1>1. /\ task' = task /\ chatChannelId' = chatChannelId /\ Sent' = Sent
  BY DEF CancelPod, ConcludePod, Sent, mailVars
<1>2. \A v \in Workers : Firing(v)' <=> Firing(v)
  BY <1>1 DEF Firing
<1>3. CollectingIsUntouched'
  BY DEF CancelPod, ConcludePod, CollectingIsUntouched
<1>4. RowKnowsChatLate'
  BY <1>1 DEF FireInv, RowKnowsChatLate, CancelPod, ConcludePod
<1>5. OneFiring' /\ WelcomeIsLast' /\ OneWelcome' /\ ChatIsFirings'
  BY <1>1, <1>2 DEF FireInv, OneFiring, WelcomeIsLast, OneWelcome, ChatIsFirings
<1> QED
  BY <1>3, <1>4, <1>5 DEF FireInv

\* An attempt that made, or was given, its chat goes on.
LEMMA ChatMoves ==
  ASSUME TypeInv, FireInv, UNCHANGED roundVars, Sent' = Sent, NEW w \in Workers,
         NEW p \in {"chatMade", "draft"}, NEW c, NEW d,
         task[w].phase \in {"chat", "chatMade"}, Moved(w, p, c, d)
  PROVE  FireInv'
<1>1. task[w].kind = "fire" /\ Firing(w) /\ chatChannelId = None
  BY DEF FireInv, ChatIsFirings, Firing
<1>2. \A v \in Workers : Firing(v)' <=> Firing(v)
  BY <1>1 DEF Firing, Moved
<1>3. CollectingIsUntouched' /\ RowKnowsChatLate'
  BY <1>1 DEF FireInv, CollectingIsUntouched, RowKnowsChatLate, roundVars
<1>4. OneFiring' /\ WelcomeIsLast' /\ OneWelcome'
  BY <1>2 DEF FireInv, OneFiring, WelcomeIsLast, OneWelcome
<1>5. ChatIsFirings'
  BY <1>1, <1>2 DEF FireInv, ChatIsFirings, Moved, roundVars
<1> QED
  BY <1>3, <1>4, <1>5 DEF FireInv

LEMMA ChatAnsweredFires ==
  ASSUME TypeInv, FireInv, NEW w \in Workers, ChatAnswered(w)
  PROVE  FireInv'
<1>1. UNCHANGED roundVars /\ Sent' = Sent
  BY DEF ChatAnswered, Sent, mailVars
<1>2. ASSUME NEW c, Moved(w, "draft", c, task[w].draft), task[w].phase \in {"chat", "chatMade"}
      PROVE  FireInv'
  BY <1>1, <1>2, ChatMoves
<1>3. CASE Cleared(w)
  BY <1>1, <1>3, ClearedFires
<1> QED
  BY <1>2, <1>3, ChatTurns

LEMMA ChannelFires ==
  ASSUME TypeInv, FireInv, NEW w \in Workers, DiscordCreatesChannel(w)
  PROVE  FireInv'
<1>1. UNCHANGED roundVars /\ Sent' = Sent /\ task[w].phase = "chat"
  BY DEF DiscordCreatesChannel, Sent, mailVars
<1>2. Moved(w, "chatMade", task[w].chat, task[w].draft)
  BY PhaseMoves, TypesUnfolded DEF DiscordCreatesChannel, Phases
<1> QED
  BY <1>1, <1>2, ChatMoves

\* Making a draft moves nothing but the draft.
LEMMA NiamosMoves ==
  ASSUME TypeInv, NEW w \in Workers, NiamosCreatesDraft(w)
  PROVE  \E d : Moved(w, task[w].phase, task[w].chat, d)
<1> DEFINE d == Len(madeWith) + 1
<1>1. madeWith \in Seq(1..MaxPastes)
  BY TypesUnfolded DEF TypeOK
<1>2. Len(madeWith) \in Nat
  BY <1>1, LenProperties
<1>3. d \in 0..MaxDrafts
  BY <1>2, TailAssumption DEF NiamosCreatesDraft
<1>4. task' = [task EXCEPT ![w].draft = d]
  BY DEF NiamosCreatesDraft
<1> HIDE DEF d
<1> QED
  BY <1>3, <1>4, DraftMoves, TypesUnfolded

LEMMA NiamosFires ==
  ASSUME TypeInv, FireInv, NEW w \in Workers, NiamosCreatesDraft(w)
  PROVE  FireInv'
<1>1. UNCHANGED roundVars /\ Sent' = Sent
  BY DEF NiamosCreatesDraft, Sent, mailVars
<1>2. PICK d : Moved(w, task[w].phase, task[w].chat, d)
  BY NiamosMoves
<1>3. /\ task'[w].phase = task[w].phase /\ task'[w].chat = task[w].chat
      /\ task'[w].kind = task[w].kind
      /\ \A v \in Workers \ {w} : task'[v] = task[v]
  BY <1>2 DEF Moved
<1>4. \A v \in Workers : task[v].phase = "idle" => task[v].chat = None
  BY DEF FireInv, ChatIsFirings, Firing
<1> QED
  BY <1>1, <1>3, <1>4, FiringsStay

\* Only the chat the attempt can name is in its mail.
LEMMA MailToChat ==
  ASSUME NEW w \in Workers, task[w] \in Task
  PROVE  /\ task[w].chat = None => \A m \in Mail(w) : m.to # Chat
         /\ \A m, n \in Mail(w) : m.to = n.to => m = n
         /\ \A m \in Mail(w) : m.draft = task[w].draft
<1>1. KnownChat(w) = {task[w].chat} \ {None} /\ Chat \notin Players /\ Chat # None
  BY TailAssumption DEF KnownChat
<1> QED
  BY <1>1 DEF Mail

\* w's mail goes out, and w is through.
LEMMA MailFires ==
  ASSUME TypeInv, FireInv, NEW w \in Workers, Cleared(w), status' # "COLLECTING",
         task[w].phase \in {"draft", "told"},
         Sent' = Sent \cup Mail(w),
         chatChannelId' # None => status' \in {"POD_CREATED", "CONCLUDED"},
         \/ chatChannelId' = chatChannelId
         \/ Firing(w)
  PROVE  FireInv'
<1>1. task'[w].phase = "idle" /\ task'[w].kind = "fire" /\ task'[w].chat = None
  BY IdleIsTask DEF Cleared
<1>2. \A v \in Workers \ {w} : task'[v] = task[v]
  BY DEF Cleared
<1>3. \A v \in Workers : Firing(v)' <=> Firing(v) /\ v # w
  BY <1>1, <1>2 DEF Firing
<1>4. CollectingIsUntouched' /\ RowKnowsChatLate'
  BY DEF CollectingIsUntouched, RowKnowsChatLate
<1>5. OneFiring'
  BY <1>3 DEF FireInv, OneFiring
<1>6. ChatIsFirings'
  BY <1>1, <1>2, <1>3 DEF FireInv, ChatIsFirings, OneFiring
<1>7. CASE Firing(w)
  <2>1. \A v \in Workers : ~Firing(v)'
    BY <1>3, <1>7 DEF FireInv, OneFiring
  <2>2. \A m \in Sent : m.to # Chat
    BY <1>7 DEF FireInv, WelcomeIsLast
  <2>3. OneWelcome'
    BY <2>2, MailToChat, TypesUnfolded DEF OneWelcome
  <2> QED
    BY <1>4, <1>5, <1>6, <2>1, <2>3 DEF FireInv, WelcomeIsLast
<1>8. CASE ~Firing(w)
  <2>1. \A m \in Mail(w) : m.to # Chat
    BY <1>8, MailToChat, TypesUnfolded DEF FireInv, ChatIsFirings
  <2>2. WelcomeIsLast' /\ OneWelcome'
    BY <1>3, <2>1 DEF FireInv, WelcomeIsLast, OneWelcome
  <2> QED
    BY <1>4, <1>5, <1>6, <2>2 DEF FireInv
<1> QED
  BY <1>7, <1>8

LEMMA DraftAnsweredFires ==
  ASSUME TypeInv, FireInv, NEW w \in Workers, DraftAnswered(w)
  PROVE  FireInv'
<1>1. task[w].phase = "draft" /\ settled' = settled
  BY DraftTurns DEF DraftAnswered
<1>2. ASSUME status' = "POD_CREATED",
             chatChannelId' = (IF task[w].chat = None THEN chatChannelId ELSE task[w].chat)
      PROVE  chatChannelId' = chatChannelId \/ Firing(w)
  BY <1>2 DEF FireInv, ChatIsFirings
<1>3. CASE /\ status' = "POD_CREATED" /\ Cleared(w) /\ sending' = sending \cup Mail(w)
           /\ chatChannelId' = (IF task[w].chat = None THEN chatChannelId ELSE task[w].chat)
  <2>1. Sent' = Sent \cup Mail(w)
    BY <1>1, <1>3 DEF Sent
  <2> QED
    BY <1>1, <1>2, <1>3, <2>1, MailFires
<1>4. CASE /\ status' = "POD_CREATED" /\ sending' = sending
           /\ Moved(w, "told", task[w].chat, task[w].draft)
           /\ chatChannelId' = (IF task[w].chat = None THEN chatChannelId ELSE task[w].chat)
  <2>1. Sent' = Sent
    BY <1>1, <1>4 DEF Sent
  <2>2. \A v \in Workers : Firing(v)' <=> Firing(v)
    BY <1>1, <1>4 DEF Firing, Moved
  <2>3. CollectingIsUntouched' /\ RowKnowsChatLate'
    BY <1>4 DEF CollectingIsUntouched, RowKnowsChatLate
  <2>4. OneFiring' /\ WelcomeIsLast' /\ OneWelcome'
    BY <2>1, <2>2 DEF FireInv, OneFiring, WelcomeIsLast, OneWelcome
  <2>5. ChatIsFirings'
    BY <1>1, <1>2, <1>4, <2>2 DEF FireInv, ChatIsFirings, OneFiring, Moved
  <2> QED
    BY <2>3, <2>4, <2>5 DEF FireInv
<1>5. CASE Cleared(w) /\ UNCHANGED <<roundVars, sending>>
  BY <1>1, <1>5, ClearedFires DEF Sent
<1> QED
  BY <1>3, <1>4, <1>5, DraftTurns

LEMMA SweepReportsFires ==
  ASSUME TypeInv, FireInv, NEW t \in Ticks, SweepReports(t)
  PROVE  FireInv'
<1>1. t \in Workers /\ Cleared(t) /\ task[t].phase = "told" /\ UNCHANGED roundVars
  BY WorkerFacts, Clears, TypesUnfolded DEF SweepReports
<1>2. Sent' = Sent \cup Mail(t)
  BY DEF SweepReports, Sent
<1>3. task[t].kind # "fire" => status # "COLLECTING"
  BY <1>1 DEF FireInv, CollectingIsUntouched
<1>4. task[t].kind = "fire" => Firing(t)
  BY <1>1 DEF Firing
<1>5. status' # "COLLECTING"
  BY <1>1, <1>3, <1>4 DEF FireInv, CollectingIsUntouched, roundVars
<1>6. chatChannelId' # None => status' \in {"POD_CREATED", "CONCLUDED"}
  BY <1>1 DEF FireInv, RowKnowsChatLate, roundVars
<1> QED
  BY <1>1, <1>2, <1>5, <1>6, MailFires DEF roundVars

\* What Discord made of a message, or an eviction: nothing more is sent.
LEMMA MailStays ==
  ASSUME (\E m \in sending : MailSettles(m)) \/ Evict
  PROVE  Sent' = Sent
  BY DEF MailSettles, Left, Evict, Sent

LEMMA OthersFire ==
  ASSUME TypeInv, FireInv,
         LinkNext \/ DeleteAnswered \/ Evict \/ UNCHANGED vars \/ \E m \in sending : MailSettles(m)
  PROVE  FireInv'
<1>1. UNCHANGED roundVars
  BY DEF LinkNext, DeleteAnswered, Evict, MailSettles, vars, tailVars
<1>2. Sent' = Sent
  BY MailStays DEF LinkNext, DeleteAnswered, vars, tailVars, mailVars, Sent
<1>3. \A v \in Workers : task[v].phase = "idle" => task[v].chat = None
  BY DEF FireInv, ChatIsFirings, Firing
<1>4. CASE Evict
  BY <1>1, <1>2, <1>4, IdleIsTask, FiringsStay DEF Evict
<1>5. CASE task' = task
  BY <1>1, <1>2, <1>3, <1>5, FiringsStay
<1> QED
  BY <1>4, <1>5 DEF LinkNext, DeleteAnswered, MailSettles, vars, tailVars

LEMMA FireStep ==
  ASSUME TypeInv, FireInv, [Next]_vars
  PROVE  FireInv'
<1>1. CASE \/ LinkNext \/ DeleteAnswered \/ Evict \/ UNCHANGED vars
           \/ \E m \in sending : MailSettles(m)
  BY <1>1, OthersFire
<1>2. CASE RecordSignup
  BY <1>2, RecordSignupFires
<1>3. CASE CancelPod \/ ConcludePod
  BY <1>3, EndingFires
<1>4. ASSUME NEW t \in Ticks, RunScheduledJob(t) \/ SweepReaches(t) \/ SweepReports(t)
      PROVE  FireInv'
  BY <1>4, RunScheduledJobFires, SweepReachesFires, SweepReportsFires
<1>5. ASSUME NEW w \in Workers,
             \/ DiscordCreatesChannel(w) \/ ChatAnswered(w)
             \/ NiamosCreatesDraft(w) \/ DraftAnswered(w)
      PROVE  FireInv'
  BY <1>5, ChannelFires, ChatAnsweredFires, NiamosFires, DraftAnsweredFires
<1> QED
  BY <1>1, <1>2, <1>3, <1>4, <1>5 DEF Next

\* One attempt at most is the claim's own, it alone can name the channel, and
\* the row learns of the channel from it alone (services/pods.ts:205-235).
THEOREM FiringsInvariant == Spec => [](TypeInv /\ FireInv)
<1>1. Init => TypeInv /\ FireInv
  BY InitialTypes, InitialFirings
<1>2. TypeInv /\ FireInv /\ [Next]_vars => (TypeInv /\ FireInv)'
  BY TypesStep, FireStep
<1> QED
  BY <1>1, <1>2, PTL DEF Spec

\* The chat is welcomed at most once, however many attempts and sweeps
\* overlap (jobs/retryFailedFires.ts:83-84).
THEOREM ChatWelcomedOnce == Spec => []OneWelcome
<1>1. FireInv => OneWelcome
  BY DEF FireInv
<1> QED
  BY <1>1, FiringsInvariant, PTL

-----------------------------------------------------------------------------
(* Somebody always remembers the open channel.                             *)

Excused == past \cap {"firing failed", "delete failed", "evicted"} # {}

\* w's attempt has a channel the row does not know of yet.
Holds(w) == Firing(w) /\ (task[w].phase = "chatMade" \/ task[w].chat # None)

ChannelInv ==
  /\ channel = "open" =>
       Excused \/ chatChannelId # None \/ \E w \in Workers : Holds(w)
  /\ channel = "open" /\ status = "CONCLUDED" /\ chatChannelId # None =>
       Excused \/ deletes > 0
  /\ \A w \in Workers :
       task[w].phase = "told" /\ task[w].chat # None => chatChannelId # None

\* A step that neither deletes the channel nor writes its id.
LEMMA ChannelKept ==
  ASSUME ChannelInv, chatChannelId' = chatChannelId, channel' = channel, deletes' = deletes,
         status' = status \/ status' # "CONCLUDED", past \subseteq past',
         \A w \in Workers :
           /\ Holds(w) => Holds(w)' \/ Excused' \/ chatChannelId # None
           /\ task'[w].phase = "told" /\ task'[w].chat # None =>
                task[w].phase = "told" /\ task[w].chat # None
  PROVE  ChannelInv'
<1>1. Excused => Excused'
  BY DEF Excused
<1> QED
  BY <1>1 DEF ChannelInv

LEMMA ChannelStep ==
  ASSUME TypeInv, FireInv, ChannelInv, [Next]_vars
  PROVE  ChannelInv'
<1>1. CASE LinkNext \/ UNCHANGED vars \/ CancelPod \/ \E m \in sending : MailSettles(m)
  <2>1. /\ UNCHANGED <<task, chatChannelId, channel, deletes, past>>
        /\ status' = status \/ status' # "CONCLUDED"
    BY <1>1 DEF LinkNext, CancelPod, MailSettles, vars, tailVars, roundVars
  <2>2. \A w \in Workers : Holds(w)' <=> Holds(w)
    BY <2>1 DEF Holds, Firing
  <2> QED
    BY <2>1, <2>2, ChannelKept
<1>2. CASE RecordSignup
  <2>1. /\ task'[Press].phase = "chat" /\ \A v \in Workers \ {Press} : task'[v] = task[v]
        /\ task'[Press].chat = None
    BY <1>2, PressClaims
  <2>2. \A w \in Workers : ~Holds(w)
    BY <1>2 DEF RecordSignup, FireInv, CollectingIsUntouched, Holds
  <2> QED
    BY <1>2, <2>1, <2>2, ChannelKept DEF RecordSignup
<1>3. ASSUME NEW t \in Ticks, RunScheduledJob(t)
      PROVE  ChannelInv'
  <2>1. /\ task[t].phase = "idle" /\ task'[t].phase = "held"
        /\ \A v \in Workers \ {t} : task'[v] = task[v]
    BY <1>3, SweepReadsRound DEF RunScheduledJob, Busy
  <2>2. \A w \in Workers : Holds(w) => Holds(w)'
    BY <2>1 DEF Holds, Firing
  <2>3. /\ chatChannelId' = chatChannelId /\ channel' = channel
        /\ deletes' = deletes /\ status' = status
    BY <1>3 DEF RunScheduledJob, roundVars
  <2>4. past \subseteq past'
    BY <1>3 DEF RunScheduledJob
  <2> QED
    BY <2>1, <2>2, <2>3, <2>4, ChannelKept
<1>4. ASSUME NEW t \in Ticks, SweepReaches(t)
      PROVE  ChannelInv'
  <2>1. t \in Workers /\ task[t].phase = "held" /\ past' = past
    BY <1>4, SweepTurns, WorkerFacts
  <2>2. /\ task'[t].phase \in {"draft", "chat", "idle"}
        /\ \A v \in Workers \ {t} : task'[v] = task[v]
    BY <1>4, SweepTurns, IdleIsTask DEF Moved, Cleared
  <2>3. \A w \in Workers : Holds(w) => Holds(w)'
    BY <2>1, <2>2 DEF Holds, Firing
  <2>4. /\ chatChannelId' = chatChannelId /\ channel' = channel /\ deletes' = deletes
        /\ status' = status \/ status' # "CONCLUDED"
    BY <1>4 DEF SweepReaches
  <2> QED
    BY <2>1, <2>2, <2>3, <2>4, ChannelKept
<1>5. ASSUME NEW t \in Ticks, SweepReports(t)
      PROVE  ChannelInv'
  <2>1. /\ t \in Workers /\ task[t].phase = "told" /\ Cleared(t)
        /\ UNCHANGED <<status, chatChannelId, channel, deletes, past>>
    BY <1>5, WorkerFacts, Clears, TypesUnfolded DEF SweepReports, roundVars
  <2>2. task'[t].phase = "idle" /\ \A v \in Workers \ {t} : task'[v] = task[v]
    BY <2>1, IdleIsTask DEF Cleared
  <2>3. Holds(t) => chatChannelId # None
    BY <2>1 DEF Holds, ChannelInv
  <2>4. \A w \in Workers \ {t} : Holds(w) => Holds(w)'
    BY <2>2 DEF Holds, Firing
  <2> QED
    BY <2>1, <2>2, <2>3, <2>4, ChannelKept
<1>6. CASE ConcludePod
  <2>1. /\ task' = task /\ chatChannelId' = chatChannelId /\ channel' = channel /\ past' = past
        /\ deletes' = deletes + (IF chatChannelId = None THEN 0 ELSE 1)
    BY <1>6 DEF ConcludePod
  <2>2. deletes \in Nat
    BY TypesUnfolded DEF TypeOK
  <2>3. chatChannelId # None => deletes' > 0
    BY <2>1, <2>2
  <2>4. (\A w \in Workers : Holds(w)' <=> Holds(w)) /\ (Excused' <=> Excused)
    BY <2>1 DEF Holds, Firing, Excused
  <2> QED
    BY <2>1, <2>3, <2>4 DEF ChannelInv
<1>7. CASE DeleteAnswered
  <2>1. /\ UNCHANGED <<task, status, chatChannelId>> /\ past \subseteq past'
        /\ channel' = "deleted" \/ (channel' = channel /\ past' = past \cup {"delete failed"})
    BY <1>7 DEF DeleteAnswered, roundVars
  <2>2. channel' = "deleted" \/ Excused'
    BY <2>1 DEF Excused
  <2> QED
    BY <2>1, <2>2 DEF ChannelInv
<1>8. ASSUME NEW w \in Workers, DiscordCreatesChannel(w)
      PROVE  ChannelInv'
  <2>1. /\ task[w].phase = "chat" /\ UNCHANGED <<status, chatChannelId>>
        /\ Moved(w, "chatMade", task[w].chat, task[w].draft)
    BY <1>8, PhaseMoves, TypesUnfolded DEF DiscordCreatesChannel, Phases, roundVars
  <2>2. task[w].kind = "fire" /\ chatChannelId = None
    BY <2>1 DEF FireInv, ChatIsFirings, Firing
  <2>3. Holds(w)'
    BY <2>1, <2>2 DEF Holds, Firing, Moved
  <2>4. \A v \in Workers : task'[v].phase = "told" => task'[v] = task[v]
    BY <2>1 DEF Moved
  <2> QED
    BY <2>1, <2>2, <2>3, <2>4 DEF ChannelInv
<1>9. ASSUME NEW w \in Workers, ChatAnswered(w)
      PROVE  ChannelInv'
  <2>1. /\ task[w].phase \in {"chat", "chatMade"} /\ task[w].kind = "fire"
        /\ UNCHANGED <<status, chatChannelId, channel, deletes>>
    BY <1>9, ChatTurns DEF ChatAnswered, roundVars, FireInv, ChatIsFirings
  <2>2. /\ past \subseteq past'
        /\ \/ "firing failed" \in past'
           \/ task'[w].phase = "draft" /\ task'[w].chat = Chat /\ task'[w].kind = "fire"
    BY <1>9, <2>1, ChatTurns DEF Moved
  <2>3. Holds(w)' \/ Excused'
    BY <2>2, TailAssumption DEF Holds, Firing, Excused
  <2>4. task'[w].phase # "told" /\ \A v \in Workers \ {w} : task'[v] = task[v]
    BY <1>9, ChatTurns, IdleIsTask DEF Moved, Cleared
  <2>5. \A v \in Workers \ {w} : Holds(v) => Holds(v)'
    BY <2>4 DEF Holds, Firing
  <2> QED
    BY <2>1, <2>2, <2>3, <2>4, <2>5, ChannelKept
<1>10. ASSUME NEW w \in Workers, NiamosCreatesDraft(w)
       PROVE  ChannelInv'
  <2>1. /\ task'[w].phase = task[w].phase /\ task'[w].chat = task[w].chat
        /\ task'[w].kind = task[w].kind
        /\ \A v \in Workers \ {w} : task'[v] = task[v]
    BY <1>10, NiamosMoves DEF Moved
  <2>2. \A v \in Workers : Holds(v) => Holds(v)'
    BY <2>1 DEF Holds, Firing
  <2>3. UNCHANGED <<status, chatChannelId, channel, deletes, past>>
    BY <1>10 DEF NiamosCreatesDraft, roundVars
  <2> QED
    BY <2>1, <2>2, <2>3, ChannelKept
<1>11. ASSUME NEW w \in Workers, DraftAnswered(w)
       PROVE  ChannelInv'
  <2>1. task[w].phase = "draft" /\ channel' = channel /\ deletes' = deletes
    BY <1>11, DraftTurns DEF DraftAnswered
  <2>2. /\ \A v \in Workers \ {w} : task'[v] = task[v]
        /\ task'[w].phase = "idle" \/ (task'[w].phase = "told" /\ task'[w].chat = task[w].chat)
    BY <1>11, DraftTurns, IdleIsTask DEF Cleared, Moved
  <2>3. \A v \in Workers \ {w} : Holds(v) => Holds(v)'
    BY <2>2 DEF Holds, Firing
  <2>4. CASE /\ status' = "POD_CREATED" /\ past' = past
             /\ chatChannelId' = (IF task[w].chat = None THEN chatChannelId ELSE task[w].chat)
    <3>1. Holds(w) => chatChannelId' # None
      BY <2>1, <2>4 DEF Holds
    <3>2. Excused' <=> Excused
      BY <2>4 DEF Excused
    <3>3. chatChannelId # None => chatChannelId' # None
      BY <2>4
    <3> QED
      BY <2>1, <2>2, <2>3, <2>4, <3>1, <3>2, <3>3 DEF ChannelInv
  <2>5. CASE /\ Cleared(w) /\ UNCHANGED roundVars
             /\ past' = past \cup {"firing failed"} \/ (past' = past /\ task[w].kind # "fire")
    <3>1. Holds(w) => Excused'
      BY <2>5 DEF Holds, Firing, Excused
    <3>2. task'[w].phase = "idle" /\ past \subseteq past'
      BY <2>5, IdleIsTask DEF Cleared
    <3> QED
      BY <2>1, <2>2, <2>3, <2>5, <3>1, <3>2, ChannelKept DEF roundVars
  <2> QED
    BY <1>11, <2>4, <2>5, DraftTurns
<1>12. CASE Evict
  <2>1. Excused' /\ \A w \in Workers : task'[w].phase = "idle"
    BY <1>12, IdleIsTask DEF Evict, Excused
  <2> QED
    BY <2>1 DEF ChannelInv
<1> QED
  BY <1>1, <1>2, <1>3, <1>4, <1>5, <1>6, <1>7, <1>8, <1>9, <1>10, <1>11, <1>12 DEF Next

\* What a concluded round leaves of its channel (services/pods.ts:518-607,
\* commands/concludePod.ts:55-61), whatever overlaps.
THEOREM ChatRemembered == Spec => []ChatsAreCleanedUp
<1>1. Init => TypeInv /\ FireInv /\ ChannelInv
  <2>1. ASSUME Init PROVE ChannelInv
    <3>1. channel = "none" /\ \A w \in Workers : task[w].phase = "idle"
      BY <2>1, IdleIsTask DEF Init, TailInit
    <3> QED
      BY <3>1 DEF ChannelInv
  <2> QED
    BY <2>1, InitialTypes, InitialFirings
<1>2. TypeInv /\ FireInv /\ ChannelInv /\ [Next]_vars => (TypeInv /\ FireInv /\ ChannelInv)'
  BY TypesStep, FireStep, ChannelStep
<1>3. TypeInv /\ FireInv /\ ChannelInv => ChatsAreCleanedUp
  <2> SUFFICES ASSUME ChannelInv, status = "CONCLUDED", Quiet, channel = "open"
               PROVE  Excused
    BY DEF ChatsAreCleanedUp, Excused
  <2>1. ~(deletes > 0) /\ \A w \in Workers : ~Holds(w)
    <3>1. deletes = 0 /\ \A w \in Workers : task[w].phase = "idle"
      BY DEF Quiet, Busy
    <3> QED
      BY <3>1 DEF Holds, Firing
  <2> QED
    BY <2>1 DEF ChannelInv
<1> QED
  BY <1>1, <1>2, <1>3, PTL DEF Spec

-----------------------------------------------------------------------------
(* Who is sent where.                                                      *)

\* Without an overlap there is one attempt at a time, and none once anything
\* was sent.
MeetInv ==
  "overlap" \notin past =>
    /\ \A v, w \in Workers : Attempting(v) /\ Attempting(w) => v = w
    /\ Sent # {} => /\ status \in {"POD_CREATED", "CONCLUDED"}
                    /\ \A w \in Workers : ~Attempting(w)
    /\ \A w \in Workers : task[w].phase = "told" => status \in {"POD_CREATED", "CONCLUDED"}
    /\ PlayersMeetInOneDraft

\* A step that starts no attempt and sends nothing.
LEMMA MeetingKept ==
  ASSUME MeetInv, past \subseteq past', Sent' = Sent,
         status \in {"POD_CREATED", "CONCLUDED"} => status' \in {"POD_CREATED", "CONCLUDED"},
         \A w \in Workers :
           /\ Attempting(w)' => Attempting(w)
           /\ task'[w].phase = "told" =>
                task[w].phase = "told" \/ status' \in {"POD_CREATED", "CONCLUDED"}
  PROVE  MeetInv'
<1> SUFFICES ASSUME "overlap" \notin past'
             PROVE  MeetInv'
  BY DEF MeetInv
<1>1. "overlap" \notin past
  OBVIOUS
<1>2. PlayersMeetInOneDraft'
  BY <1>1 DEF MeetInv, PlayersMeetInOneDraft
<1> QED
  BY <1>1, <1>2 DEF MeetInv

LEMMA AttemptingFacts ==
  ASSUME NEW w \in Workers
  PROVE  Attempting(w) <=>
           task[w].phase # "idle" /\ (task[w].kind = "retry" \/ task[w].phase # "held")
  BY DEF Attempting, Busy

\* While the round collects nobody attempts anything.
LEMMA CollectingIsCalm ==
  ASSUME TypeInv, FireInv, status = "COLLECTING"
  PROVE  Sent = {} /\ \A w \in Workers : ~Attempting(w) /\ task[w].phase # "told"
<1>1. /\ Sent = {}
      /\ \A w \in Workers : ~Firing(w) /\ task[w].kind = "fire"
  BY DEF FireInv, CollectingIsUntouched
<1>2. \A w \in Workers : task[w].phase \in {"idle", "held"}
  BY <1>1, TypesUnfolded, TaskFields DEF Firing, Phases
<1> QED
  BY <1>1, <1>2, AttemptingFacts

LEMMA MeetStep ==
  ASSUME TypeInv, FireInv, MeetInv, [Next]_vars
  PROVE  MeetInv'
<1>1. CASE \/ LinkNext \/ UNCHANGED vars \/ ConcludePod \/ DeleteAnswered
           \/ \E m \in sending : MailSettles(m)
  <2>1. task' = task /\ past \subseteq past'
    BY <1>1 DEF LinkNext, ConcludePod, DeleteAnswered, MailSettles, vars, tailVars
  <2>2. Sent' = Sent
    BY <1>1, MailStays DEF LinkNext, ConcludePod, DeleteAnswered, vars, tailVars, mailVars, Sent
  <2>3. status' = status \/ status' = "CONCLUDED"
    BY <1>1 DEF LinkNext, ConcludePod, DeleteAnswered, MailSettles, vars, tailVars, roundVars
  <2>4. \A w \in Workers : Attempting(w)' <=> Attempting(w)
    BY <2>1 DEF Attempting, Busy
  <2> QED
    BY <2>1, <2>2, <2>3, <2>4, MeetingKept
<1>2. CASE CancelPod
  <2>1. task' = task /\ past' = past /\ status \notin {"POD_CREATED", "CONCLUDED"} /\ Sent' = Sent
    BY <1>2 DEF CancelPod, Sent, mailVars
  <2>2. \A w \in Workers : Attempting(w)' <=> Attempting(w)
    BY <2>1 DEF Attempting, Busy
  <2> QED
    BY <2>1, <2>2, MeetingKept
<1>3. CASE RecordSignup
  <2>1. /\ task'[Press].phase = "chat"
        /\ \A v \in Workers \ {Press} : task'[v] = task[v]
    BY <1>3, PressClaims
  <2>2. Sent = {} /\ \A w \in Workers : ~Attempting(w) /\ task[w].phase # "told"
    BY <1>3, CollectingIsCalm DEF RecordSignup
  <2>3. Sent' = {}
    BY <1>3, <2>2 DEF RecordSignup, Sent, mailVars
  <2>4. \A v \in Workers \ {Press} : ~Attempting(v)' /\ task'[v].phase # "told"
    BY <2>1, <2>2 DEF Attempting, Busy
  <2> QED
    BY <2>1, <2>3, <2>4 DEF MeetInv, PlayersMeetInOneDraft
<1>4. ASSUME NEW t \in Ticks, RunScheduledJob(t)
      PROVE  MeetInv'
  <2>1. /\ t \in Workers /\ task[t].phase = "idle"
        /\ task'[t].phase = "held" /\ task'[t].kind = (IF Stuck THEN "retry" ELSE "fire")
        /\ \A v \in Workers \ {t} : task'[v] = task[v]
    BY <1>4, SweepReadsRound, WorkerFacts DEF RunScheduledJob, Busy
  <2>2. /\ status' = status /\ Sent' = Sent
        /\ past' = past \cup (IF Stuck /\ \E w \in Workers : Attempting(w)
                             THEN {"overlap"} ELSE {})
    BY <1>4 DEF RunScheduledJob, Sent, mailVars, roundVars
  <2>3. \A v \in Workers \ {t} : Attempting(v)' <=> Attempting(v)
    BY <2>1 DEF Attempting, Busy
  <2>4. CASE Stuck
    <3> SUFFICES ASSUME "overlap" \notin past'
                 PROVE  MeetInv'
      BY DEF MeetInv
    <3>1. "overlap" \notin past /\ \A v \in Workers \ {t} : ~Attempting(v)'
      BY <2>2, <2>3, <2>4
    <3>2. Sent = {} /\ \A v \in Workers : task[v].phase # "told"
      BY <2>4, <3>1 DEF MeetInv, Stuck
    <3> QED
      BY <2>1, <2>2, <3>1, <3>2 DEF MeetInv, PlayersMeetInOneDraft
  <2>5. CASE ~Stuck
    <3>1. \A v \in Workers : Attempting(v)' => Attempting(v)
      BY <2>1, <2>3, <2>5 DEF Attempting
    <3>2. past \subseteq past'
      BY <2>2
    <3> QED
      BY <2>1, <2>2, <3>1, <3>2, MeetingKept
  <2> QED
    BY <2>4, <2>5
<1>5. ASSUME NEW t \in Ticks, SweepReaches(t)
      PROVE  MeetInv'
  <2>1. t \in Workers /\ task[t].phase = "held" /\ past' = past /\ Sent' = Sent
    BY <1>5, SweepTurns, WorkerFacts DEF SweepReaches, Sent, mailVars
  <2>2. CASE /\ status' = status
             /\ \/ task[t].kind = "retry" /\ Moved(t, "draft", task[t].chat, task[t].draft)
                \/ Cleared(t)
    <3>1. /\ task'[t].phase = "idle" \/ (Attempting(t) /\ task'[t].phase = "draft")
          /\ \A v \in Workers \ {t} : task'[v] = task[v]
      BY <2>1, <2>2, IdleIsTask DEF Moved, Cleared, Attempting, Busy
    <3>2. \A v \in Workers : Attempting(v)' => Attempting(v)
      BY <3>1 DEF Attempting, Busy
    <3> QED
      BY <2>1, <2>2, <3>1, <3>2, MeetingKept
  <2>3. CASE /\ status = "COLLECTING" /\ Moved(t, "chat", task[t].chat, task[t].draft)
    <3>1. Sent = {} /\ \A w \in Workers : ~Attempting(w) /\ task[w].phase # "told"
      BY <2>3, CollectingIsCalm
    <3>2. \A v \in Workers : task'[v].phase # "told" /\ (v # t => ~Attempting(v)')
      BY <2>3, <3>1 DEF Moved, Attempting, Busy
    <3> QED
      BY <2>1, <3>1, <3>2 DEF MeetInv, PlayersMeetInOneDraft
  <2> QED
    BY <1>5, <2>2, <2>3, SweepTurns
<1>6. ASSUME NEW t \in Ticks, SweepReports(t)
      PROVE  MeetInv'
  <2>1. /\ t \in Workers /\ task[t].phase = "told" /\ Cleared(t)
        /\ UNCHANGED <<status, past>> /\ Sent' = Sent \cup Mail(t)
    BY <1>6, WorkerFacts, Clears, TypesUnfolded DEF SweepReports, roundVars, Sent
  <2> SUFFICES ASSUME "overlap" \notin past
               PROVE  MeetInv'
    BY <2>1 DEF MeetInv
  <2>2. Attempting(t)
    BY <2>1 DEF Attempting, Busy
  <2>3. /\ Sent = {} /\ status \in {"POD_CREATED", "CONCLUDED"}
        /\ \A v \in Workers \ {t} : ~Attempting(v)
    BY <2>1, <2>2 DEF MeetInv
  <2>4. \A v \in Workers : ~Attempting(v)'
    BY <2>1, <2>3, IdleIsTask DEF Cleared, Attempting, Busy
  <2>5. PlayersMeetInOneDraft'
    BY <2>1, <2>3, MailToChat, TypesUnfolded DEF PlayersMeetInOneDraft
  <2> QED
    BY <2>1, <2>3, <2>4, <2>5 DEF MeetInv
<1>7. ASSUME NEW w \in Workers, DiscordCreatesChannel(w) \/ ChatAnswered(w)
      PROVE  MeetInv'
  <2>1. /\ task[w].phase \in {"chat", "chatMade"} /\ status' = status
        /\ Sent' = Sent /\ past \subseteq past'
    BY <1>7, ChatTurns DEF DiscordCreatesChannel, ChatAnswered, roundVars, mailVars, Sent
  <2>2. /\ task'[w].phase # "told"
        /\ \A v \in Workers \ {w} : task'[v] = task[v]
    BY <1>7, ChatTurns, PhaseMoves, TypesUnfolded, IdleIsTask
    DEF DiscordCreatesChannel, Phases, Moved, Cleared
  <2>3. Attempting(w)
    BY <2>1 DEF Attempting, Busy
  <2>4. \A v \in Workers : Attempting(v)' => Attempting(v)
    BY <2>2, <2>3 DEF Attempting, Busy
  <2> QED
    BY <2>1, <2>2, <2>4, MeetingKept
<1>8. ASSUME NEW w \in Workers, NiamosCreatesDraft(w)
      PROVE  MeetInv'
  <2>1. /\ task'[w].phase = task[w].phase /\ task'[w].kind = task[w].kind
        /\ \A v \in Workers \ {w} : task'[v] = task[v]
    BY <1>8, NiamosMoves DEF Moved
  <2>2. \A v \in Workers : Attempting(v)' => Attempting(v)
    BY <2>1 DEF Attempting, Busy
  <2>3. status' = status /\ past' = past /\ Sent' = Sent
    BY <1>8 DEF NiamosCreatesDraft, roundVars, mailVars, Sent
  <2> QED
    BY <2>1, <2>2, <2>3, MeetingKept
<1>9. ASSUME NEW w \in Workers, DraftAnswered(w)
      PROVE  MeetInv'
  <2>1. task[w].phase = "draft" /\ settled' = settled /\ Attempting(w)
    BY <1>9, DraftTurns DEF DraftAnswered, Attempting, Busy
  <2>2. CASE /\ status' = "POD_CREATED" /\ past' = past
             /\ Cleared(w) /\ sending' = sending \cup Mail(w)
    <3> SUFFICES ASSUME "overlap" \notin past
                 PROVE  MeetInv'
      BY <2>2 DEF MeetInv
    <3>1. Sent' = Sent \cup Mail(w) /\ Sent = {} /\ \A v \in Workers \ {w} : ~Attempting(v)
      BY <2>1, <2>2 DEF Sent, MeetInv
    <3>2. \A v \in Workers : ~Attempting(v)'
      BY <2>2, <3>1, IdleIsTask DEF Cleared, Attempting, Busy
    <3>3. PlayersMeetInOneDraft'
      BY <3>1, MailToChat, TypesUnfolded DEF PlayersMeetInOneDraft
    <3> QED
      BY <2>2, <3>2, <3>3 DEF MeetInv
  <2>3. CASE /\ status' = "POD_CREATED" /\ past' = past /\ sending' = sending
             /\ Moved(w, "told", task[w].chat, task[w].draft)
    <3>1. \A v \in Workers : Attempting(v)' => Attempting(v)
      BY <2>1, <2>3 DEF Moved, Attempting, Busy
    <3>2. Sent' = Sent
      BY <2>1, <2>3 DEF Sent
    <3> QED
      BY <2>3, <3>1, <3>2, MeetingKept
  <2>4. CASE Cleared(w) /\ UNCHANGED <<roundVars, sending>> /\ past \subseteq past'
    <3>1. /\ task'[w].phase = "idle" /\ \A v \in Workers \ {w} : task'[v] = task[v]
          /\ status' = status
      BY <2>4, IdleIsTask DEF Cleared, roundVars
    <3>2. \A v \in Workers : Attempting(v)' => Attempting(v)
      BY <3>1 DEF Attempting, Busy
    <3>3. Sent' = Sent
      BY <2>1, <2>4 DEF Sent
    <3> QED
      BY <2>4, <3>1, <3>2, <3>3, MeetingKept
  <2> QED
    BY <1>9, <2>2, <2>3, <2>4, DraftTurns
<1>10. CASE Evict
  <2>1. /\ past \subseteq past' /\ status' = status /\ Sent' = Sent
        /\ \A w \in Workers : task'[w].phase = "idle"
    BY <1>10, MailStays, IdleIsTask DEF Evict, roundVars
  <2>2. \A w \in Workers : ~Attempting(w)'
    BY <2>1 DEF Attempting, Busy
  <2> QED
    BY <2>1, <2>2, MeetingKept
<1> QED
  BY <1>1, <1>2, <1>3, <1>4, <1>5, <1>6, <1>7, <1>8, <1>9, <1>10 DEF Next

\* Failures, retries, cancellations and evictions never split the players:
\* only two attempts at once can (services/pods.ts:224, 812-828).
THEOREM OneDraftForAll == Spec => []PlayersMeetInOneDraft
<1>1. Init => TypeInv /\ FireInv /\ MeetInv
  <2>1. ASSUME Init PROVE MeetInv
    <3>1. Sent = {} /\ \A w \in Workers : task[w].phase = "idle"
      BY <2>1, IdleIsTask DEF Init, TailInit, Sent
    <3> QED
      BY <3>1 DEF MeetInv, Attempting, Busy, PlayersMeetInOneDraft
  <2> QED
    BY <2>1, InitialTypes, InitialFirings
<1>2. TypeInv /\ FireInv /\ MeetInv /\ [Next]_vars => (TypeInv /\ FireInv /\ MeetInv)'
  BY TypesStep, FireStep, MeetStep
<1>3. MeetInv => PlayersMeetInOneDraft
  BY DEF MeetInv, PlayersMeetInOneDraft
<1> QED
  BY <1>1, <1>2, <1>3, PTL DEF Spec

\* A draft's players have been told, or a sweep is about to tell them.
Reached == \A p \in Players : \E m \in Sent : m.to = p
ToldInv ==
  "evicted" \notin past /\ shareId # 0 =>
    Reached \/ \E w \in Workers : task[w].phase = "told"

LEMMA MailToPlayers ==
  ASSUME NEW w \in Workers, NEW p \in Players
  PROVE  \E m \in Mail(w) : m.to = p
<1>1. [to |-> p, draft |-> task[w].draft] \in Mail(w)
  BY DEF Mail
<1> QED
  BY <1>1

LEMMA MailReaches ==
  ASSUME NEW w \in Workers, Mail(w) \subseteq Sent'
  PROVE  Reached'
  BY MailToPlayers DEF Reached

\* A step that neither writes the draft nor ends a sweep that has one.
LEMMA TellingKept ==
  ASSUME ToldInv, shareId' = shareId, past \subseteq past', Sent \subseteq Sent',
         \A w \in Workers : task[w].phase = "told" => task'[w].phase = "told"
  PROVE  ToldInv'
<1>1. Reached => Reached'
  BY DEF Reached
<1> QED
  BY <1>1 DEF ToldInv

LEMMA ToldStep ==
  ASSUME TypeInv, ToldInv, [Next]_vars
  PROVE  ToldInv'
<1>1. CASE \/ LinkNext \/ UNCHANGED vars \/ CancelPod \/ ConcludePod \/ DeleteAnswered
           \/ \E m \in sending : MailSettles(m)
  <2>1. task' = task /\ past \subseteq past' /\ shareId' = shareId
    BY <1>1
       DEF LinkNext, CancelPod, ConcludePod, DeleteAnswered, MailSettles, vars, tailVars,
           roundVars
  <2>2. Sent' = Sent
    BY <1>1, MailStays
       DEF LinkNext, CancelPod, ConcludePod, DeleteAnswered, vars, tailVars, mailVars, Sent
  <2> QED
    BY <2>1, <2>2, TellingKept
<1>2. CASE RecordSignup
  <2>1. task[Press].phase = "idle" /\ \A v \in Workers \ {Press} : task'[v] = task[v]
    BY <1>2, PressClaims DEF RecordSignup, Busy
  <2>2. shareId' = shareId /\ past' = past /\ Sent' = Sent
    BY <1>2 DEF RecordSignup, mailVars, Sent
  <2> QED
    BY <2>1, <2>2, TellingKept
<1>3. ASSUME NEW t \in Ticks, RunScheduledJob(t) \/ SweepReaches(t)
      PROVE  ToldInv'
  <2>1. /\ task[t].phase # "told" /\ \A v \in Workers \ {t} : task'[v] = task[v]
    BY <1>3, SweepReadsRound, SweepTurns DEF RunScheduledJob, Busy, Moved, Cleared
  <2>2. shareId' = shareId /\ Sent' = Sent
    BY <1>3 DEF RunScheduledJob, SweepReaches, mailVars, roundVars, Sent
  <2>3. past \subseteq past'
    BY <1>3, SweepTurns DEF RunScheduledJob
  <2> QED
    BY <2>1, <2>2, <2>3, TellingKept
<1>4. ASSUME NEW t \in Ticks, SweepReports(t)
      PROVE  ToldInv'
  <2>1. t \in Workers /\ Mail(t) \subseteq Sent'
    BY <1>4, WorkerFacts DEF SweepReports, Sent
  <2> QED
    BY <2>1, MailReaches DEF ToldInv
<1>5. ASSUME NEW w \in Workers, DiscordCreatesChannel(w) \/ ChatAnswered(w)
      PROVE  ToldInv'
  <2>1. /\ task[w].phase # "told" /\ \A v \in Workers \ {w} : task'[v] = task[v]
        /\ past \subseteq past'
    BY <1>5, ChatTurns, PhaseMoves, TypesUnfolded DEF DiscordCreatesChannel, Phases, Moved, Cleared
  <2>2. shareId' = shareId /\ Sent' = Sent
    BY <1>5 DEF DiscordCreatesChannel, ChatAnswered, mailVars, roundVars, Sent
  <2> QED
    BY <2>1, <2>2, TellingKept
<1>6. ASSUME NEW w \in Workers, NiamosCreatesDraft(w)
      PROVE  ToldInv'
  <2>1. task'[w].phase = task[w].phase /\ \A v \in Workers \ {w} : task'[v] = task[v]
    BY <1>6, NiamosMoves DEF Moved
  <2>2. shareId' = shareId /\ past' = past /\ Sent' = Sent
    BY <1>6 DEF NiamosCreatesDraft, mailVars, roundVars, Sent
  <2> QED
    BY <2>1, <2>2, TellingKept
<1>7. ASSUME NEW w \in Workers, DraftAnswered(w)
      PROVE  ToldInv'
  <2>1. task[w].phase = "draft" /\ settled' = settled
    BY <1>7, DraftTurns DEF DraftAnswered
  <2>2. CASE sending' = sending \cup Mail(w)
    <3>1. Mail(w) \subseteq Sent'
      BY <2>2 DEF Sent
    <3> QED
      BY <3>1, MailReaches DEF ToldInv
  <2>3. CASE Moved(w, "told", task[w].chat, task[w].draft)
    BY <2>3 DEF Moved, ToldInv
  <2>4. CASE Cleared(w) /\ UNCHANGED <<roundVars, sending>> /\ past \subseteq past'
    <3>1. shareId' = shareId /\ Sent' = Sent /\ \A v \in Workers \ {w} : task'[v] = task[v]
      BY <2>1, <2>4 DEF Cleared, roundVars, Sent
    <3> QED
      BY <2>1, <2>4, <3>1, TellingKept
  <2> QED
    BY <1>7, <2>2, <2>3, <2>4, DraftTurns
<1>8. CASE Evict
  BY <1>8 DEF Evict, ToldInv
<1> QED
  BY <1>1, <1>2, <1>3, <1>4, <1>5, <1>6, <1>7, <1>8 DEF Next

\* Nobody misses a draft because of somebody else's refusal, or because of
\* which attempt made it (discord/dmSignups.ts:10-11).
THEOREM PlayersAreTold == Spec => []EveryoneIsTold
<1>1. Init => TypeInv /\ ToldInv
  <2>1. ASSUME Init PROVE ToldInv
    BY <2>1 DEF Init, TailInit, ToldInv
  <2> QED
    BY <2>1, InitialTypes
<1>2. TypeInv /\ ToldInv /\ [Next]_vars => (TypeInv /\ ToldInv)'
  BY TypesStep, ToldStep
<1>3. TypeInv /\ ToldInv => EveryoneIsTold
  <2> SUFFICES ASSUME ToldInv, Quiet, shareId # 0, "evicted" \notin past
               PROVE  \A p \in Players : \E m \in settled : m.to = p
    BY DEF EveryoneIsTold
  <2>1. Sent = settled /\ \A w \in Workers : task[w].phase = "idle"
    BY DEF Quiet, Busy, Sent
  <2>2. Reached
    BY <2>1 DEF ToldInv
  <2> QED
    BY <2>1, <2>2 DEF Reached
<1> QED
  BY <1>1, <1>2, <1>3, PTL DEF Spec

--------------------------------------------------------------------------------
(* The work in hand for the round.                                         *)

Asking(w)   == task[w].kind = "fire" /\ task[w].phase \in {"chat", "chatMade", "draft"}
Retrying(w) == task[w].kind = "retry" /\ task[w].phase \in {"held", "draft"}

Fires  == \E w \in Workers : Asking(w)
Trying == {t \in Ticks : Retrying(t)}

WorkStep == [Work!Next]_(Work!vars)

\* A press only ever fires.
PressFires == task[Press].kind = "fire"

\* What one worker's step makes of the work in hand for the round.
LEMMA WorkOfWorker ==
  ASSUME FireInv, NEW w \in Workers, \A v \in Workers \ {w} : task'[v] = task[v]
  PROVE  /\ (Asking(w)' <=> Asking(w)) => (Fires' <=> Fires)
         /\ Asking(w) /\ ~Asking(w)' => Fires /\ ~Fires'
         /\ (Retrying(w)' <=> Retrying(w)) => Trying' = Trying
         /\ w \in Ticks /\ ~Retrying(w) /\ Retrying(w)' =>
              w \notin Trying /\ Trying' = Trying \cup {w}
         /\ w \in Ticks /\ Retrying(w) /\ ~Retrying(w)' =>
              w \in Trying /\ Trying' = Trying \ {w}
<1>1. \A v \in Workers \ {w} : Asking(v)' <=> Asking(v)
  BY DEF Asking
<1>2. \A t \in Ticks \ {w} : Retrying(t)' <=> Retrying(t)
  BY WorkerFacts DEF Retrying
<1>3. \A v \in Workers : Asking(v) => Firing(v)
  BY DEF Asking, Firing
<1>4. Asking(w) /\ ~Asking(w)' => Fires /\ ~Fires'
  BY <1>1, <1>3 DEF Fires, FireInv, OneFiring
<1>5. (Asking(w)' <=> Asking(w)) => (Fires' <=> Fires)
  BY <1>1 DEF Fires
<1>6. ASSUME Retrying(w)' <=> Retrying(w) PROVE Trying' = Trying
  BY <1>2, <1>6 DEF Trying
<1>7. ASSUME w \in Ticks, ~Retrying(w), Retrying(w)'
      PROVE  w \notin Trying /\ Trying' = Trying \cup {w}
  BY <1>2, <1>7 DEF Trying
<1>8. ASSUME w \in Ticks, Retrying(w), ~Retrying(w)'
      PROVE  w \in Trying /\ Trying' = Trying \ {w}
  BY <1>2, <1>8 DEF Trying
<1> QED
  BY <1>4, <1>5, <1>6, <1>7, <1>8

\* Steps of the round that no retry takes part in.
LEMMA RoundMoves ==
  ASSUME Trying' = Trying,
         \/ status' = status /\ (Fires' <=> Fires)
         \/ status = "COLLECTING" /\ status' = "THRESHOLD_REACHED"
         \/ /\ \/ status \in {"COLLECTING", "THRESHOLD_REACHED"} /\ status' = "CANCELLED"
               \/ status = "POD_CREATED" /\ status' = "CONCLUDED"
            /\ Fires' <=> Fires
         \/ Fires /\ ~Fires' /\ status' \in {status, "POD_CREATED"}
  PROVE  WorkStep
<1>1. CASE status' = status /\ (Fires' <=> Fires)
  <2>1. Fires' = Fires
    BY <1>1, Zenon DEF Fires
  <2>2. UNCHANGED Work!vars
    BY <1>1, <2>1, Zenon DEF Fires, Trying, Asking, Retrying, Work!vars
  <2> QED
    BY <2>2 DEF WorkStep
<1>2. CASE status = "COLLECTING" /\ status' = "THRESHOLD_REACHED"
  <2>1. Work!Claimed
    BY <1>2 DEF Trying, Retrying, Work!Claimed
  <2> QED
    BY <2>1 DEF WorkStep, Work!Next
<1>3. CASE /\ \/ status \in {"COLLECTING", "THRESHOLD_REACHED"} /\ status' = "CANCELLED"
              \/ status = "POD_CREATED" /\ status' = "CONCLUDED"
           /\ Fires' <=> Fires
  <2>1. Work!Ends
    BY <1>3 DEF Fires, Trying, Asking, Retrying, Work!Ends
  <2> QED
    BY <2>1 DEF WorkStep, Work!Next
<1>4. CASE Fires /\ ~Fires' /\ status' \in {status, "POD_CREATED"}
  <2>1. Work!FiringEnds
    BY <1>4 DEF Fires, Trying, Asking, Retrying, Work!FiringEnds, Work!Created
  <2> QED
    BY <2>1 DEF WorkStep, Work!Next
<1> QED
  BY <1>1, <1>2, <1>3, <1>4

\* A tick's sweep reads the round as a candidate, or is done with it.
LEMMA RetryMoves ==
  ASSUME NEW t \in Ticks, Fires' <=> Fires,
         \/ /\ Stuck /\ status' = status
            /\ t \notin Trying /\ Trying' = Trying \cup {t}
         \/ /\ t \in Trying /\ Trying' = Trying \ {t}
            /\ status' \in {status, "POD_CREATED"}
  PROVE  WorkStep
<1>1. CASE /\ Stuck /\ status' = status
           /\ t \notin Trying /\ Trying' = Trying \cup {t}
  <2>1. Work!RetryReads(t)
    BY <1>1 DEF Stuck, Fires, Trying, Asking, Retrying, Work!RetryReads, Work!Stuck
  <2> QED
    BY <2>1 DEF WorkStep, Work!Next
<1>2. CASE /\ t \in Trying /\ Trying' = Trying \ {t}
           /\ status' \in {status, "POD_CREATED"}
  <2>1. Work!RetryAnswered(t)
    BY <1>2 DEF Fires, Trying, Asking, Retrying, Work!RetryAnswered, Work!Created
  <2> QED
    BY <2>1 DEF WorkStep, Work!Next
<1> QED
  BY <1>1, <1>2

LEMMA PressStep ==
  ASSUME TypeInv, PressFires, [Next]_vars
  PROVE  PressFires'
<1>1. /\ Press \in Workers
      /\ \A w \in Workers : Cleared(w) => task'[w].kind = "fire"
      /\ \A t \in Ticks : t \in Workers /\ t # Press
  BY WorkerFacts, IdleIsTask DEF Cleared
<1>2. ASSUME NEW w \in Workers, \A v \in Workers \ {w} : task'[v] = task[v],
             task'[w].kind \in {task[w].kind, "fire"} \/ w # Press
      PROVE  PressFires'
  BY <1>1, <1>2 DEF PressFires
<1>3. ASSUME NEW w \in Workers, NEW p, NEW c, NEW d, Moved(w, p, c, d) \/ Cleared(w)
      PROVE  PressFires'
  BY <1>1, <1>2, <1>3 DEF Moved, Cleared
<1>4. CASE RecordSignup
  BY <1>1, <1>2, <1>4, PressClaims
<1>5. ASSUME NEW t \in Ticks, RunScheduledJob(t) PROVE PressFires'
  BY <1>1, <1>2, <1>5, SweepReadsRound
<1>6. ASSUME NEW t \in Ticks, SweepReaches(t) PROVE PressFires'
  BY <1>1, <1>3, <1>6, SweepTurns
<1>7. ASSUME NEW t \in Ticks, SweepReports(t) PROVE PressFires'
  BY <1>1, <1>3, <1>7, Clears, TypesUnfolded DEF SweepReports
<1>8. ASSUME NEW w \in Workers, DiscordCreatesChannel(w) PROVE PressFires'
  BY <1>3, <1>8, PhaseMoves, TypesUnfolded DEF DiscordCreatesChannel, Phases
<1>9. ASSUME NEW w \in Workers, ChatAnswered(w) PROVE PressFires'
  BY <1>3, <1>9, ChatTurns
<1>10. ASSUME NEW w \in Workers, NiamosCreatesDraft(w) PROVE PressFires'
  BY <1>3, <1>10, NiamosMoves
<1>11. ASSUME NEW w \in Workers, DraftAnswered(w) PROVE PressFires'
  BY <1>3, <1>11, DraftTurns
<1>12. CASE Evict
  <2>1. task'[Press] = Idle
    BY <1>1, <1>12 DEF Evict
  <2> QED
    BY <2>1, IdleIsTask DEF PressFires
<1>13. ASSUME \/ LinkNext \/ CancelPod \/ ConcludePod \/ DeleteAnswered \/ UNCHANGED vars
              \/ \E m \in sending : MailSettles(m)
       PROVE  PressFires'
  BY <1>13 DEF PressFires, LinkNext, CancelPod, ConcludePod, DeleteAnswered, MailSettles,
               vars, tailVars
<1> QED
  BY <1>4, <1>5, <1>6, <1>7, <1>8, <1>9, <1>10, <1>11, <1>12, <1>13 DEF Next

LEMMA NextWork ==
  ASSUME TypeInv, FireInv, PressFires, [Next]_vars
  PROVE  WorkStep
<1>1. /\ Press \in Workers /\ Press \notin Ticks
      /\ \A t \in Ticks : t \in Workers /\ t # Press
      /\ \A w \in Workers : w \in Ticks \/ w = Press
  BY WorkerFacts, TailAssumption DEF Workers
<1>2. /\ ~Retrying(Press)
      /\ \A w \in Workers : task[w].phase \in {"chat", "chatMade"} => Asking(w)
  BY DEF PressFires, Retrying, FireInv, ChatIsFirings, Asking
<1>3. ASSUME NEW w \in Workers, Cleared(w)
      PROVE  ~Asking(w)' /\ ~Retrying(w)'
  BY <1>3, IdleIsTask DEF Cleared, Asking, Retrying
<1>4. ASSUME NEW w \in Workers, NEW p, NEW c, NEW d, Moved(w, p, c, d)
      PROVE  /\ Asking(w)' <=> task[w].kind = "fire" /\ p \in {"chat", "chatMade", "draft"}
             /\ Retrying(w)' <=> task[w].kind = "retry" /\ p \in {"held", "draft"}
             /\ \A v \in Workers \ {w} : task'[v] = task[v]
  BY <1>4 DEF Moved, Asking, Retrying
\* An attempt that goes on, and one that is over.
<1>5. ASSUME NEW w \in Workers, \A v \in Workers \ {w} : task'[v] = task[v],
             Asking(w)' <=> Asking(w), Retrying(w)' <=> Retrying(w), status' = status
      PROVE  WorkStep
  BY <1>5, WorkOfWorker, RoundMoves
<1>6. ASSUME NEW w \in Workers, \A v \in Workers \ {w} : task'[v] = task[v],
             ~Asking(w)', ~Retrying(w)', Asking(w) \/ Retrying(w) \/ status' = status,
             status' \in {status, "POD_CREATED"}
      PROVE  WorkStep
  <2>1. ~(Asking(w) /\ Retrying(w)) /\ (Retrying(w) => w \in Ticks)
    BY <1>1, <1>2 DEF Asking, Retrying
  <2>2. CASE Asking(w)
    BY <1>6, <2>1, <2>2, WorkOfWorker, RoundMoves
  <2>3. CASE Retrying(w)
    BY <1>6, <2>1, <2>3, WorkOfWorker, RetryMoves
  <2>4. CASE ~Asking(w) /\ ~Retrying(w)
    BY <1>5, <1>6, <2>4
  <2> QED
    BY <2>2, <2>3, <2>4
<1>7. ASSUME UNCHANGED task PROVE Trying' = Trying /\ (Fires' <=> Fires)
  BY <1>7 DEF Trying, Fires, Asking, Retrying
<1>8. CASE RecordSignup
  <2>1. ~Retrying(Press)' /\ \A v \in Workers \ {Press} : task'[v] = task[v]
    BY <1>8, PressClaims DEF Retrying
  <2>2. status = "COLLECTING" /\ status' = "THRESHOLD_REACHED"
    BY <1>8 DEF RecordSignup
  <2> QED
    BY <1>1, <1>2, <2>1, <2>2, WorkOfWorker, RoundMoves
<1>9. ASSUME NEW t \in Ticks, RunScheduledJob(t) PROVE WorkStep
  <2>1. /\ task'[t].phase = "held" /\ task'[t].kind = (IF Stuck THEN "retry" ELSE "fire")
        /\ \A v \in Workers \ {t} : task'[v] = task[v]
    BY <1>9, SweepReadsRound
  <2>2. task[t].phase = "idle" /\ status' = status
    BY <1>9 DEF RunScheduledJob, Busy, roundVars
  <2>3. ~Asking(t) /\ ~Asking(t)' /\ ~Retrying(t) /\ (Retrying(t)' <=> Stuck)
    BY <2>1, <2>2 DEF Asking, Retrying
  <2>4. CASE Stuck
    BY <1>1, <2>1, <2>2, <2>3, <2>4, WorkOfWorker, RetryMoves
  <2>5. CASE ~Stuck
    BY <1>1, <1>5, <2>1, <2>2, <2>3, <2>5
  <2> QED
    BY <2>4, <2>5
<1>10. ASSUME NEW t \in Ticks, SweepReaches(t) PROVE WorkStep
  <2>1. t \in Workers /\ task[t].phase = "held" /\ ~Asking(t)
    BY <1>1, <1>10, SweepTurns DEF Asking
  <2>2. CASE /\ task[t].kind = "retry" /\ status' = status
             /\ Moved(t, "draft", task[t].chat, task[t].draft)
    BY <1>4, <1>5, <2>1, <2>2 DEF Retrying
  <2>3. CASE Cleared(t) /\ status' = status
    BY <1>3, <1>6, <2>1, <2>3 DEF Cleared
  <2>4. CASE /\ task[t].kind = "fire" /\ status = "COLLECTING"
             /\ status' = "THRESHOLD_REACHED"
             /\ Moved(t, "chat", task[t].chat, task[t].draft)
    <3>1. ~Retrying(t) /\ ~Retrying(t)' /\ \A v \in Workers \ {t} : task'[v] = task[v]
      BY <1>4, <2>1, <2>4 DEF Retrying
    <3> QED
      BY <2>1, <2>4, <3>1, WorkOfWorker, RoundMoves
  <2> QED
    BY <1>10, <2>2, <2>3, <2>4, SweepTurns
<1>11. ASSUME NEW t \in Ticks, SweepReports(t) PROVE WorkStep
  <2>1. /\ t \in Workers /\ Cleared(t) /\ status' = status
        /\ ~Asking(t) /\ ~Retrying(t)
    BY <1>1, <1>11, Clears, TypesUnfolded DEF SweepReports, roundVars, Asking, Retrying
  <2> QED
    BY <1>3, <1>6, <2>1 DEF Cleared
<1>12. ASSUME NEW w \in Workers, DiscordCreatesChannel(w) PROVE WorkStep
  <2>1. /\ Moved(w, "chatMade", task[w].chat, task[w].draft) /\ status' = status
        /\ task[w].phase = "chat"
    BY <1>12, PhaseMoves, TypesUnfolded DEF DiscordCreatesChannel, Phases, roundVars
  <2> QED
    BY <1>2, <1>4, <1>5, <2>1 DEF Asking, Retrying
<1>13. ASSUME NEW w \in Workers, ChatAnswered(w) PROVE WorkStep
  <2>1. task[w].phase \in {"chat", "chatMade"} /\ status' = status
    BY <1>13 DEF ChatAnswered, roundVars
  <2>2. Asking(w) /\ ~Retrying(w)
    BY <1>2, <2>1 DEF Retrying
  <2>3. ASSUME NEW c, Moved(w, "draft", c, task[w].draft) PROVE WorkStep
    BY <1>4, <1>5, <2>1, <2>2, <2>3 DEF Asking
  <2>4. CASE Cleared(w)
    BY <1>3, <1>6, <2>1, <2>4 DEF Cleared
  <2> QED
    BY <1>13, <2>3, <2>4, ChatTurns
<1>14. ASSUME NEW w \in Workers, NiamosCreatesDraft(w) PROVE WorkStep
  <2>1. PICK d : Moved(w, task[w].phase, task[w].chat, d)
    BY <1>14, NiamosMoves
  <2>2. status' = status
    BY <1>14 DEF NiamosCreatesDraft, roundVars
  <2> QED
    BY <1>4, <1>5, <2>1, <2>2 DEF Asking, Retrying
<1>15. ASSUME NEW w \in Workers, DraftAnswered(w) PROVE WorkStep
  <2>1. task[w].phase = "draft" /\ task[w].kind \in {"fire", "retry"}
    BY <1>15, DraftTurns, TypesUnfolded, TaskFields
  <2>2. Asking(w) \/ Retrying(w)
    BY <2>1 DEF Asking, Retrying
  <2>3. status' \in {status, "POD_CREATED"}
    BY <1>15, DraftTurns DEF roundVars
  <2>4. CASE Cleared(w)
    BY <1>3, <1>6, <2>2, <2>3, <2>4 DEF Cleared
  <2>5. CASE Moved(w, "told", task[w].chat, task[w].draft)
    BY <1>4, <1>6, <2>2, <2>3, <2>5
  <2> QED
    BY <1>15, <2>4, <2>5, DraftTurns
<1>16. CASE CancelPod \/ ConcludePod
  BY <1>7, <1>16, RoundMoves DEF CancelPod, ConcludePod
<1>17. CASE Evict
  <2>1. /\ \A w \in Workers : ~Asking(w)'
        /\ {t \in Ticks : /\ task'[t].kind = "retry"
                          /\ task'[t].phase \in {"held", "draft"}} = {}
    BY <1>1, <1>17, IdleIsTask DEF Evict, Asking
  <2>2. Work!Evicted
    BY <1>17, <2>1 DEF Evict, roundVars, Asking, Work!Evicted
  <2> QED
    BY <2>2 DEF WorkStep, Work!Next
<1>18. ASSUME \/ LinkNext \/ DeleteAnswered \/ UNCHANGED vars
              \/ \E m \in sending : MailSettles(m)
       PROVE  WorkStep
  <2>1. UNCHANGED <<status, task>>
    BY <1>18 DEF LinkNext, DeleteAnswered, MailSettles, vars, tailVars, roundVars
  <2> QED
    BY <1>7, <2>1, RoundMoves
<1> QED
  BY <1>8, <1>9, <1>10, <1>11, <1>12, <1>13, <1>14, <1>15, <1>16, <1>17, <1>18 DEF Next

\* Whatever becomes of its channel, its token and its mail, the round itself
\* moves as the rounds of PodRounds do.
THEOREM TailFollowsRound == Spec => RefinesRoundWork
<1>1. Init => Work!Init /\ PressFires
  <2> SUFFICES ASSUME Init PROVE Work!Init /\ PressFires
    OBVIOUS
  <2>1. \A w \in Workers : task[w].phase = "idle" /\ task[w].kind = "fire"
    BY IdleIsTask DEF Init, TailInit
  <2>2. {t \in Ticks : task[t].kind = "retry" /\ task[t].phase \in {"held", "draft"}} = {}
    BY <2>1, WorkerFacts
  <2>3. status = "COLLECTING"
    BY DEF Init, TailInit
  <2>4. Work!Init
    BY <2>1, <2>2, <2>3 DEF Work!Init
  <2> QED
    BY <2>1, <2>4, WorkerFacts DEF PressFires
<1>2. TypeInv /\ PressFires /\ [Next]_vars => PressFires'
  BY PressStep
<1>3. TypeInv /\ FireInv /\ PressFires /\ [Next]_vars => [Work!Next]_(Work!vars)
  BY NextWork DEF WorkStep
<1> QED
  BY <1>1, <1>2, <1>3, FiringsInvariant, PTL DEF Spec, RefinesRoundWork, Work!Spec
================================================================================
