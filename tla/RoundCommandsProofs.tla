-------------------------- MODULE RoundCommandsProofs --------------------------
(***************************************************************************)
(* /cancel-pod and /conclude-pod over any number of organizers and rounds: *)
(* a command ends only a round it is for, and one without a number ends    *)
(* none of several it could mean.                                          *)
(***************************************************************************)
EXTENDS RoundCommands, FiniteSetTheorems, SequenceTheorems, TLAPS

RoundRow == [organizer : Organizers, number : 1..MaxRounds,
             created : 0..MaxClock, status : Statuses]

Replies == [organizer : Organizers \cup {Nobody}, command : Commands \cup {"none"},
            named : BOOLEAN, kind : {"none", "done", "refused", "which"},
            round : 0..MaxRounds]

\* The candidates of a command are among finitely many rounds.
LEMMA CandidatesFinite ==
  ASSUME rounds \in Seq(RoundRow), NEW o, NEW command
  PROVE  IsFiniteSet(Candidates(o, command))
<1>1. DOMAIN rounds = 1..Len(rounds) /\ Len(rounds) \in Nat
  OBVIOUS
<1>2. IsFiniteSet(1..Len(rounds))
  BY <1>1, FS_Interval
<1>3. Candidates(o, command) \subseteq 1..Len(rounds)
  BY <1>1 DEF Of, Candidates
<1> QED BY <1>2, <1>3, FS_Subset

\* Acting on a round of the organizer's changes its status at most.
LEMMA ActKeepsTypes ==
  ASSUME TypeOK, NEW o \in Organizers, NEW command \in Commands, NEW named \in BOOLEAN,
         NEW r \in Of(o), Act(o, command, named, r)
  PROVE  TypeOK'
<1> USE CommandsAssumption
<1>1. rounds \in Seq(RoundRow) /\ Len(rounds) <= MaxRounds /\ r \in 1..Len(rounds)
  BY DEF TypeOK, RoundRow, Of
<1>2. Outcome(command) \in Statuses
  BY DEF Outcome, Statuses
<1> DEFINE row == [rounds[r] EXCEPT !.status = Outcome(command)]
<1>3. row \in RoundRow
  <2>1. rounds[r] \in RoundRow
    BY <1>1
  <2> QED BY <1>2, <2>1 DEF RoundRow
<1> HIDE DEF row
<1>4. [rounds EXCEPT ![r] = row] \in Seq(RoundRow)
      /\ Len([rounds EXCEPT ![r] = row]) = Len(rounds)
  BY <1>1, <1>3, ExceptSeq
<1>5. rounds' \in Seq(RoundRow) /\ Len(rounds') <= MaxRounds
  BY <1>1, <1>4 DEF Act, row
<1>6. reply' \in Replies
  BY <1>1 DEF Act, Replies, TypeOK
<1> QED BY <1>5, <1>6 DEF Act, TypeOK, RoundRow, Replies

LEMMA NextKeepsTypes ==
  ASSUME TypeOK, [Next]_vars
  PROVE  TypeOK'
<1> USE CommandsAssumption
<1>1. /\ rounds \in Seq(RoundRow) /\ Len(rounds) <= MaxRounds /\ Len(rounds) \in Nat
      /\ clock \in 0..MaxClock /\ reply \in Replies
  BY DEF TypeOK, RoundRow, Replies
<1>2. NoReply \in Replies
  BY DEF NoReply, Replies
<1>3. ASSUME NEW o \in Organizers, StartPod(o)
      PROVE  TypeOK'
  <2>1. PICK number \in 1..MaxRounds :
          rounds' = Append(rounds, [organizer |-> o, number |-> number,
                                    created |-> clock, status |-> "COLLECTING"])
    BY <1>3 DEF StartPod
  <2> DEFINE row == [organizer |-> o, number |-> number,
                     created |-> clock, status |-> "COLLECTING"]
  <2>2. row \in RoundRow
    BY <1>1, <2>1 DEF RoundRow, Statuses
  <2>3. rounds' = Append(rounds, row) /\ Len(rounds) < MaxRounds
    BY <1>3, <2>1 DEF StartPod
  <2> HIDE DEF row
  <2>4. rounds' \in Seq(RoundRow) /\ Len(rounds') = Len(rounds) + 1
    BY <1>1, <2>2, <2>3, AppendProperties
  <2>5. reply' = NoReply /\ clock' = clock
    BY <1>3 DEF StartPod
  <2> QED BY <1>1, <1>2, <2>3, <2>4, <2>5 DEF TypeOK, RoundRow, Replies
<1>4. ASSUME NEW r \in DOMAIN rounds, RoundMoves(r)
      PROVE  TypeOK'
  <2>1. PICK status \in Statuses : rounds' = [rounds EXCEPT ![r].status = status]
    <3>1. PICK step \in {<<"COLLECTING", "THRESHOLD_REACHED">>, <<"COLLECTING", "EXPIRED">>,
                         <<"THRESHOLD_REACHED", "POD_CREATED">>,
                         <<"CANCELLED", "POD_CREATED">>, <<"CONCLUDED", "POD_CREATED">>} :
            rounds' = [rounds EXCEPT ![r].status = step[2]]
      BY <1>4 DEF RoundMoves
    <3>2. step[2] \in Statuses
      BY DEF Statuses
    <3> QED BY <3>1, <3>2
  <2> DEFINE row == [rounds[r] EXCEPT !.status = status]
  <2>2. r \in 1..Len(rounds) /\ rounds[r] \in RoundRow
    BY <1>1
  <2>3. row \in RoundRow
    BY <2>2 DEF RoundRow
  <2>4. rounds' = [rounds EXCEPT ![r] = row]
    BY <2>1
  <2> HIDE DEF row
  <2>5. rounds' \in Seq(RoundRow) /\ Len(rounds') = Len(rounds)
    BY <1>1, <2>2, <2>3, <2>4, ExceptSeq
  <2>6. reply' = NoReply /\ clock' = clock
    BY <1>4 DEF RoundMoves
  <2> QED BY <1>1, <1>2, <2>5, <2>6 DEF TypeOK, RoundRow, Replies
<1>5. ASSUME NEW o \in Organizers, NEW command \in Commands, NEW named \in BOOLEAN,
             NoneFound(o, command, named)
      PROVE  TypeOK'
  <2>1. reply' \in Replies
    BY <1>5 DEF NoneFound, Replies
  <2> QED BY <1>1, <1>5, <2>1 DEF NoneFound, TypeOK, RoundRow, Replies
<1>6. ASSUME NEW o \in Organizers, NEW command \in Commands, CommandWithoutNumber(o, command)
      PROVE  TypeOK'
  <2>1. ASSUME NEW r \in Latest(o), Act(o, command, FALSE, r)
        PROVE  TypeOK'
    BY <2>1, ActKeepsTypes DEF Latest
  <2>2. CASE NoneFound(o, command, FALSE)
    BY <2>2, <1>5
  <2>3. CASE /\ reply' = [organizer |-> o, command |-> command, named |-> FALSE,
                          round |-> 0, kind |-> "which"]
             /\ UNCHANGED <<rounds, clock>>
    <3>1. reply' \in Replies
      BY <2>3 DEF Replies
    <3> QED BY <1>1, <2>3, <3>1 DEF TypeOK, RoundRow, Replies
  <2> QED BY <1>6, <2>1, <2>2, <2>3 DEF CommandWithoutNumber
<1>7. ASSUME NEW o \in Organizers, NEW command \in Commands, NEW number \in 1..MaxRounds,
             CommandWithNumber(o, command, number)
      PROVE  TypeOK'
  BY <1>5, <1>7, ActKeepsTypes DEF CommandWithNumber
<1>8. CASE ClockAdvances
  BY <1>1, <1>2, <1>8 DEF ClockAdvances, TypeOK, RoundRow, Replies
<1>9. CASE UNCHANGED vars
  BY <1>1, <1>9 DEF vars, TypeOK, RoundRow, Replies
<1> QED BY <1>3, <1>4, <1>6, <1>7, <1>8, <1>9 DEF Next

-----------------------------------------------------------------------------
(* The theorems.                                                           *)

\* Rows and replies keep their types.
THEOREM CommandsTypeCorrect == Spec => []TypeOK
<1>1. Init => TypeOK
  BY CommandsAssumption DEF Init, TypeOK, NoReply
<1> QED BY <1>1, NextKeepsTypes, PTL DEF Spec

\* Writing a status leaves everything else of the rows.
LEMMA StatusWritten ==
  ASSUME rounds \in Seq(RoundRow), NEW acted \in DOMAIN rounds, NEW status,
         rounds' = [rounds EXCEPT ![acted].status = status]
  PROVE  /\ DOMAIN rounds' = DOMAIN rounds
         /\ rounds'[acted].status = status
         /\ \A r \in DOMAIN rounds : rounds'[r].organizer = rounds[r].organizer
         /\ \A r \in DOMAIN rounds : r # acted => rounds'[r] = rounds[r]
<1> DEFINE row == [rounds[acted] EXCEPT !.status = status]
<1>1. rounds[acted] \in RoundRow
  OBVIOUS
<1>2. row.status = status /\ row.organizer = rounds[acted].organizer
  BY <1>1 DEF RoundRow
<1>3. rounds' = [rounds EXCEPT ![acted] = row]
  OBVIOUS
<1> HIDE DEF row
<1>4. rounds = [i \in 1..Len(rounds) |-> rounds[i]] /\ DOMAIN rounds = 1..Len(rounds)
  OBVIOUS
<1>5. rounds' = [i \in DOMAIN rounds |-> IF i = acted THEN row ELSE rounds[i]]
  BY <1>3, <1>4
<1> QED BY <1>2, <1>5

\* The only step that answers "done" acts on one of the sender's rounds.
LEMMA DoneIsAct ==
  ASSUME Next, reply'.kind = "done"
  PROVE  \E o \in Organizers, command \in Commands, r \in DOMAIN rounds :
           /\ r \in Of(o) /\ Accepted(command, rounds[r].status)
           /\ rounds' = [rounds EXCEPT ![r].status = Outcome(command)]
           /\ reply'.organizer = o /\ reply'.command = command
           /\ reply'.named \/ ~Ambiguous(Candidates(o, command))
<1>0. ASSUME NEW o, NEW command, reply' = [organizer |-> o, command |-> command,
                                          named |-> FALSE, round |-> 0, kind |-> "which"]
      PROVE  FALSE
  <2>1. reply'.kind = "which"
    BY <1>0
  <2> QED BY <2>1
<1>a. ASSUME NEW o, NEW command, NEW named, NoneFound(o, command, named)
      PROVE  FALSE
  <2>1. reply'.kind = "refused"
    BY <1>a DEF NoneFound
  <2> QED BY <2>1
<1>1. reply' # NoReply
  BY DEF NoReply
<1>2. PICK o \in Organizers, command \in Commands :
        \/ CommandWithoutNumber(o, command)
        \/ \E number \in 1..MaxRounds : CommandWithNumber(o, command, number)
  BY <1>1 DEF Next, StartPod, RoundMoves, ClockAdvances
<1>3. PICK r \in Of(o), named \in BOOLEAN :
        /\ Act(o, command, named, r)
        /\ named \/ ~Ambiguous(Candidates(o, command))
  <2>1. CASE CommandWithoutNumber(o, command)
    <3>1. ~Ambiguous(Candidates(o, command))
      BY <1>0, <2>1 DEF CommandWithoutNumber
    <3>2. \E r \in Latest(o) : Act(o, command, FALSE, r)
      BY <1>0, <1>a, <2>1 DEF CommandWithoutNumber
    <3> QED BY <3>1, <3>2 DEF Latest
  <2>2. ASSUME NEW number \in 1..MaxRounds, CommandWithNumber(o, command, number)
        PROVE  \E r \in Of(o) : Act(o, command, TRUE, r)
    BY <1>a, <2>2 DEF CommandWithNumber
  <2> QED BY <1>2, <2>1, <2>2
<1>4. /\ reply'.organizer = o /\ reply'.command = command /\ reply'.named = named
      /\ Accepted(command, rounds[r].status)
      /\ rounds' = [rounds EXCEPT ![r].status = Outcome(command)]
  BY <1>3 DEF Act
<1>5. r \in DOMAIN rounds
  BY DEF Of
<1> QED BY <1>3, <1>4, <1>5

\* A command ends only a round of its sender's, and one it is for.
THEOREM CommandsFollow == Spec => CommandsFollowLifecycle
<1>1. TypeOK /\ [Next]_vars =>
        [\A r \in DOMAIN rounds :
           rounds'[r].status # rounds[r].status /\ reply'.kind = "done" =>
             /\ rounds[r].organizer = reply'.organizer
             /\ \/ /\ rounds[r].status \in {"COLLECTING", "THRESHOLD_REACHED"}
                   /\ rounds'[r].status = "CANCELLED"
                \/ /\ rounds[r].status = "POD_CREATED"
                   /\ rounds'[r].status = "CONCLUDED"]_vars
  <2> SUFFICES ASSUME TypeOK, Next, NEW r \in DOMAIN rounds,
                      rounds'[r].status # rounds[r].status, reply'.kind = "done"
               PROVE  /\ rounds[r].organizer = reply'.organizer
                      /\ \/ /\ rounds[r].status \in {"COLLECTING", "THRESHOLD_REACHED"}
                            /\ rounds'[r].status = "CANCELLED"
                         \/ /\ rounds[r].status = "POD_CREATED"
                            /\ rounds'[r].status = "CONCLUDED"
    OBVIOUS
  <2>1. PICK o \in Organizers, command \in Commands, acted \in DOMAIN rounds :
          /\ acted \in Of(o) /\ Accepted(command, rounds[acted].status)
          /\ rounds' = [rounds EXCEPT ![acted].status = Outcome(command)]
          /\ reply'.organizer = o
    BY DoneIsAct
  <2>2. rounds \in Seq(RoundRow)
    BY DEF TypeOK, RoundRow
  <2>3. r = acted
    BY <2>1, <2>2
  <2>4. rounds'[r].status = Outcome(command)
    BY <2>1, <2>2, <2>3, StatusWritten
  <2> QED BY <2>1, <2>3, <2>4 DEF Of, Accepted, Outcome, Commands
<1> QED BY <1>1, CommandsTypeCorrect, PTL DEF Spec, CommandsFollowLifecycle

\* A command without a number never ends one of several rounds it could have
\* meant.
THEOREM BareCommands == Spec => []BareCommandIsUnambiguous
<1>1. Init => BareCommandIsUnambiguous
  BY DEF Init, NoReply, BareCommandIsUnambiguous
<1>2. TypeOK /\ BareCommandIsUnambiguous /\ [Next]_vars => BareCommandIsUnambiguous'
  <2> SUFFICES ASSUME TypeOK, Next, reply'.kind = "done", ~reply'.named
               PROVE  Candidates(reply.organizer, reply.command)' = {}
    BY DEF BareCommandIsUnambiguous, vars, Candidates, Of
  <2>1. PICK o \in Organizers, command \in Commands, acted \in DOMAIN rounds :
          /\ acted \in Of(o) /\ Accepted(command, rounds[acted].status)
          /\ rounds' = [rounds EXCEPT ![acted].status = Outcome(command)]
          /\ reply'.organizer = o /\ reply'.command = command
          /\ ~Ambiguous(Candidates(o, command))
    BY DoneIsAct
  <2>2. rounds \in Seq(RoundRow)
    BY DEF TypeOK, RoundRow
  <2>3. acted \in Candidates(o, command)
    BY <2>1 DEF Candidates, Accepted, Listed, Commands
  <2>4. Candidates(o, command) = {acted}
    <3>1. IsFiniteSet(Candidates(o, command))
      BY <2>2, CandidatesFinite
    <3>2. ASSUME NEW other \in Candidates(o, command), other # acted
          PROVE  FALSE
      <4>1. {acted, other} \subseteq Candidates(o, command)
        BY <2>3
      <4>2. Cardinality({acted, other}) = 2
        <5>1. IsFiniteSet({acted}) /\ Cardinality({acted}) = 1
          BY FS_Singleton
        <5>2. {acted, other} = {acted} \cup {other}
          OBVIOUS
        <5>3. other \notin {acted}
          BY <3>2
        <5>4. Cardinality({acted} \cup {other}) = Cardinality({acted}) + 1
          BY <5>1, <5>3, FS_AddElement
        <5> QED BY <5>1, <5>2, <5>4
      <4>3. Cardinality({acted, other}) <= Cardinality(Candidates(o, command))
        BY <4>1, <3>1, FS_Subset
      <4>4. Cardinality(Candidates(o, command)) \in Nat
        BY <3>1, FS_CardinalityType
      <4> QED BY <4>2, <4>3, <4>4, <2>1 DEF Ambiguous
    <3> QED BY <3>2, <2>3
  <2>5. Outcome(command) \notin Listed(command)
    BY DEF Outcome, Listed, Commands
  <2>6. /\ DOMAIN rounds' = DOMAIN rounds
        /\ rounds'[acted].status = Outcome(command)
        /\ \A r \in DOMAIN rounds : rounds'[r].organizer = rounds[r].organizer
        /\ \A r \in DOMAIN rounds : r # acted => rounds'[r] = rounds[r]
    BY <2>1, <2>2, StatusWritten
  <2>7. {r \in DOMAIN rounds' : /\ rounds'[r].organizer = o
                                /\ rounds'[r].status \in Listed(command)} = {}
    BY <2>4, <2>5, <2>6 DEF Candidates, Of
  <2> QED BY <2>1, <2>7 DEF Candidates, Of
<1> QED BY <1>1, <1>2, CommandsTypeCorrect, PTL DEF Spec
=============================================================================
