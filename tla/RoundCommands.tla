---------------------------- MODULE RoundCommands ----------------------------
(***************************************************************************)
(* Which round /cancel-pod and /conclude-pod act on                        *)
(* (commands/cancelPod.ts, commands/concludePod.ts, cancelActiveRound,     *)
(* concludeActiveRound and listActiveRoundsForOrganizer of                 *)
(* services/pods.ts).                                                      *)
(*                                                                         *)
(* An organizer may have several rounds.  With a number the command names  *)
(* one; without, it first counts the rounds it could mean.  Both halves    *)
(* are one turn.  What happens to a round otherwise is PodRounds' subject  *)
(* and shows here as single status changes.                                *)
(***************************************************************************)
EXTENDS Integers, FiniteSets, Sequences

CONSTANTS
  Organizers,
  MaxRounds,    \* bound on the rounds and on their numbers
  MaxClock,     \* bound on the clock
  Nobody

ASSUME CommandsAssumption ==
  /\ MaxRounds \in Nat /\ MaxClock \in Nat /\ Nobody \notin Organizers

VARIABLES
  rounds,   \* pod_rounds, in the order of insertion
  clock,    \* milliseconds, as far as created_at tells rounds apart
  reply     \* what the last step's command answered

vars == <<rounds, clock, reply>>

Statuses == {"COLLECTING", "THRESHOLD_REACHED", "POD_CREATED", "CANCELLED",
             "EXPIRED", "CONCLUDED"}

Commands == {"cancel", "conclude"}

Of(o) == {r \in DOMAIN rounds : rounds[r].organizer = o}

\* The statuses listActiveRoundsForOrganizer counts for a command.
Listed(command) ==
  IF command = "cancel" THEN {"COLLECTING", "THRESHOLD_REACHED"} ELSE {"POD_CREATED"}

Candidates(o, command) == {r \in Of(o) : rounds[r].status \in Listed(command)}

\* findLatestRoundForOrganizer: any status; equal times are told apart by
\* nothing the query asks for.
Latest(o) ==
  {r \in Of(o) : \A other \in Of(o) : rounds[other].created <= rounds[r].created}

\* Which statuses the services let the command change.
Accepted_Any(command, status) == TRUE
Accepted(command, status) ==
  \/ command = "cancel" /\ status \in {"COLLECTING", "THRESHOLD_REACHED"}
  \/ command = "conclude" /\ status = "POD_CREATED"

Outcome_Canceled(command) == IF command = "cancel" THEN "CANCELED" ELSE "CONCLUDED"
Outcome(command) == IF command = "cancel" THEN "CANCELLED" ELSE "CONCLUDED"

NoReply == [organizer |-> Nobody, command |-> "none", named |-> FALSE,
            kind |-> "none", round |-> 0]

Init == rounds = <<>> /\ clock = 0 /\ reply = NoReply

-----------------------------------------------------------------------------

\* A new round has a higher number than the organizer's others, not always
\* the next one (StartPod).
StartPod(o) ==
  /\ Len(rounds) < MaxRounds
  /\ \E number \in 1..MaxRounds :
       /\ \A r \in Of(o) : rounds[r].number < number
       /\ rounds' = Append(rounds,
            [organizer |-> o, number |-> number, created |-> clock, status |-> "COLLECTING"])
  /\ reply' = NoReply /\ UNCHANGED clock

\* A round fires, expires or gets its draft (late too, when it is over).
RoundMoves(r) ==
  /\ \E step \in {<<"COLLECTING", "THRESHOLD_REACHED">>, <<"COLLECTING", "EXPIRED">>,
                  <<"THRESHOLD_REACHED", "POD_CREATED">>,
                  <<"CANCELLED", "POD_CREATED">>, <<"CONCLUDED", "POD_CREATED">>} :
       /\ rounds[r].status = step[1]
       /\ rounds' = [rounds EXCEPT ![r].status = step[2]]
  /\ reply' = NoReply /\ UNCHANGED clock

\* cancelActiveRound or concludeActiveRound with the round it has resolved.
Act(o, command, named, r) ==
  /\ LET accepted == Accepted(command, rounds[r].status)
     IN /\ rounds' = IF accepted THEN [rounds EXCEPT ![r].status = Outcome(command)]
                     ELSE rounds
        /\ reply' = [organizer |-> o, command |-> command, named |-> named, round |-> r,
                     kind |-> IF accepted THEN "done" ELSE "refused"]
  /\ UNCHANGED clock

\* No round resolved: refused.
NoneFound(o, command, named) ==
  /\ reply' = [organizer |-> o, command |-> command, named |-> named, round |-> 0,
               kind |-> "refused"]
  /\ UNCHANGED <<rounds, clock>>

\* The round option names a round by its organizer's number.
CommandWithNumber(o, command, number) ==
  LET found == {r \in Of(o) : rounds[r].number = number}
  IN \/ \E r \in found : Act(o, command, TRUE, r)
     \/ found = {} /\ NoneFound(o, command, TRUE)

\* More than one candidate: the command asks which.
Ambiguous_OffByOne(candidates) == Cardinality(candidates) > 2
Ambiguous(candidates) == Cardinality(candidates) > 1

CommandWithoutNumber(o, command) ==
  \/ /\ Ambiguous(Candidates(o, command))
     /\ reply' = [organizer |-> o, command |-> command, named |-> FALSE, round |-> 0,
                  kind |-> "which"]
     /\ UNCHANGED <<rounds, clock>>
  \/ /\ ~Ambiguous(Candidates(o, command))
     /\ \/ \E r \in Latest(o) : Act(o, command, FALSE, r)
        \/ Of(o) = {} /\ NoneFound(o, command, FALSE)

ClockAdvances ==
  /\ clock < MaxClock
  /\ clock' = clock + 1
  /\ reply' = NoReply /\ UNCHANGED rounds

Next ==
  \/ \E o \in Organizers : StartPod(o)
  \/ \E r \in DOMAIN rounds : RoundMoves(r)
  \/ \E o \in Organizers, command \in Commands :
       \/ CommandWithoutNumber(o, command)
       \/ \E number \in 1..MaxRounds : CommandWithNumber(o, command, number)
  \/ ClockAdvances

Spec == Init /\ [][Next]_vars

-----------------------------------------------------------------------------
(* Properties.                                                             *)

TypeOK ==
  /\ rounds \in Seq([organizer : Organizers, number : 1..MaxRounds,
                     created : 0..MaxClock, status : Statuses])
  /\ Len(rounds) <= MaxRounds
  /\ clock \in 0..MaxClock
  /\ reply \in [organizer : Organizers \cup {Nobody}, command : Commands \cup {"none"},
                named : BOOLEAN, kind : {"none", "done", "refused", "which"},
                round : 0..MaxRounds]

\* A command without a number never ends one of several rounds it could have
\* meant: after it has acted on a round, no other candidate is left, although
\* it acts on the latest round and not on the one it counted.
BareCommandIsUnambiguous ==
  reply.kind = "done" /\ ~reply.named =>
    Candidates(reply.organizer, reply.command) = {}

\* Commands end rounds that have not ended, and only the sender's: a fired
\* round is never cancelled by a command that took it for one that still
\* collects, nor an open one concluded.
CommandsFollowLifecycle ==
  [][\A r \in DOMAIN rounds :
       rounds'[r].status # rounds[r].status /\ reply'.kind = "done" =>
         /\ rounds[r].organizer = reply'.organizer
         /\ \/ /\ rounds[r].status \in {"COLLECTING", "THRESHOLD_REACHED"}
               /\ rounds'[r].status = "CANCELLED"
            \/ /\ rounds[r].status = "POD_CREATED"
               /\ rounds'[r].status = "CONCLUDED"]_vars
=============================================================================
