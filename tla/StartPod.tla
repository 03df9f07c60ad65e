------------------------------- MODULE StartPod -------------------------------
(***************************************************************************)
(* The /start-pod flow, from the command to the rows of a round            *)
(* (commands/startPod.ts, interactions/components.ts,                      *)
(* storage/pendingStartPodsSql.ts, startPod of services/pods.ts), over     *)
(* guilds whose subscriptions and trust change meanwhile (GuildTrust).     *)
(*                                                                         *)
(* The organizer pauses between the menu, the summary and Send as long as  *)
(* he likes, and may press a button twice before its message is replaced.  *)
(* The messages of the round are RoundMessages' subject.                   *)
(***************************************************************************)
EXTENDS GuildTrust

CONSTANTS
  Organizers,
  TTL,           \* TTL_MS of a pending selection
  MinDeadline,   \* MIN_DEADLINE_MS
  MaxDeadline,   \* MAX_DEADLINE_MS
  Durations,     \* deadlines an organizer may type, a time from now or None
  MaxMenus,      \* bound on the pickers on show at once
  MaxSelections, \* bound on the selections submitted
  MaxClock       \* bound on the clock

ASSUME StartPodAssumption ==
  /\ TTL \in Nat /\ MinDeadline \in Nat \ {0} /\ MaxDeadline \in Nat
  /\ MinDeadline <= MaxDeadline
  /\ MaxMenus \in Nat /\ MaxSelections \in Nat /\ MaxClock \in Nat
  /\ Durations \subseteq Nat \cup {None} /\ None \notin Nat

VARIABLES
  clock,
  menus,       \* server pickers on show
  looking,     \* submitted selections whose guild names are being looked up
  selections,  \* selections submitted so far, which names them
  pending,     \* pending_start_pods
  nextNumber,  \* organizers.next_round_number
  rounds       \* the rounds created

flowVars == <<clock, menus, looking, selections, pending, nextNumber, rounds>>
vars == <<guildVars, flowVars>>

Deadlines == {None} \cup 0..(MaxClock + MaxDeadline)

Menus == [organizer : Organizers, origin : Origins, offered : SUBSET Guilds,
          deadline : Deadlines]

Init ==
  /\ GuildInit
  /\ clock = 0
  /\ menus = {} /\ looking = {} /\ selections = 0 /\ pending = {}
  /\ nextNumber = [o \in Organizers |-> 1]
  /\ rounds = {}

-----------------------------------------------------------------------------

\* The policy on the deadline option, a time from now.
Allowed(duration) == duration = None \/ duration \in MinDeadline..MaxDeadline

\* /start-pod offers the eligible guilds; deadline and offer travel in the
\* picker, not in storage.
OfferGuilds(organizer, origin) ==
  /\ Cardinality(menus) < MaxMenus
  /\ Eligible(origin) # {}
  /\ \E duration \in {d \in Durations : Allowed(d)} :
       menus' = menus \cup
         {[organizer |-> organizer, origin |-> origin, offered |-> Eligible(origin),
           deadline |-> IF duration = None THEN None ELSE clock + duration]}
  /\ UNCHANGED <<clock, looking, selections, pending, nextNumber, rounds>>

\* Servers are picked; the handler looks their names up before it answers.
SelectGuilds(menu) ==
  /\ menu \in menus /\ selections < MaxSelections
  /\ selections' = selections + 1
  /\ \E chosen \in SUBSET menu.offered \ {{}} :
       looking' = looking \cup
         {[menu |-> menu, guilds |-> chosen, token |-> selections + 1]}
  /\ UNCHANGED <<clock, menus, pending, nextNumber, rounds>>

\* Rows evictExpired leaves: created_at no older than the cutoff.
Fresh_All == pending
Fresh == {p \in pending : p.created >= clock - TTL}

\* create: the summary with Send and Cancel replaces the picker.
GuildNamesAnswered(look) ==
  /\ look \in looking
  /\ looking' = looking \ {look}
  /\ menus' = menus \ {look.menu}
  /\ pending' = Fresh \cup
       {[token |-> look.token, organizer |-> look.menu.organizer,
         origin |-> look.menu.origin, guilds |-> look.guilds,
         deadline |-> look.menu.deadline, created |-> clock]}
  /\ UNCHANGED <<clock, selections, nextNumber, rounds>>

\* findActiveByGuildIds, with the channel of each.
Targets_AsSelected(guilds) == [g \in guilds |-> subscription[g].channel]
Targets(guilds) == [g \in guilds \cap Active |-> subscription[g].channel]

\* What remains of the pending selections when Send has used one.
Used_Keeps(p) == Fresh
Used(p) == Fresh \ {p}

\* incrementNextRoundNumber
Increment_Stays(n) == IF n = 1 THEN 2 ELSE n
Increment(n) == n + 1

\* Send: get, delete and startPod, in one turn.  startPod takes the number in
\* one call and creates the round in the next: when that fails, or the object
\* with it, the number and the selection are gone and there is no round.
Confirm(p) ==
  /\ p \in Fresh
  /\ pending' = Used(p)
  /\ nextNumber' = [nextNumber EXCEPT ![p.organizer] = Increment(@)]
  /\ \/ rounds' = rounds \cup
          {[organizer |-> p.organizer, number |-> nextNumber'[p.organizer] - 1,
            origin |-> p.origin, targets |-> Targets(p.guilds), deadline |-> p.deadline,
            created |-> clock, token |-> p.token, selected |-> p.created]}
     \/ UNCHANGED rounds
  /\ UNCHANGED <<clock, menus, looking, selections>>

\* Send comes too late, or a second time: only the sweep of get happens.
ConfirmExpired ==
  /\ pending' = Fresh
  /\ UNCHANGED <<clock, menus, looking, selections, nextNumber, rounds>>

CancelSelection(p) ==
  /\ p \in pending
  /\ pending' = pending \ {p}
  /\ UNCHANGED <<clock, menus, looking, selections, nextNumber, rounds>>

ClockAdvances ==
  /\ clock < MaxClock
  /\ clock' = clock + 1
  /\ UNCHANGED <<menus, looking, selections, pending, nextNumber, rounds>>

\* An eviction forgets what was being looked up; the rows stay.
Evict ==
  /\ looking' = {}
  /\ UNCHANGED <<clock, menus, selections, pending, nextNumber, rounds>>

FlowNext ==
  \/ \E organizer \in Organizers, origin \in Origins : OfferGuilds(organizer, origin)
  \/ \E menu \in menus : SelectGuilds(menu)
  \/ \E look \in looking : GuildNamesAnswered(look)
  \/ \E p \in pending : Confirm(p) \/ CancelSelection(p)
  \/ ConfirmExpired
  \/ ClockAdvances
  \/ Evict

Next ==
  \/ GuildNext /\ UNCHANGED flowVars
  \/ FlowNext /\ UNCHANGED guildVars

Spec == Init /\ [][Next]_vars

-----------------------------------------------------------------------------
(* Properties.                                                             *)

TypeOK ==
  /\ GuildTypeOK
  /\ clock \in 0..MaxClock
  /\ menus \subseteq Menus
  /\ looking \subseteq [menu : Menus, guilds : SUBSET Guilds, token : 1..MaxSelections]
  /\ selections \in 0..MaxSelections
  /\ pending \subseteq [token : 1..MaxSelections, organizer : Organizers,
                        origin : Origins, guilds : SUBSET Guilds,
                        deadline : Deadlines, created : 0..MaxClock]
  /\ nextNumber \in [Organizers -> Nat \ {0}]
  /\ \A r \in rounds :
       /\ r.organizer \in Organizers /\ r.origin \in Origins
       /\ DOMAIN r.targets \subseteq Guilds
       /\ \A g \in DOMAIN r.targets : r.targets[g] \in Channels
       /\ r.deadline \in Deadlines /\ r.created \in 0..MaxClock

\* Send creates one round however often it is pressed, before or after its
\* selection was swept, and beside a second press of the picker.
OneRoundPerSelection ==
  \A r1, r2 \in rounds : r1.token = r2.token => r1 = r2

\* No guild is made a target of a round that comes from a guild it has not
\* trusted, however long ago its name was offered.
TargetsTrustOrigin ==
  \A r \in rounds : \A g \in DOMAIN r.targets :
    g = r.origin \/ <<g, r.origin>> \in trusted

\* A guild that unsubscribes between the menu and Send is skipped, and one
\* that changes its channel gets the round in the new one.
TargetsAreCurrent ==
  [][\A r \in rounds' \ rounds : \A g \in DOMAIN r.targets :
       /\ subscription[g].state = "active"
       /\ r.targets[g] = subscription[g].channel]_vars

\* No two rounds of an organizer have the same number, and the next one will
\* have another still, whatever gaps failures leave (services/pods.ts:64-77):
\* /cancel-pod and /conclude-pod name a round by it.
NumbersAreDistinct ==
  /\ \A r1, r2 \in rounds :
       r1.organizer = r2.organizer /\ r1.number = r2.number => r1 = r2
  /\ \A r \in rounds : r.number \in 1..(nextNumber[r.organizer] - 1)

\* A selection older than its lifetime starts nothing.
NoStaleSelection ==
  \A r \in rounds : r.created - r.selected <= TTL

\* Refuted: "Deadline must be at least 5 minutes out." (commands/startPod.ts:64)
\* and "Under 5 minutes isn't enough time for anyone to realistically see and
\* click": the round's players have that time from its creation on.
DeadlineIsAhead ==
  \A r \in rounds : r.deadline # None => r.deadline - r.created >= MinDeadline
=============================================================================
