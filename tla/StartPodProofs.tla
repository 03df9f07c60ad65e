----------------------------- MODULE StartPodProofs -----------------------------
(***************************************************************************)
(* The /start-pod flow for any number of guilds, organizers, menus and     *)
(* selections: consent, one round a selection, fresh selections, numbers.  *)
(*                                                                         *)
(* FlowStep says what one turn may add to each stage of the flow; every    *)
(* action is a FlowStep, and each part of the invariant is preserved by    *)
(* any FlowStep.                                                           *)
(***************************************************************************)
EXTENDS StartPod, GuildTrustProofs

-----------------------------------------------------------------------------
(* The invariant.                                                          *)

\* The origin may post in all of these guilds.
Consent(origin, guilds) ==
  \A g \in guilds : g = origin \/ <<g, origin>> \in trusted

\* What has been offered, chosen, stored or posted was consented to.
ConsentInv ==
  /\ \A menu \in menus : Consent(menu.origin, menu.offered)
  /\ \A look \in looking : Consent(look.menu.origin, look.guilds)
  /\ \A p \in pending : Consent(p.origin, p.guilds)
  /\ \A r \in rounds : Consent(r.origin, DOMAIN r.targets)

\* A selection is in one place: being looked up, pending, or a round.
TokenInv ==
  /\ selections \in Nat
  /\ \A x \in looking \cup pending \cup rounds : x.token \in 1..selections
  /\ \A l1, l2 \in looking : l1.token = l2.token => l1 = l2
  /\ \A p1, p2 \in pending : p1.token = p2.token => p1 = p2
  /\ \A r1, r2 \in rounds : r1.token = r2.token => r1 = r2
  /\ \A look \in looking, p \in pending : look.token # p.token
  /\ \A look \in looking, r \in rounds : look.token # r.token
  /\ \A p \in pending, r \in rounds : p.token # r.token

\* Pending selections are stamped with the clock.
AgeInv ==
  /\ clock \in Nat
  /\ \A p \in pending : p.created \in Nat
  /\ \A r \in rounds : r.created - r.selected <= TTL

-----------------------------------------------------------------------------
(* What a turn can do.                                                     *)

\* A chosen guild was on the menu.
Chosen(look) ==
  /\ look.menu \in menus /\ look.guilds \subseteq look.menu.offered
  /\ look.token = selections + 1 /\ selections' = selections + 1

\* The summary repeats what was chosen.
Stored(p, look) ==
  /\ p.token = look.token /\ p.created = clock
  /\ p.origin = look.menu.origin /\ p.guilds = look.guilds

\* The round repeats the selection, less the guilds that left.
Created(r, p) ==
  /\ r.token = p.token /\ r.selected = p.created /\ r.created = clock
  /\ r.origin = p.origin /\ DOMAIN r.targets \subseteq p.guilds

FlowStep ==
  /\ trusted \subseteq trusted'
  /\ clock' \in {clock, clock + 1}
  /\ selections' \in {selections, selections + 1}
  /\ \A menu \in menus' \ menus : menu.offered = Eligible(menu.origin)
  /\ \A look \in looking' \ looking : Chosen(look)
  /\ \A l1, l2 \in looking' \ looking : l1 = l2
  /\ \A p \in pending' \ pending : \E look \in looking \ looking' : Stored(p, look)
  /\ \A p1, p2 \in pending' \ pending : p1 = p2
  /\ \A r \in rounds' \ rounds : \E p \in Fresh \ pending' : Created(r, p)
  /\ \A r1, r2 \in rounds' \ rounds : r1 = r2

LEMMA NextFlowStep ==
  ASSUME GuildTypeOK, [Next]_vars
  PROVE  FlowStep
<1>1. CASE GuildNext /\ UNCHANGED flowVars
  BY <1>1, NextGuildStep DEF FlowStep, GuildStep, flowVars
<1> SUFFICES ASSUME UNCHANGED guildVars, FlowNext \/ UNCHANGED flowVars
             PROVE  FlowStep
  BY <1>1 DEF Next, vars
<1>a. trusted \subseteq trusted'
  BY DEF guildVars
<1>2. ASSUME NEW o \in Organizers, NEW origin \in Origins, OfferGuilds(o, origin)
      PROVE  FlowStep
  BY <1>a, <1>2 DEF OfferGuilds, FlowStep
<1>3. ASSUME NEW menu \in menus, SelectGuilds(menu)
      PROVE  FlowStep
  BY <1>a, <1>3 DEF SelectGuilds, FlowStep, Chosen
<1>4. ASSUME NEW look \in looking, GuildNamesAnswered(look)
      PROVE  FlowStep
  <2>1. /\ looking' = looking \ {look} /\ menus' = menus \ {look.menu}
        /\ UNCHANGED <<clock, selections, nextNumber, rounds>>
    BY <1>4 DEF GuildNamesAnswered
  <2>2. \A p \in pending' \ pending : Stored(p, look)
    BY <1>4 DEF GuildNamesAnswered, Fresh, Stored
  <2>3. \A p1, p2 \in pending' \ pending : p1 = p2
    BY <1>4 DEF GuildNamesAnswered, Fresh
  <2> QED BY <1>a, <2>1, <2>2, <2>3 DEF FlowStep
<1>5. ASSUME NEW p \in pending, Confirm(p)
      PROVE  FlowStep
  <2>1. /\ p \in Fresh \ pending' /\ pending' \subseteq pending
        /\ UNCHANGED <<clock, menus, looking, selections>>
    BY <1>5 DEF Confirm, Used, Fresh
  <2>2. \A r \in rounds' \ rounds : Created(r, p)
    BY <1>5 DEF Confirm, Created, Targets
  <2>3. \A r1, r2 \in rounds' \ rounds : r1 = r2
    BY <1>5 DEF Confirm
  <2> QED BY <1>a, <2>1, <2>2, <2>3 DEF FlowStep
<1>6. ASSUME NEW p \in pending, CancelSelection(p)
      PROVE  FlowStep
  BY <1>a, <1>6 DEF CancelSelection, FlowStep
<1>7. CASE ConfirmExpired
  BY <1>a, <1>7 DEF ConfirmExpired, FlowStep, Fresh
<1>8. CASE ClockAdvances
  BY <1>a, <1>8 DEF ClockAdvances, FlowStep
<1>9. CASE Evict
  BY <1>a, <1>9 DEF Evict, FlowStep
<1>10. CASE UNCHANGED flowVars
  BY <1>a, <1>10 DEF FlowStep, flowVars
<1> QED BY <1>2, <1>3, <1>4, <1>5, <1>6, <1>7, <1>8, <1>9, <1>10 DEF FlowNext

-----------------------------------------------------------------------------
(* Every part of the invariant is kept.                                    *)

\* Grants are only added, so consent once given lasts.
LEMMA ConsentPreserved ==
  ASSUME ConsentInv, FlowStep
  PROVE  ConsentInv'
<1>1. \A origin, guilds : Consent(origin, guilds) => Consent(origin, guilds)'
  BY DEF Consent, FlowStep
<1>2. \A origin : Consent(origin, Eligible(origin))
  BY DEF Consent, Eligible
<1>3. \A origin, guilds, fewer :
        Consent(origin, guilds) /\ fewer \subseteq guilds => Consent(origin, fewer)
  BY DEF Consent
<1>4. ASSUME NEW menu \in menus'
      PROVE  Consent(menu.origin, menu.offered)'
  BY <1>1, <1>2 DEF FlowStep, ConsentInv
<1>5. ASSUME NEW look \in looking'
      PROVE  Consent(look.menu.origin, look.guilds)'
  <2>1. CASE look \in looking
    BY <1>1, <2>1 DEF ConsentInv
  <2>2. CASE look \notin looking
    <3>1. look.menu \in menus /\ look.guilds \subseteq look.menu.offered
      BY <2>2, <1>5 DEF FlowStep, Chosen
    <3>2. Consent(look.menu.origin, look.guilds)
      BY <3>1, <1>3 DEF ConsentInv
    <3> QED BY <1>1, <3>2
  <2> QED BY <2>1, <2>2
<1>6. ASSUME NEW p \in pending'
      PROVE  Consent(p.origin, p.guilds)'
  <2>1. CASE p \in pending
    BY <1>1, <2>1 DEF ConsentInv
  <2>2. CASE p \notin pending
    <3>1. PICK look \in looking : Stored(p, look)
      BY <2>2, <1>6 DEF FlowStep
    <3> QED BY <1>1, <3>1 DEF Stored, ConsentInv
  <2> QED BY <2>1, <2>2
<1>7. ASSUME NEW r \in rounds'
      PROVE  Consent(r.origin, DOMAIN r.targets)'
  <2>1. CASE r \in rounds
    BY <1>1, <2>1 DEF ConsentInv
  <2>2. CASE r \notin rounds
    <3>1. PICK p \in pending : Created(r, p)
      BY <2>2, <1>7 DEF FlowStep, Fresh
    <3>2. Consent(r.origin, DOMAIN r.targets)
      BY <3>1, <1>3 DEF Created, ConsentInv
    <3> QED BY <1>1, <3>2
  <2> QED BY <2>1, <2>2
<1> QED BY <1>4, <1>5, <1>6, <1>7 DEF ConsentInv

\* A token moves from one stage to the next and is never in two.
LEMMA TokenPreserved ==
  ASSUME TokenInv, FlowStep
  PROVE  TokenInv'
<1>1. /\ selections \in Nat /\ selections' \in Nat /\ selections' >= selections
      /\ \A x \in looking \cup pending \cup rounds : x.token \in 1..selections
  BY DEF TokenInv, FlowStep
<1>2. \A look \in looking' \ looking :
        look.token = selections + 1 /\ selections' = selections + 1
  BY DEF FlowStep, Chosen
<1>3. \A p \in pending' \ pending : \E look \in looking \ looking' : p.token = look.token
  BY DEF FlowStep, Stored
<1>4. \A r \in rounds' \ rounds : \E p \in pending \ pending' : r.token = p.token
  BY DEF FlowStep, Created, Fresh
<1>5. \A x \in looking' \cup pending' \cup rounds' : x.token \in 1..selections'
  BY <1>1, <1>2, <1>3, <1>4
<1>6. \A l1, l2 \in looking' : l1.token = l2.token => l1 = l2
  BY <1>1, <1>2 DEF TokenInv, FlowStep
<1>7. \A p1, p2 \in pending' : p1.token = p2.token => p1 = p2
  BY <1>3 DEF TokenInv, FlowStep
<1>8. \A r1, r2 \in rounds' : r1.token = r2.token => r1 = r2
  BY <1>4 DEF TokenInv, FlowStep
<1>9. \A look \in looking', p \in pending' : look.token # p.token
  BY <1>1, <1>2, <1>3 DEF TokenInv
<1>10. \A look \in looking', r \in rounds' : look.token # r.token
  BY <1>1, <1>2, <1>4 DEF TokenInv
<1>11. \A p \in pending', r \in rounds' : p.token # r.token
  BY <1>3, <1>4 DEF TokenInv
<1> QED BY <1>1, <1>5, <1>6, <1>7, <1>8, <1>9, <1>10, <1>11 DEF TokenInv

\* Only a fresh selection becomes a round.
LEMMA AgePreserved ==
  ASSUME AgeInv, FlowStep
  PROVE  AgeInv'
<1> USE StartPodAssumption
<1>1. clock \in Nat /\ clock' \in Nat
  BY DEF AgeInv, FlowStep
<1>2. \A p \in pending' : p.created \in Nat
  BY DEF AgeInv, FlowStep, Stored
<1>3. ASSUME NEW r \in rounds'
      PROVE  r.created - r.selected <= TTL
  <2>1. CASE r \in rounds
    BY <2>1 DEF AgeInv
  <2>2. CASE r \notin rounds
    <3>1. PICK p \in Fresh : Created(r, p)
      BY <2>2, <1>3 DEF FlowStep
    <3>2. p.created \in Nat /\ p.created >= clock - TTL
      BY <3>1 DEF Fresh, AgeInv
    <3> QED BY <1>1, <3>1, <3>2 DEF Created
  <2> QED BY <2>1, <2>2
<1> QED BY <1>1, <1>2, <1>3 DEF AgeInv

-----------------------------------------------------------------------------
(* Types.                                                                  *)

Pendings == [token : 1..MaxSelections, organizer : Organizers, origin : Origins,
             guilds : SUBSET Guilds, deadline : Deadlines, created : 0..MaxClock]

Looks == [menu : Menus, guilds : SUBSET Guilds, token : 1..MaxSelections]

RoundOK(r) ==
  /\ r.organizer \in Organizers /\ r.origin \in Origins
  /\ DOMAIN r.targets \subseteq Guilds
  /\ \A g \in DOMAIN r.targets : r.targets[g] \in Channels
  /\ r.deadline \in Deadlines /\ r.created \in 0..MaxClock

FlowTypeOK ==
  /\ clock \in 0..MaxClock
  /\ menus \subseteq Menus
  /\ looking \subseteq Looks
  /\ selections \in 0..MaxSelections
  /\ pending \subseteq Pendings
  /\ nextNumber \in [Organizers -> Nat \ {0}]
  /\ \A r \in rounds : RoundOK(r)

LEMMA TypeOKParts == TypeOK <=> GuildTypeOK /\ FlowTypeOK
BY DEF TypeOK, FlowTypeOK, Looks, Pendings, RoundOK

\* Every step of the flow keeps its types.
LEMMA FlowTypePreserved ==
  ASSUME GuildTypeOK, FlowTypeOK, FlowNext \/ UNCHANGED flowVars
  PROVE  FlowTypeOK'
<1> USE StartPodAssumption
<1>1. ASSUME NEW o \in Organizers, NEW origin \in Origins, OfferGuilds(o, origin)
      PROVE  FlowTypeOK'
  <2>1. PICK duration \in Durations :
          /\ Allowed(duration)
          /\ menus' = menus \cup
               {[organizer |-> o, origin |-> origin, offered |-> Eligible(origin),
                 deadline |-> IF duration = None THEN None ELSE clock + duration]}
    BY <1>1 DEF OfferGuilds
  <2> DEFINE deadline == IF duration = None THEN None ELSE clock + duration
  <2>2. deadline \in Deadlines
    BY <2>1 DEF Allowed, Deadlines, FlowTypeOK
  <2>3. Eligible(origin) \in SUBSET Guilds
    BY DEF Eligible, Active
  <2>4. menus' \subseteq Menus
    <3> HIDE DEF deadline
    <3>1. [organizer |-> o, origin |-> origin, offered |-> Eligible(origin),
           deadline |-> deadline] \in Menus
      BY <2>2, <2>3 DEF Menus
    <3> QED BY <3>1, <2>1 DEF FlowTypeOK, deadline
  <2> QED BY <1>1, <2>4 DEF OfferGuilds, FlowTypeOK
<1>2. ASSUME NEW menu \in menus, SelectGuilds(menu)
      PROVE  FlowTypeOK'
  <2>1. menu \in Menus /\ menu.offered \subseteq Guilds
    BY DEF FlowTypeOK, Menus
  <2>2. selections + 1 \in 1..MaxSelections /\ selections' = selections + 1
    BY <1>2 DEF SelectGuilds, FlowTypeOK
  <2>3. PICK chosen \in SUBSET menu.offered :
          looking' = looking \cup {[menu |-> menu, guilds |-> chosen, token |-> selections + 1]}
    BY <1>2 DEF SelectGuilds
  <2>4. looking' \subseteq Looks
    BY <2>1, <2>2, <2>3 DEF Looks, FlowTypeOK
  <2> QED BY <1>2, <2>2, <2>4 DEF SelectGuilds, FlowTypeOK
<1>3. ASSUME NEW look \in looking, GuildNamesAnswered(look)
      PROVE  FlowTypeOK'
  <2> DEFINE p == [token |-> look.token, organizer |-> look.menu.organizer,
                   origin |-> look.menu.origin, guilds |-> look.guilds,
                   deadline |-> look.menu.deadline, created |-> clock]
  <2>1. look \in Looks /\ look.menu \in Menus
    BY DEF FlowTypeOK, Looks
  <2>2. p \in Pendings
    BY <2>1 DEF FlowTypeOK, Looks, Menus, Pendings
  <2>3. pending' = Fresh \cup {p} /\ menus' \subseteq menus /\ looking' \subseteq looking
        /\ UNCHANGED <<clock, selections, nextNumber, rounds>>
    BY <1>3 DEF GuildNamesAnswered
  <2> HIDE DEF p
  <2> QED BY <2>2, <2>3 DEF FlowTypeOK, Fresh
<1>4. ASSUME NEW p \in pending, Confirm(p)
      PROVE  FlowTypeOK'
  <2>1. p \in Pendings
    BY DEF FlowTypeOK
  <2>2. /\ p.organizer \in Organizers /\ p.origin \in Origins
        /\ p.guilds \subseteq Guilds /\ p.deadline \in Deadlines
    BY <2>1 DEF Pendings
  <2>3. /\ DOMAIN Targets(p.guilds) \subseteq Guilds
        /\ \A g \in DOMAIN Targets(p.guilds) : Targets(p.guilds)[g] \in Channels
    <3>1. ASSUME NEW g \in Active
          PROVE  subscription[g].channel \in Channels
      BY DEF Active, GuildTypeOK, Unknown, Rows
    <3> QED BY <2>2, <3>1 DEF Targets
  <2>4. nextNumber' \in [Organizers -> Nat \ {0}]
    <3>1. nextNumber' = [nextNumber EXCEPT ![p.organizer] = nextNumber[p.organizer] + 1]
      BY <1>4 DEF Confirm, Increment
    <3>2. nextNumber[p.organizer] + 1 \in Nat \ {0}
      BY <2>2 DEF FlowTypeOK
    <3> QED BY <3>1, <3>2 DEF FlowTypeOK
  <2>5. \A r \in rounds' : RoundOK(r)
    <3>1. ASSUME NEW r \in rounds' \ rounds
          PROVE  RoundOK(r)
      <4>1. /\ r.organizer = p.organizer /\ r.origin = p.origin
            /\ r.targets = Targets(p.guilds) /\ r.deadline = p.deadline
            /\ r.created = clock
        BY <1>4 DEF Confirm
      <4> QED BY <4>1, <2>2, <2>3 DEF RoundOK, FlowTypeOK
    <3> QED BY <3>1 DEF FlowTypeOK
  <2>6. pending' \subseteq pending /\ UNCHANGED <<clock, menus, looking, selections>>
    BY <1>4 DEF Confirm, Used, Fresh
  <2> QED BY <2>4, <2>5, <2>6 DEF FlowTypeOK
<1>5. ASSUME NEW p \in pending, CancelSelection(p)
      PROVE  FlowTypeOK'
  BY <1>5 DEF CancelSelection, FlowTypeOK
<1>6. CASE ConfirmExpired
  BY <1>6 DEF ConfirmExpired, FlowTypeOK, Fresh
<1>7. CASE ClockAdvances
  BY <1>7 DEF ClockAdvances, FlowTypeOK
<1>8. CASE Evict
  BY <1>8 DEF Evict, FlowTypeOK
<1>9. CASE UNCHANGED flowVars
  BY <1>9 DEF flowVars, FlowTypeOK
<1> QED BY <1>1, <1>2, <1>3, <1>4, <1>5, <1>6, <1>7, <1>8, <1>9 DEF FlowNext

LEMMA TypePreserved ==
  ASSUME GuildTypeOK, FlowTypeOK, [Next]_vars
  PROVE  (GuildTypeOK /\ FlowTypeOK)'
<1>1. [GuildNext]_guildVars /\ (FlowNext \/ UNCHANGED flowVars)
  BY DEF Next, vars
<1> QED BY <1>1, NextGuildStep, FlowTypePreserved

-----------------------------------------------------------------------------
(* Numbers.                                                                *)

\* A new round takes the number its organizer's row names, which no round has.
LEMMA NumberPreserved ==
  ASSUME FlowTypeOK, NumbersAreDistinct, [Next]_vars
  PROVE  NumbersAreDistinct'
<1>1. CASE UNCHANGED <<rounds, nextNumber>>
  BY <1>1 DEF NumbersAreDistinct
<1>2. ASSUME NEW p \in pending, Confirm(p)
      PROVE  NumbersAreDistinct'
  <2> DEFINE o == p.organizer
             new == [organizer |-> p.organizer, number |-> nextNumber'[p.organizer] - 1,
                     origin |-> p.origin, targets |-> Targets(p.guilds),
                     deadline |-> p.deadline, created |-> clock, token |-> p.token,
                     selected |-> p.created]
  <2>1. /\ o \in Organizers
        /\ nextNumber \in [Organizers -> Nat \ {0}]
        /\ nextNumber' = [nextNumber EXCEPT ![o] = nextNumber[o] + 1]
        /\ rounds' = rounds \cup {new} \/ rounds' = rounds
    BY <1>2 DEF Confirm, Increment, FlowTypeOK, Pendings
  <2>2. new.organizer = o /\ new.number = nextNumber[o]
    BY <2>1
  <2> HIDE DEF o, new
  <2>3. \A r \in rounds : r.organizer \in Organizers
    BY DEF FlowTypeOK, RoundOK
  <2>4. \A r \in rounds : r.number \in 1..(nextNumber[r.organizer] - 1)
    BY DEF NumbersAreDistinct
  <2>5. \A x \in Organizers :
          /\ nextNumber[x] \in Nat \ {0}
          /\ nextNumber'[x] = IF x = o THEN nextNumber[x] + 1 ELSE nextNumber[x]
    BY <2>1
  <2>6. \A r \in rounds : r.number \in 1..(nextNumber'[r.organizer] - 1)
    BY <2>3, <2>4, <2>5
  <2>7. new.number \in 1..(nextNumber'[new.organizer] - 1)
    BY <2>1, <2>2, <2>5
  <2>8. \A r \in rounds : r.organizer = o => r.number # new.number
    BY <2>1, <2>2, <2>4, <2>5
  <2> QED BY <2>1, <2>2, <2>6, <2>7, <2>8 DEF NumbersAreDistinct
<1>3. [Next]_vars => \/ UNCHANGED <<rounds, nextNumber>>
                     \/ \E p \in pending : Confirm(p)
  BY DEF Next, vars, flowVars, FlowNext, OfferGuilds, SelectGuilds, GuildNamesAnswered,
         CancelSelection, ConfirmExpired, ClockAdvances, Evict
<1> QED BY <1>1, <1>2, <1>3

-----------------------------------------------------------------------------
(* The theorems.                                                           *)

FlowInv ==
  /\ GuildTypeOK /\ FlowTypeOK
  /\ ConsentInv /\ TokenInv /\ AgeInv /\ NumbersAreDistinct

LEMMA FlowInitInvariant == Init => FlowInv
<1> SUFFICES ASSUME Init PROVE FlowInv
  OBVIOUS
<1> USE StartPodAssumption
<1>1. GuildTypeOK
  BY GuildInitInvariant DEF Init
<1>2. FlowTypeOK /\ ConsentInv /\ TokenInv /\ AgeInv
  BY DEF Init, FlowTypeOK, ConsentInv, TokenInv, AgeInv
<1>3. NumbersAreDistinct
  BY DEF Init, NumbersAreDistinct
<1> QED BY <1>1, <1>2, <1>3 DEF FlowInv

\* The inductive invariant: consent, one place for each selection, its age,
\* and the numbers given so far.
THEOREM FlowInvariant == Spec => []FlowInv
<1>1. FlowInv /\ [Next]_vars => FlowInv'
  BY NextFlowStep, TypePreserved, ConsentPreserved, TokenPreserved, AgePreserved,
     NumberPreserved DEF FlowInv
<1> QED BY <1>1, FlowInitInvariant, PTL DEF Spec

\* The rows and what travels between them keep their types.
THEOREM FlowTypeCorrect == Spec => []TypeOK
<1>1. FlowInv => TypeOK
  BY TypeOKParts DEF FlowInv
<1> QED BY <1>1, FlowInvariant, PTL

\* Whatever the flow does, the guilds' rows and grants change only by their
\* own commands: StartPod is an instance of GuildTrust, and what is proved of
\* that holds here.
THEOREM FlowKeepsTrust == Spec => GuildSpec
<1>1. Init => GuildInit
  BY DEF Init
<1>2. [Next]_vars => [GuildNext]_guildVars
  BY DEF Next, vars
<1> QED BY <1>1, <1>2, PTL DEF Spec, GuildSpec

\* A grant has a row, in every behaviour of the whole flow.
THEOREM FlowGrantsHaveRows == Spec => []TrustHasRow
BY FlowKeepsTrust, GrantsHaveRows, PTL

\* No round is posted in a guild that has not consented to its origin.
THEOREM TargetsConsent == Spec => []TargetsTrustOrigin
<1>1. FlowInv => TargetsTrustOrigin
  BY DEF FlowInv, ConsentInv, Consent, TargetsTrustOrigin
<1> QED BY <1>1, FlowInvariant, PTL

\* Send creates one round however often it is pressed.
THEOREM SendOnce == Spec => []OneRoundPerSelection
<1>1. FlowInv => OneRoundPerSelection
  BY DEF FlowInv, TokenInv, OneRoundPerSelection
<1> QED BY <1>1, FlowInvariant, PTL

\* A selection older than its lifetime starts nothing.
THEOREM SendInTime == Spec => []NoStaleSelection
<1>1. FlowInv => NoStaleSelection
  BY DEF FlowInv, AgeInv, NoStaleSelection
<1> QED BY <1>1, FlowInvariant, PTL

\* No two rounds of an organizer have the same number, though a failure may
\* skip one (services/pods.ts:64-77).
THEOREM Numbering == Spec => []NumbersAreDistinct
<1>1. FlowInv => NumbersAreDistinct
  BY DEF FlowInv
<1> QED BY <1>1, FlowInvariant, PTL

\* Who set a guild up stays its installer, in every behaviour of the flow.
THEOREM FlowKeepsInstaller == Spec => InstallerIsFirst
BY FlowKeepsTrust, InstallerStays, PTL

\* A round's targets are the guilds subscribed when it is created, in the
\* channels they have by then.
THEOREM TargetsCurrent == Spec => TargetsAreCurrent
<1>1. FlowInv /\ [Next]_vars =>
        [\A r \in rounds' \ rounds : \A g \in DOMAIN r.targets :
           /\ subscription[g].state = "active"
           /\ r.targets[g] = subscription[g].channel]_vars
  <2> SUFFICES ASSUME [Next]_vars, NEW r \in rounds' \ rounds, NEW g \in DOMAIN r.targets
               PROVE  /\ subscription[g].state = "active"
                      /\ r.targets[g] = subscription[g].channel
    OBVIOUS
  <2>1. PICK p \in pending : Confirm(p)
    BY DEF Next, vars, flowVars, FlowNext, OfferGuilds, SelectGuilds, GuildNamesAnswered,
           CancelSelection, ConfirmExpired, ClockAdvances, Evict
  <2>2. r.targets = Targets(p.guilds)
    BY <2>1 DEF Confirm
  <2> QED BY <2>2 DEF Targets, Active
<1> QED BY <1>1, FlowInvariant, PTL DEF Spec, TargetsAreCurrent
=============================================================================
