------------------------------ MODULE Migrations ------------------------------
(***************************************************************************)
(* The schema migrations the object runs before it serves anything         *)
(* (storage/migrate.ts, storage/schema.ts).                                *)
(*                                                                         *)
(* A deployment brings a longer MIGRATIONS list and restarts the object,   *)
(* which may die between any two statements.  transactionSync keeps a      *)
(* migration's statements and its record together.                         *)
(***************************************************************************)
EXTENDS Integers, Sequences, FiniteSets

CONSTANT Guilds  \* guilds that may have a subscription row

VARIABLES
  deployed,  \* the length of the deployed code's MIGRATIONS
  stored,    \* what storage holds
  phase,     \* the object is down, migrating, or serving
  tx,        \* the migration whose transaction is open, or 0
  at,        \* its next statement
  work,      \* storage as that transaction sees it
  failed     \* whether a statement has ever been rejected

vars == <<deployed, stored, phase, tx, at, work, failed>>

Create(table) == [op |-> "create", name |-> table]
Drop(column)  == [op |-> "drop", name |-> column]
FlipOpen      == [op |-> "update", name |-> "posting_policy"]

\* The columns of organizers that an earlier service needed, all NOT NULL.
PtpColumns == {"username", "encrypted_token", "expires_at", "linked_at"}

MIGRATIONS ==
  << << Create("organizers"), Create("guild_subscriptions"),
        Create("guild_organizer_allowlist"), Create("guild_origin_allowlist"),
        Create("pod_rounds"), Create("pod_round_targets"),
        Create("pod_round_signups") >>,
     << Create("pending_start_pods") >>,
     << Drop("username"), Drop("encrypted_token"), Drop("expires_at"),
        Drop("linked_at"), Create("guild_niamos_tokens") >>,
     << FlipOpen >> >>

Latest == Len(MIGRATIONS)

Tables == {"organizers", "guild_subscriptions", "guild_organizer_allowlist",
           "guild_origin_allowlist", "pod_rounds", "pod_round_targets",
           "pod_round_signups", "pending_start_pods", "guild_niamos_tokens"}

Policies == {"none", "ALLOWLIST", "OPEN"}

Empty == [tables |-> {}, columns |-> {}, policy |-> [g \in Guilds |-> "none"],
          recorded |-> {}]

Init ==
  /\ deployed \in 1..Latest
  /\ stored = Empty /\ work = Empty
  /\ phase = "down" /\ tx = 0 /\ at = 1
  /\ failed = FALSE

-----------------------------------------------------------------------------

\* IF NOT EXISTS makes a CREATE of an existing table do nothing; a DROP
\* COLUMN of a missing one is rejected.
Rejected(statement, db) == statement.op = "drop" /\ statement.name \notin db.columns

Exec(statement, db) ==
  CASE statement.op = "create" ->
         [db EXCEPT !.tables = @ \cup {statement.name},
                    !.columns = IF statement.name = "organizers"
                                   /\ "organizers" \notin db.tables
                                THEN PtpColumns ELSE @]
    [] statement.op = "drop"   -> [db EXCEPT !.columns = @ \ {statement.name}]
    [] statement.op = "update" ->
         [db EXCEPT !.policy = [g \in Guilds |-> IF @[g] = "OPEN" THEN "ALLOWLIST" ELSE @[g]]]

\* What outlives the object of a transaction that has not committed.
Durable_AtOnce(before, during) == during
Durable(before, during) == before

Record_Index(ids, id) == ids \cup {id - 1}
Record(ids, id) == ids \cup {id}

\* The migrations runMigrations still has to apply.
Due_Newest == {deployed} \ stored.recorded
Due == (1..deployed) \ stored.recorded

\* The constructor runs; blockConcurrencyWhile holds every request back.
Start ==
  /\ phase = "down"
  /\ phase' = "migrating"
  /\ UNCHANGED <<deployed, stored, tx, at, work, failed>>

BeginMigration ==
  /\ phase = "migrating" /\ tx = 0 /\ Due # {}
  /\ tx' = CHOOSE id \in Due : \A other \in Due : id <= other
  /\ at' = 1 /\ work' = stored
  /\ UNCHANGED <<deployed, stored, phase, failed>>

\* The next statement runs, or it throws: then the transaction rolls back
\* and the object is reset.
ExecStatement ==
  /\ tx # 0 /\ at <= Len(MIGRATIONS[tx])
  /\ IF Rejected(MIGRATIONS[tx][at], work)
     THEN /\ failed' = TRUE
          /\ phase' = "down" /\ tx' = 0 /\ at' = 1
          /\ UNCHANGED <<stored, work>>
     ELSE /\ work' = Exec(MIGRATIONS[tx][at], work)
          /\ stored' = Durable(stored, work')
          /\ at' = at + 1
          /\ UNCHANGED <<phase, tx, failed>>
  /\ UNCHANGED deployed

CommitMigration ==
  /\ tx # 0 /\ at > Len(MIGRATIONS[tx])
  /\ stored' = [work EXCEPT !.recorded = Record(@, tx)]
  /\ tx' = 0 /\ at' = 1
  /\ UNCHANGED <<deployed, phase, work, failed>>

Serve ==
  /\ phase = "migrating" /\ tx = 0 /\ Due = {}
  /\ phase' = "serving"
  /\ UNCHANGED <<deployed, stored, tx, at, work, failed>>

\* The object is evicted or dies.
Crash ==
  /\ phase # "down"
  /\ phase' = "down" /\ tx' = 0 /\ at' = 1
  /\ UNCHANGED <<deployed, stored, work, failed>>

\* A newer version replaces the code; versions are not rolled back.
Deploy ==
  /\ deployed < Latest
  /\ deployed' = deployed + 1
  /\ phase' = "down" /\ tx' = 0 /\ at' = 1
  /\ UNCHANGED <<stored, work, failed>>

\* A guild subscribes: versions before migration 4 still offered OPEN.
SubscribeGuild(g) ==
  /\ phase = "serving"
  /\ \E policy \in {"ALLOWLIST"} \cup (IF deployed < 4 THEN {"OPEN"} ELSE {}) :
       stored' = [stored EXCEPT !.policy[g] = policy]
  /\ UNCHANGED <<deployed, phase, tx, at, work, failed>>

Next ==
  \/ Start \/ BeginMigration \/ ExecStatement \/ CommitMigration \/ Serve
  \/ Crash \/ Deploy
  \/ \E g \in Guilds : SubscribeGuild(g)

Spec == Init /\ [][Next]_vars

-----------------------------------------------------------------------------
(* Properties.                                                             *)

Databases == [tables : SUBSET Tables, columns : SUBSET PtpColumns,
              policy : [Guilds -> Policies], recorded : SUBSET (1..Latest)]

TypeOK ==
  /\ deployed \in 1..Latest
  /\ stored \in Databases /\ work \in Databases
  /\ phase \in {"down", "migrating", "serving"}
  /\ tx \in 0..Latest /\ at \in 1..8
  /\ failed \in BOOLEAN

\* No start is rejected: DROP COLUMN, the only statement that cannot be run
\* twice, is never met by a schema a crash or an upgrade has left half done.
NoStatementFails == ~failed

\* Whatever crashes and upgrades came before, a version that serves finds
\* the tables it reads, can insert an organizer by id and number alone, and
\* meets no policy it no longer understands.
ServesItsSchema ==
  phase = "serving" =>
    /\ {MIGRATIONS[1][s].name : s \in DOMAIN MIGRATIONS[1]} \subseteq stored.tables
    /\ deployed >= 2 => "pending_start_pods" \in stored.tables
    /\ deployed >= 3 => /\ stored.columns = {}
                        /\ "guild_niamos_tokens" \in stored.tables
    /\ deployed >= 4 => \A g \in Guilds : stored.policy[g] # "OPEN"
=============================================================================
