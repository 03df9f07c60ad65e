--------------------------- MODULE MigrationsProofs ---------------------------
(* No migration is ever rejected, and what serves finds its schema: for    *)
(* any number of guilds, whatever crashes and deployments.                 *)
EXTENDS Migrations, TLAPS

-----------------------------------------------------------------------------
(* How far a database has come: r migrations recorded, k statements of the *)
(* next one run.                                                           *)

\* Statement s of migration m is behind such a database.
Behind(m, s, r, k) == m <= r \/ (m = r + 1 /\ s <= k)

ColumnsAt(r, k) ==
  IF (r = 0 /\ k = 0) \/ r >= 3 THEN {}
  ELSE IF r = 2 THEN {c \in PtpColumns : \A s \in 1..k : MIGRATIONS[3][s].name # c}
  ELSE PtpColumns

TablesAt(tables, r, k) ==
  /\ "organizers" \in tables <=> Behind(1, 1, r, k)
  /\ \A m \in 1..4 : \A s \in DOMAIN MIGRATIONS[m] :
       MIGRATIONS[m][s].op = "create" /\ Behind(m, s, r, k) =>
         MIGRATIONS[m][s].name \in tables

PolicyAt(policy, r, k) == Behind(4, 1, r, k) => \A g \in Guilds : policy[g] # "OPEN"

At(db, r, k) ==
  /\ db.recorded = 1..r
  /\ TablesAt(db.tables, r, k)
  /\ db.columns = ColumnsAt(r, k)
  /\ PolicyAt(db.policy, r, k)

\* The open transaction applies the migration after those recorded.
OpenAt(r) ==
  tx # 0 =>
    /\ phase = "migrating"
    /\ tx = r + 1 /\ r < deployed
    /\ at \in 1..(Len(MIGRATIONS[tx]) + 1)
    /\ At(work, r, at - 1)

Progress(r) ==
  /\ At(stored, r, 0)
  /\ OpenAt(r)
  /\ phase = "serving" => r = deployed

MigrationInv ==
  /\ TypeOK /\ NoStatementFails
  /\ \E r \in 0..deployed : Progress(r)

-----------------------------------------------------------------------------
(* The list.                                                               *)

LEMMA ListLengths ==
  /\ Latest = 4 /\ DOMAIN MIGRATIONS = 1..4
  /\ Len(MIGRATIONS[1]) = 7 /\ DOMAIN MIGRATIONS[1] = 1..7
  /\ Len(MIGRATIONS[2]) = 1 /\ DOMAIN MIGRATIONS[2] = 1..1
  /\ Len(MIGRATIONS[3]) = 5 /\ DOMAIN MIGRATIONS[3] = 1..5
  /\ Len(MIGRATIONS[4]) = 1 /\ DOMAIN MIGRATIONS[4] = 1..1
  BY DEF MIGRATIONS, Latest

LEMMA Creations ==
  /\ \A s \in 1..7 : /\ MIGRATIONS[1][s].op = "create"
                     /\ MIGRATIONS[1][s].name \in Tables
                     /\ (MIGRATIONS[1][s].name = "organizers") <=> s = 1
  /\ MIGRATIONS[2][1] = [op |-> "create", name |-> "pending_start_pods"]
  /\ MIGRATIONS[3][5] = [op |-> "create", name |-> "guild_niamos_tokens"]
  /\ MIGRATIONS[4][1] = [op |-> "update", name |-> "posting_policy"]
  BY DEF MIGRATIONS, Create, FlipOpen, Tables

LEMMA Drops ==
  /\ \A s \in 1..4 : MIGRATIONS[3][s].op = "drop"
  /\ {MIGRATIONS[3][s].name : s \in 1..4} = PtpColumns
  /\ \A s, v \in 1..4 : MIGRATIONS[3][s].name = MIGRATIONS[3][v].name => s = v
  /\ "guild_niamos_tokens" \notin PtpColumns
  BY DEF MIGRATIONS, Drop, Create, PtpColumns

-----------------------------------------------------------------------------
(* One statement.                                                          *)

LEMMA DatabaseFields ==
  ASSUME NEW db \in Databases
  PROVE  /\ db.tables \subseteq Tables /\ db.columns \subseteq PtpColumns
         /\ db.policy \in [Guilds -> Policies] /\ db.recorded \subseteq 1..4
  BY ListLengths DEF Databases

LEMMA CreateRuns ==
  ASSUME NEW db \in Databases, NEW st, st.op = "create", st.name \in Tables,
         (st.name = "organizers" /\ "organizers" \notin db.tables)
           <=> st.name = "organizers"
  PROVE  /\ ~Rejected(st, db)
         /\ Exec(st, db) \in Databases
         /\ Exec(st, db).tables = db.tables \cup {st.name}
         /\ Exec(st, db).columns = IF st.name = "organizers" THEN PtpColumns ELSE db.columns
         /\ Exec(st, db).policy = db.policy /\ Exec(st, db).recorded = db.recorded
  BY DEF Rejected, Exec, Databases

LEMMA DropRuns ==
  ASSUME NEW db \in Databases, NEW st, st.op = "drop", st.name \in db.columns
  PROVE  /\ ~Rejected(st, db)
         /\ Exec(st, db) \in Databases
         /\ Exec(st, db).columns = db.columns \ {st.name}
         /\ Exec(st, db).tables = db.tables
         /\ Exec(st, db).policy = db.policy /\ Exec(st, db).recorded = db.recorded
  BY DEF Rejected, Exec, Databases

LEMMA UpdateRuns ==
  ASSUME NEW db \in Databases, NEW st, st.op = "update"
  PROVE  /\ ~Rejected(st, db)
         /\ Exec(st, db) \in Databases
         /\ \A g \in Guilds : Exec(st, db).policy[g] # "OPEN"
         /\ Exec(st, db).tables = db.tables /\ Exec(st, db).columns = db.columns
         /\ Exec(st, db).recorded = db.recorded
<1> DEFINE flipped == [g \in Guilds |->
                         IF db.policy[g] = "OPEN" THEN "ALLOWLIST" ELSE db.policy[g]]
<1>1. flipped \in [Guilds -> Policies] /\ \A g \in Guilds : flipped[g] # "OPEN"
  BY DatabaseFields DEF Policies
<1>2. Exec(st, db) = [db EXCEPT !.policy = flipped]
  BY DEF Exec
<1> HIDE DEF flipped
<1> QED
  BY <1>1, <1>2 DEF Rejected, Databases

\* A statement that has its turn is accepted, and brings the database on.
LEMMA StatementRuns ==
  ASSUME NEW db \in Databases, NEW r \in 0..3, NEW k \in Nat,
         k + 1 \in DOMAIN MIGRATIONS[r + 1], At(db, r, k)
  PROVE  LET st == MIGRATIONS[r + 1][k + 1]
         IN  ~Rejected(st, db) /\ Exec(st, db) \in Databases /\ At(Exec(st, db), r, k + 1)
<1> DEFINE st == MIGRATIONS[r + 1][k + 1]
           new == Exec(st, db)
<1>1. \A m, s \in Nat : Behind(m, s, r, k + 1) <=>
        Behind(m, s, r, k) \/ (m = r + 1 /\ s = k + 1)
  BY DEF Behind
<1>2. /\ db.recorded = 1..r /\ TablesAt(db.tables, r, k)
      /\ db.columns = ColumnsAt(r, k) /\ PolicyAt(db.policy, r, k)
  BY DEF At
\* The tables, whatever the statement is.
<1>3. ASSUME new.tables = IF st.op = "create" THEN db.tables \cup {st.name} ELSE db.tables,
             (st.op = "create" /\ st.name = "organizers") <=> (r = 0 /\ k = 0)
      PROVE  TablesAt(new.tables, r, k + 1)
  <2> HIDE DEF new
  <2>1. Behind(1, 1, r, k + 1) <=> Behind(1, 1, r, k) \/ (r = 0 /\ k = 0)
    BY <1>1
  <2>2. "organizers" \in new.tables <=> Behind(1, 1, r, k + 1)
    BY <1>2, <1>3, <2>1 DEF TablesAt
  <2>3. ASSUME NEW m \in 1..4, NEW s \in DOMAIN MIGRATIONS[m],
               MIGRATIONS[m][s].op = "create", Behind(m, s, r, k + 1)
        PROVE  MIGRATIONS[m][s].name \in new.tables
    <3>1. s \in Nat
      BY ListLengths
    <3>2. Behind(m, s, r, k) \/ (m = r + 1 /\ s = k + 1)
      BY <1>1, <2>3, <3>1
    <3> QED
      BY <1>2, <1>3, <2>3, <3>2 DEF TablesAt
  <2> QED
    BY <2>2, <2>3 DEF TablesAt
<1>4. ASSUME st.op # "update", new.policy = db.policy, r # 3
      PROVE  PolicyAt(new.policy, r, k + 1)
  BY <1>2, <1>4 DEF PolicyAt, Behind
<1>5. CASE r = 0
  <2>1. /\ k + 1 \in 1..7
        /\ st.op = "create" /\ st.name \in Tables
        /\ st.name = "organizers" <=> k = 0
    BY <1>5, ListLengths, Creations
  <2>2. "organizers" \in db.tables <=> k # 0
    BY <1>2, <1>5 DEF TablesAt, Behind
  <2>3. /\ ColumnsAt(r, k + 1) = PtpColumns
        /\ k # 0 => db.columns = PtpColumns
    BY <1>2, <1>5 DEF ColumnsAt
  <2> HIDE DEF st, new
  <2>4. /\ ~Rejected(st, db) /\ new \in Databases
        /\ new.tables = db.tables \cup {st.name}
        /\ new.columns = IF st.name = "organizers" THEN PtpColumns ELSE db.columns
        /\ new.policy = db.policy /\ new.recorded = db.recorded
    BY <2>1, <2>2, CreateRuns DEF new
  <2>5. TablesAt(new.tables, r, k + 1)
    BY <1>3, <1>5, <2>1, <2>4
  <2>6. PolicyAt(new.policy, r, k + 1)
    BY <1>4, <1>5, <2>1, <2>4
  <2> QED
    BY <1>2, <2>1, <2>3, <2>4, <2>5, <2>6 DEF At, st, new
<1>6. CASE r = 1 \/ (r = 2 /\ k = 4)
  <2>1. /\ k + 1 \in {1, 5} /\ (r = 1 => k = 0)
        /\ st.op = "create" /\ st.name \in Tables
        /\ st.name \notin PtpColumns \cup {"organizers"}
    BY <1>6, ListLengths, Creations DEF Tables, PtpColumns
  <2>2. ColumnsAt(r, k + 1) = ColumnsAt(r, k)
    <3>1. CASE r = 1
      BY <3>1 DEF ColumnsAt
    <3>2. CASE r = 2 /\ k = 4
      BY <2>1, <3>2 DEF ColumnsAt
    <3> QED
      BY <1>6, <3>1, <3>2
  <2> HIDE DEF st, new
  <2>4. /\ ~Rejected(st, db) /\ new \in Databases
        /\ new.tables = db.tables \cup {st.name}
        /\ new.columns = db.columns
        /\ new.policy = db.policy /\ new.recorded = db.recorded
    BY <2>1, CreateRuns DEF new
  <2>5. TablesAt(new.tables, r, k + 1)
    BY <1>3, <1>6, <2>1, <2>4
  <2>6. PolicyAt(new.policy, r, k + 1)
    BY <1>4, <1>6, <2>1, <2>4
  <2> QED
    BY <1>2, <2>2, <2>4, <2>5, <2>6 DEF At, st, new
<1>7. CASE r = 2 /\ k # 4
  <2>1. /\ k \in 0..3 /\ k + 1 \in 1..4 /\ st = MIGRATIONS[3][k + 1]
    BY <1>7, ListLengths
  <2>2. /\ st.op = "drop" /\ st.name \in PtpColumns
        /\ \A s \in 1..k : MIGRATIONS[3][s].name # st.name
    BY <2>1, Drops
  <2>3. /\ ColumnsAt(r, k) = {c \in PtpColumns : \A s \in 1..k : MIGRATIONS[3][s].name # c}
        /\ ColumnsAt(r, k + 1) =
             {c \in PtpColumns : \A s \in 1..(k + 1) : MIGRATIONS[3][s].name # c}
    BY <1>7 DEF ColumnsAt
  <2>4. st.name \in db.columns /\ ColumnsAt(r, k + 1) = db.columns \ {st.name}
    <3>1. 1..(k + 1) = (1..k) \cup {k + 1}
      OBVIOUS
    <3> HIDE DEF st, new
    <3> QED
      BY <1>2, <2>1, <2>2, <2>3, <3>1
  <2> HIDE DEF st, new
  <2>5. /\ ~Rejected(st, db) /\ new \in Databases
        /\ new.tables = db.tables
        /\ new.columns = db.columns \ {st.name}
        /\ new.policy = db.policy /\ new.recorded = db.recorded
    BY <2>2, <2>4, DropRuns DEF new
  <2>6. TablesAt(new.tables, r, k + 1)
    BY <1>3, <1>7, <2>2, <2>5
  <2>7. PolicyAt(new.policy, r, k + 1)
    BY <1>4, <1>7, <2>2, <2>5
  <2> QED
    BY <1>2, <2>4, <2>5, <2>6, <2>7 DEF At, st, new
<1>8. CASE r = 3
  <2>1. k = 0 /\ st.op = "update"
    BY <1>8, ListLengths, Creations
  <2>2. ColumnsAt(r, k + 1) = ColumnsAt(r, k)
    BY <1>8 DEF ColumnsAt
  <2> HIDE DEF st, new
  <2>3. /\ ~Rejected(st, db) /\ new \in Databases
        /\ \A g \in Guilds : new.policy[g] # "OPEN"
        /\ new.tables = db.tables /\ new.columns = db.columns
        /\ new.recorded = db.recorded
    BY <2>1, UpdateRuns DEF new
  <2>4. TablesAt(new.tables, r, k + 1)
    BY <1>3, <1>8, <2>1, <2>3
  <2> QED
    BY <1>2, <2>2, <2>3, <2>4 DEF At, PolicyAt, st, new
<1> QED
  BY <1>5, <1>6, <1>7, <1>8

\* The last statement of a migration done, its record completes it.
LEMMA CommitRuns ==
  ASSUME NEW db \in Databases, NEW r \in 0..3, At(db, r, Len(MIGRATIONS[r + 1]))
  PROVE  LET new == [db EXCEPT !.recorded = Record(@, r + 1)]
         IN  new \in Databases /\ At(new, r + 1, 0)
<1> DEFINE new == [db EXCEPT !.recorded = Record(@, r + 1)]
           last == Len(MIGRATIONS[r + 1])
<1>1. /\ last \in 1..7 /\ \A s \in DOMAIN MIGRATIONS[r + 1] : s <= last
      /\ r = 0 => last = 7
      /\ r = 1 => last = 1
      /\ r = 2 => last = 5
      /\ r = 3 => last = 1
  BY ListLengths
<1>2. /\ db.recorded = 1..r /\ TablesAt(db.tables, r, last)
      /\ db.columns = ColumnsAt(r, last) /\ PolicyAt(db.policy, r, last)
  BY DEF At
<1> HIDE DEF last
<1>3. /\ new \in Databases
      /\ new.recorded = db.recorded \cup {r + 1}
      /\ new.tables = db.tables /\ new.columns = db.columns /\ new.policy = db.policy
  BY ListLengths DEF Databases, Record
<1> HIDE DEF new
<1>4. new.recorded = 1..(r + 1)
  BY <1>2, <1>3
<1>5. TablesAt(new.tables, r + 1, 0)
  <2>1. Behind(1, 1, r + 1, 0) /\ Behind(1, 1, r, last)
    BY <1>1 DEF Behind
  <2>2. ASSUME NEW m \in 1..4, NEW s \in DOMAIN MIGRATIONS[m], Behind(m, s, r + 1, 0)
        PROVE  Behind(m, s, r, last)
    <3>1. s \in Nat \ {0}
      BY ListLengths
    <3>2. m <= r + 1
      BY <2>2, <3>1 DEF Behind
    <3> QED
      BY <1>1, <3>1, <3>2 DEF Behind
  <2> QED
    BY <1>2, <1>3, <2>1, <2>2 DEF TablesAt
<1>6. ColumnsAt(r + 1, 0) = ColumnsAt(r, last)
  <2>1. CASE r = 2
    <3>1. \A c \in PtpColumns : \E s \in 1..4 : MIGRATIONS[3][s].name = c
      BY Drops
    <3>2. ColumnsAt(2, 5) = {}
      BY <3>1 DEF ColumnsAt
    <3> QED
      BY <1>1, <2>1, <3>2 DEF ColumnsAt
  <2>2. CASE r = 1
    BY <1>1, <2>2 DEF ColumnsAt
  <2>3. CASE r = 0 \/ r = 3
    BY <1>1, <2>3 DEF ColumnsAt
  <2> QED
    BY <2>1, <2>2, <2>3
<1>7. PolicyAt(new.policy, r + 1, 0)
  BY <1>1, <1>2, <1>3 DEF PolicyAt, Behind
<1> QED
  BY <1>2, <1>3, <1>4, <1>5, <1>6, <1>7 DEF At, new

-----------------------------------------------------------------------------
(* The steps.                                                              *)

LEMMA InitialMigrations == Init => MigrationInv
<1> SUFFICES ASSUME Init PROVE MigrationInv
  OBVIOUS
<1>1. Empty \in Databases
  BY DEF Empty, Databases, Policies
<1>2. TypeOK /\ NoStatementFails
  <2>1. failed \in BOOLEAN /\ NoStatementFails
    BY DEF Init, NoStatementFails
  <2> QED
    BY <1>1, <2>1, ListLengths DEF Init, TypeOK
<1>3. At(Empty, 0, 0)
  BY ListLengths DEF Empty, At, TablesAt, PolicyAt, ColumnsAt, Behind
<1>4. Progress(0)
  BY <1>3 DEF Init, Progress, OpenAt
<1> QED
  BY <1>2, <1>4, ListLengths DEF MigrationInv, Init

\* What a step may rely on.
LEMMA MigrationFacts ==
  ASSUME MigrationInv, NEW r \in 0..deployed, Progress(r)
  PROVE  /\ r \in 0..4 /\ deployed \in 1..4
         /\ stored \in Databases /\ work \in Databases /\ stored.recorded = 1..r
         /\ tx # 0 => /\ phase = "migrating" /\ tx = r + 1 /\ r \in 0..3
                      /\ At(work, r, at - 1) /\ at \in 1..(Len(MIGRATIONS[tx]) + 1)
  BY ListLengths DEF MigrationInv, TypeOK, Progress, OpenAt, At

LEMMA StartStep == MigrationInv /\ (Start \/ Serve \/ Crash \/ Deploy) => MigrationInv'
<1> SUFFICES ASSUME MigrationInv, Start \/ Serve \/ Crash \/ Deploy PROVE MigrationInv'
  OBVIOUS
<1>1. PICK r \in 0..deployed : Progress(r)
  BY DEF MigrationInv
<1>2. /\ stored' = stored /\ work' = work /\ failed' = failed
      /\ deployed' \in {deployed, deployed + 1} /\ deployed' \in 1..4
      /\ tx' \in 0..4 /\ at' \in 1..8
      /\ phase' \in {"down", "migrating", "serving"}
  BY MigrationFacts, <1>1, ListLengths DEF Start, Serve, Crash, Deploy, MigrationInv, TypeOK
<1>3. TypeOK' /\ NoStatementFails'
  BY <1>2, ListLengths DEF MigrationInv, TypeOK, NoStatementFails
<1>4. At(stored, r, 0)' /\ r \in 0..deployed'
  BY <1>1, <1>2, MigrationFacts DEF Progress
<1>5. tx' = 0
  BY <1>1, MigrationFacts DEF Start, Serve, Crash, Deploy
<1>6. phase' = "serving" => r = deployed'
  <2>1. ASSUME Serve PROVE r = deployed
    <3>1. deployed \in 1..4 /\ r \in 0..4 /\ stored.recorded = 1..r
      BY <1>1, MigrationFacts
    <3>2. deployed \in 1..r
      BY <2>1, <3>1 DEF Serve, Due
    <3> QED
      BY <1>1, <3>1, <3>2
  <2>2. phase' = "serving" => Serve
    BY DEF Start, Crash, Deploy
  <2>3. ASSUME Serve PROVE deployed' = deployed
    BY <2>3 DEF Serve
  <2> QED
    BY <2>1, <2>2, <2>3
<1> QED
  BY <1>3, <1>4, <1>5, <1>6 DEF MigrationInv, Progress, OpenAt

LEMMA BeginStep == MigrationInv /\ BeginMigration => MigrationInv'
<1> SUFFICES ASSUME MigrationInv, BeginMigration PROVE MigrationInv'
  OBVIOUS
<1>1. PICK r \in 0..deployed : Progress(r)
  BY DEF MigrationInv
<1>2. r \in 0..4 /\ deployed \in 1..4 /\ stored.recorded = 1..r
  BY <1>1, MigrationFacts
<1>3. tx' = r + 1 /\ r < deployed
  <2>1. Due = (r + 1)..deployed /\ Due # {}
    BY <1>2 DEF Due, BeginMigration
  <2>2. r + 1 \in Due /\ \A id \in Due : r + 1 <= id
    BY <1>2, <2>1
  <2>3. tx' \in Due /\ \A other \in Due : tx' <= other
    BY <2>2 DEF BeginMigration
  <2> QED
    BY <1>2, <2>1, <2>2, <2>3
<1>4. /\ UNCHANGED <<deployed, stored, phase, failed>>
      /\ at' = 1 /\ work' = stored /\ phase = "migrating"
  BY DEF BeginMigration
<1>5. TypeOK' /\ NoStatementFails'
  BY <1>2, <1>3, <1>4, ListLengths DEF MigrationInv, TypeOK, NoStatementFails
<1>6. At(stored, r, 0)' /\ At(work, r, 0)'
  <2>1. At(stored, r, 0)
    BY <1>1 DEF Progress
  <2> QED
    BY <1>4, <2>1
<1>7. OpenAt(r)'
  <2>1. Len(MIGRATIONS[r + 1]) \in Nat
    BY <1>2, <1>3, ListLengths
  <2>2. at' = 1 /\ at' - 1 = 0 /\ at' \in 1..(Len(MIGRATIONS[tx']) + 1)
    BY <1>3, <1>4, <2>1
  <2> QED
    BY <1>3, <1>4, <1>6, <2>2 DEF OpenAt
<1> QED
  BY <1>4, <1>5, <1>6, <1>7 DEF MigrationInv, Progress

LEMMA ExecStep == MigrationInv /\ ExecStatement => MigrationInv'
<1> SUFFICES ASSUME MigrationInv, ExecStatement PROVE MigrationInv'
  OBVIOUS
<1> DEFINE st == MIGRATIONS[tx][at]
<1>1. PICK r \in 0..deployed : Progress(r)
  BY DEF MigrationInv
<1>2. /\ tx # 0 /\ at <= Len(MIGRATIONS[tx]) /\ tx = r + 1 /\ r \in 0..3
      /\ At(work, r, at - 1) /\ phase = "migrating"
      /\ at \in Nat \ {0} /\ at \in DOMAIN MIGRATIONS[r + 1] /\ at + 1 \in 1..8
  <2>1. tx # 0 /\ at <= Len(MIGRATIONS[tx])
    BY DEF ExecStatement
  <2>2. /\ tx = r + 1 /\ r \in 0..3 /\ At(work, r, at - 1) /\ phase = "migrating"
        /\ at \in 1..(Len(MIGRATIONS[tx]) + 1)
    BY <1>1, <2>1, MigrationFacts
  <2>3. tx \in 1..4
    BY <2>2
  <2>4. DOMAIN MIGRATIONS[tx] = 1..Len(MIGRATIONS[tx]) /\ Len(MIGRATIONS[tx]) \in 1..7
    BY <2>3, ListLengths
  <2>5. at \in Nat \ {0} /\ at \in DOMAIN MIGRATIONS[tx] /\ at + 1 \in 1..8
    <3>1. PICK last \in 1..7 : last = Len(MIGRATIONS[tx])
      BY <2>4
    <3>2. at \in 1..(last + 1) /\ at <= last
      BY <2>1, <2>2, <3>1
    <3>3. at \in Nat \ {0} /\ at \in 1..last /\ at + 1 \in 1..8
      BY <3>2
    <3> QED
      BY <2>4, <3>1, <3>3
  <2> QED
    BY <2>1, <2>2, <2>5
<1>3. ~Rejected(st, work) /\ Exec(st, work) \in Databases /\ At(Exec(st, work), r, at)
  <2>1. /\ work \in Databases /\ at - 1 \in Nat /\ (at - 1) + 1 = at
    BY <1>1, <1>2, MigrationFacts
  <2> QED
    BY <1>2, <2>1, StatementRuns
<1> HIDE DEF st
<1>4. /\ work' = Exec(st, work) /\ stored' = stored /\ at' = at + 1
      /\ UNCHANGED <<phase, tx, failed, deployed>>
  BY <1>3 DEF ExecStatement, Durable, st
<1>5. TypeOK' /\ NoStatementFails'
  BY <1>2, <1>3, <1>4 DEF MigrationInv, TypeOK, NoStatementFails
<1>6. At(stored, r, 0)' /\ At(work, r, at - 1)'
  <2>1. At(stored, r, 0) /\ at' - 1 = at
    BY <1>1, <1>2, <1>4 DEF Progress
  <2> QED
    BY <1>3, <1>4, <2>1
<1>7. OpenAt(r)'
  <2>1. at' \in 1..(Len(MIGRATIONS[tx']) + 1)
    <3>1. Len(MIGRATIONS[tx]) \in Nat
      BY <1>2, ListLengths
    <3> QED
      BY <1>2, <1>4, <3>1
  <2>2. r < deployed
    BY <1>1, <1>2 DEF Progress, OpenAt
  <2> QED
    BY <1>2, <1>4, <1>6, <2>1, <2>2 DEF OpenAt
<1> QED
  BY <1>2, <1>4, <1>5, <1>6, <1>7 DEF MigrationInv, Progress

LEMMA CommitStep == MigrationInv /\ CommitMigration => MigrationInv'
<1> SUFFICES ASSUME MigrationInv, CommitMigration PROVE MigrationInv'
  OBVIOUS
<1>1. PICK r \in 0..deployed : Progress(r)
  BY DEF MigrationInv
<1>2. /\ tx = r + 1 /\ r \in 0..3 /\ r < deployed /\ phase = "migrating"
      /\ work \in Databases /\ At(work, r, Len(MIGRATIONS[r + 1]))
  <2>1. tx # 0 /\ at > Len(MIGRATIONS[tx])
    BY DEF CommitMigration
  <2>2. /\ tx = r + 1 /\ r \in 0..3 /\ At(work, r, at - 1) /\ phase = "migrating"
        /\ at \in 1..(Len(MIGRATIONS[tx]) + 1) /\ work \in Databases
    BY <1>1, <2>1, MigrationFacts
  <2>3. Len(MIGRATIONS[tx]) \in Nat
    BY <2>2, ListLengths
  <2>4. at - 1 = Len(MIGRATIONS[tx])
    BY <2>1, <2>2, <2>3
  <2>5. r < deployed
    BY <1>1, <2>1 DEF Progress, OpenAt
  <2> QED
    BY <2>2, <2>4, <2>5
<1>3. /\ stored' = [work EXCEPT !.recorded = Record(@, r + 1)]
      /\ tx' = 0 /\ at' = 1 /\ UNCHANGED <<deployed, phase, work, failed>>
  BY <1>2 DEF CommitMigration
<1>4. stored' \in Databases /\ At(stored, r + 1, 0)'
  BY <1>2, <1>3, CommitRuns
<1>5. TypeOK' /\ NoStatementFails'
  BY <1>3, <1>4, ListLengths DEF MigrationInv, TypeOK, NoStatementFails
<1>6. r + 1 \in 0..deployed'
  BY <1>1, <1>2, <1>3, MigrationFacts
<1> QED
  BY <1>2, <1>3, <1>4, <1>5, <1>6 DEF MigrationInv, Progress, OpenAt

LEMMA SubscribeStep ==
  ASSUME MigrationInv, NEW g \in Guilds, SubscribeGuild(g)
  PROVE  MigrationInv'
<1>1. PICK r \in 0..deployed : Progress(r)
  BY DEF MigrationInv
<1>2. PICK policy \in {"ALLOWLIST"} \cup (IF deployed < 4 THEN {"OPEN"} ELSE {}) :
        stored' = [stored EXCEPT !.policy[g] = policy]
  BY DEF SubscribeGuild
<1>3. /\ UNCHANGED <<deployed, phase, tx, at, work, failed>>
      /\ phase = "serving" /\ r = deployed /\ tx = 0 /\ deployed \in 1..4
      /\ stored \in Databases
  BY <1>1, MigrationFacts DEF SubscribeGuild, Progress
<1>4. /\ stored'.policy = [stored.policy EXCEPT ![g] = policy]
      /\ stored'.policy \in [Guilds -> Policies]
      /\ stored'.tables = stored.tables /\ stored'.columns = stored.columns
      /\ stored'.recorded = stored.recorded
      /\ stored' \in Databases
  <2>1. policy \in Policies
    BY DEF Policies
  <2> QED
    BY <1>2, <1>3, <2>1 DEF Databases
<1>5. At(stored, r, 0)'
  <2>1. At(stored, r, 0)
    BY <1>1 DEF Progress
  <2>2. PolicyAt(stored.policy, r, 0)'
    <3>1. CASE deployed < 4
      BY <1>3, <3>1 DEF PolicyAt, Behind
    <3>2. CASE deployed = 4
      <4>1. policy = "ALLOWLIST"
        BY <3>2
      <4>2. \A h \in Guilds : stored.policy[h] # "OPEN"
        BY <1>3, <2>1, <3>2 DEF At, PolicyAt, Behind
      <4>3. stored.policy \in [Guilds -> Policies]
        BY <1>3, DatabaseFields
      <4> QED
        BY <1>4, <4>1, <4>2, <4>3 DEF PolicyAt
    <3> QED
      BY <1>3, <3>1, <3>2
  <2> QED
    BY <1>4, <2>1, <2>2 DEF At
<1>6. TypeOK' /\ NoStatementFails'
  BY <1>3, <1>4 DEF MigrationInv, TypeOK, NoStatementFails
<1> QED
  BY <1>3, <1>5, <1>6 DEF MigrationInv, Progress, OpenAt

-----------------------------------------------------------------------------
(* The theorems.                                                           *)

\* Whatever crashes and deployments, the database is at a point of the list:
\* a prefix of the migrations recorded and, inside an open transaction, a
\* prefix of the next one run (storage/migrate.ts:26-40).
THEOREM MigrationsInvariant == Spec => []MigrationInv
<1>1. Init => MigrationInv
  BY InitialMigrations
<1>2. MigrationInv /\ UNCHANGED vars => MigrationInv'
  BY DEF vars, MigrationInv, TypeOK, NoStatementFails, Progress, OpenAt
<1>3. MigrationInv /\ [Next]_vars => MigrationInv'
  BY <1>2, StartStep, BeginStep, ExecStep, CommitStep, SubscribeStep DEF Next
<1> QED
  BY <1>1, <1>3, PTL DEF Spec

\* Types of the database, as committed and as the transaction sees it.
THEOREM MigrationsTypeCorrect == Spec => []TypeOK
<1>1. MigrationInv => TypeOK
  BY DEF MigrationInv
<1> QED
  BY <1>1, MigrationsInvariant, PTL

\* No statement of any migration is ever rejected (storage/schema.ts), at any
\* start of any version.
THEOREM StatementsRun == Spec => []NoStatementFails
<1>1. MigrationInv => NoStatementFails
  BY DEF MigrationInv
<1> QED
  BY <1>1, MigrationsInvariant, PTL

\* A version that serves finds the tables, columns and policies it needs.
THEOREM SchemaServes == Spec => []ServesItsSchema
<1>1. ASSUME MigrationInv, phase = "serving" PROVE ServesItsSchema
  <2>1. PICK r \in 0..deployed : Progress(r)
    BY <1>1 DEF MigrationInv
  <2>2. At(stored, r, 0) /\ r = deployed /\ deployed \in 1..4
    BY <1>1, <2>1, MigrationFacts DEF Progress
  <2>3. \A m \in 1..4 : \A s \in DOMAIN MIGRATIONS[m] :
          MIGRATIONS[m][s].op = "create" /\ m <= deployed =>
            MIGRATIONS[m][s].name \in stored.tables
    BY <2>2 DEF At, TablesAt, Behind
  <2>4. \A s \in DOMAIN MIGRATIONS[1] : MIGRATIONS[1][s].name \in stored.tables
    BY <2>2, <2>3, ListLengths, Creations
  <2>5. deployed >= 2 => "pending_start_pods" \in stored.tables
    BY <2>2, <2>3, ListLengths, Creations
  <2>6. deployed >= 3 => "guild_niamos_tokens" \in stored.tables
    BY <2>2, <2>3, ListLengths, Creations
  <2>7. deployed >= 3 => stored.columns = {}
    BY <2>2 DEF At, ColumnsAt
  <2>8. deployed >= 4 => \A g \in Guilds : stored.policy[g] # "OPEN"
    BY <2>2 DEF At, PolicyAt, Behind
  <2> QED
    BY <2>4, <2>5, <2>6, <2>7, <2>8 DEF ServesItsSchema
<1>2. MigrationInv => ServesItsSchema
  BY <1>1 DEF ServesItsSchema
<1> QED
  BY <1>2, MigrationsInvariant, PTL
=============================================================================
