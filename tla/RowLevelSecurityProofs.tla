------------------------ MODULE RowLevelSecurityProofs ------------------------
(***************************************************************************)
(* Tenant isolation proved for every set of orgs, connections and row ids, *)
(* and for every list of migration files that keep the rules, which TLC    *)
(* checks of the real ones (RulesAreKept).                                 *)
(*                                                                         *)
(* Recorded and Drafted tie the committed posture, and the one the         *)
(* migrating transaction sees, to the statements that have run; Awaited    *)
(* does the same for the rows a backfill has yet to reach.                 *)
(***************************************************************************)
EXTENDS RowLevelSecurity, TLAPS

\* A parent table's rows are followed, and it is not a child itself.
LEMMA ParentIsRoot ==
    ASSUME NEW t \in RowTables, t \in Children
    PROVE  Parent(t) \in RowTables /\ Parent(t) \notin Children
  BY TablesAreKnown

\* A statement that runs names a table of the schema.
LEMMA StatementsAreKnown ==
    ASSUME NEW n \in 1..Len(Migrations)
    PROVE  /\ Lines(n) = 1..Len(Migrations[n]) /\ Len(Migrations[n]) \in Nat
           /\ \A k \in Lines(n) : Migrations[n][k] \in Statements(Tables)
<1>1. Migrations[n] \in Seq(Statements(Tables))
  BY MigrationsAreScripts
<1> QED BY <1>1 DEF Lines

\* Replacing one table's posture.
LEMMA PostureReplaced ==
    ASSUME NEW cat \in [Tables -> Posture], NEW x \in Tables, NEW p \in Posture,
           NEW is, is = [cat EXCEPT ![x] = p]
    PROVE  /\ is \in [Tables -> Posture] /\ is[x] = p
           /\ \A t \in Tables \ {x} : is[t] = cat[t]
  OBVIOUS

\* What a statement does to a posture: it raises one flag, lowers FORCE, or
\* writes both clauses, on its own table.
LEMMA StatementEffect ==
    ASSUME NEW cat \in [Tables -> Posture], NEW s \in Statements(Tables),
           NEW is, is = ApplyStmt(cat, s)
    PROVE  /\ is \in [Tables -> Posture]
           /\ \A t \in Tables \ {s.table} : is[t] = cat[t]
           /\ is[s.table].exists <=> cat[s.table].exists \/ s.op = "create"
           /\ is[s.table].enabled <=> cat[s.table].enabled \/ s.op = "enable"
           /\ is[s.table].forced <=>
                 s.op = "force" \/ (cat[s.table].forced /\ s.op # "noforce")
           /\ is[s.table].using = IF s.op = "policy" THEN s.using ELSE cat[s.table].using
           /\ is[s.table].check = IF s.op = "policy" THEN s.check ELSE cat[s.table].check
<1> DEFINE was == cat[s.table]
<1>1. s.table \in Tables /\ s.using \in Clauses /\ s.check \in Clauses
      /\ s.op \in {"create", "enable", "force", "noforce", "backfill", "policy"}
  BY DEF Statements
<1>2. was \in Posture
  BY <1>1
<1>3. CASE s.op = "create"
  <2>1. is = [cat EXCEPT ![s.table] = [was EXCEPT !.exists = TRUE]]
    BY <1>3 DEF ApplyStmt
  <2>2. [was EXCEPT !.exists = TRUE] \in Posture
    BY <1>2 DEF Posture
  <2> QED BY <1>1, <1>2, <1>3, <2>1, <2>2, PostureReplaced DEF Posture
<1>4. CASE s.op = "enable"
  <2>1. is = [cat EXCEPT ![s.table] = [was EXCEPT !.enabled = TRUE]]
    BY <1>4 DEF ApplyStmt
  <2>2. [was EXCEPT !.enabled = TRUE] \in Posture
    BY <1>2 DEF Posture
  <2> QED BY <1>1, <1>2, <1>4, <2>1, <2>2, PostureReplaced DEF Posture
<1>5. CASE s.op = "force"
  <2>1. is = [cat EXCEPT ![s.table] = [was EXCEPT !.forced = TRUE]]
    BY <1>5 DEF ApplyStmt
  <2>2. [was EXCEPT !.forced = TRUE] \in Posture
    BY <1>2 DEF Posture
  <2> QED BY <1>1, <1>2, <1>5, <2>1, <2>2, PostureReplaced DEF Posture
<1>6. CASE s.op = "noforce"
  <2>1. is = [cat EXCEPT ![s.table] = [was EXCEPT !.forced = FALSE]]
    BY <1>6 DEF ApplyStmt
  <2>2. [was EXCEPT !.forced = FALSE] \in Posture
    BY <1>2 DEF Posture
  <2> QED BY <1>1, <1>2, <1>6, <2>1, <2>2, PostureReplaced DEF Posture
<1>7. CASE s.op = "policy"
  <2>1. is = [cat EXCEPT ![s.table] =
                 [was EXCEPT !.using = s.using, !.check = s.check]]
    BY <1>1, <1>7 DEF ApplyStmt
  <2>2. [was EXCEPT !.using = s.using, !.check = s.check] \in Posture
    BY <1>1, <1>2 DEF Posture
  <2> QED BY <1>1, <1>2, <1>7, <2>1, <2>2, PostureReplaced DEF Posture
<1>8. CASE s.op = "backfill"
  <2>1. is = cat
    BY <1>8 DEF ApplyStmt
  <2> QED BY <1>1, <1>8, <2>1
<1> QED BY <1>1, <1>3, <1>4, <1>5, <1>6, <1>7, <1>8

\* The statement a migration step runs.
LEMMA NextStatement ==
    ASSUME TypeOK, MigrationStep
    PROVE  /\ applied + 1 \in 1..Len(Migrations)
           /\ done \in Nat /\ done + 1 \in Lines(applied + 1)
           /\ Migrations[applied + 1][done + 1] \in Statements(Tables)
           /\ done' = done + 1 /\ applied' = applied /\ catalog' = catalog
           /\ altered' = ApplyStmt(altered, Migrations[applied + 1][done + 1])
           /\ altered' \in [Tables -> Posture]
           /\ done' \in 0..Len(Migrations[applied + 1])
<1>1. applied + 1 \in 1..Len(Migrations)
  BY MigrationsAreScripts DEF TypeOK, MigrationStep
<1>2. done \in Nat /\ done + 1 \in Lines(applied + 1)
  BY <1>1, StatementsAreKnown DEF TypeOK, MigrationStep
<1>3. Migrations[applied + 1][done + 1] \in Statements(Tables)
  BY <1>1, <1>2, StatementsAreKnown
<1>4. altered' \in [Tables -> Posture]
  BY <1>3, StatementEffect DEF TypeOK, MigrationStep
<1>5. done' \in 0..Len(Migrations[applied + 1])
  BY <1>1, <1>2, StatementsAreKnown DEF MigrationStep
<1> QED BY <1>1, <1>2, <1>3, <1>4, <1>5 DEF MigrationStep

\* Every step keeps the shape of the state (all operations of the module).
LEMMA TypeStep == TypeOK /\ [Next]_vars => TypeOK'
<1> SUFFICES ASSUME TypeOK, [Next]_vars PROVE TypeOK'
  OBVIOUS
<1>0. MigrationStep => /\ altered' \in [Tables -> Posture]
                       /\ done' \in 0..Len(Migrations[applied + 1])
  BY NextStatement
<1> USE ConstantsAreDistinct, MigrationsAreScripts DEF TypeOK
<1>1. ASSUME NEW c \in Conns, BeginMigration(c) PROVE TypeOK'
  <2>1. applied + 1 \in 1..Len(Migrations)
    BY <1>1 DEF BeginMigration
  <2>2. 0 \in 0..Len(Migrations[applied + 1])
    BY <2>1, StatementsAreKnown
  <2> QED BY <1>1, <2>2 DEF BeginMigration
<1>2. CASE MigrationStep
  BY <1>0, <1>2 DEF MigrationStep
<1>3. CASE CommitMigration
  BY <1>3 DEF CommitMigration
<1>4. CASE AbortMigration
  BY <1>4 DEF AbortMigration
<1>5. CASE \E c \in Conns, o \in Orgs : BeginScoped(c, o)
  BY <1>5 DEF BeginScoped
<1>6. CASE \E c \in Conns : EndScoped(c)
  BY <1>6 DEF EndScoped
<1>7. CASE \E c \in Conns : Reconnect(c)
  BY <1>7 DEF Reconnect
<1>8. ASSUME NEW c \in Conns, NEW t \in RowTables, Write(c, t)
      PROVE  TypeOK'
  <2>1. PICK i \in Ids :
            \/ \E key \in Orgs \cup Ids : Insert(c, t, i, key) \/ Update(c, t, i, key)
            \/ Delete(c, t, i)
    BY <1>8 DEF Write
  <2>2. CASE \E key \in Orgs \cup Ids : Insert(c, t, i, key)
    BY <2>2 DEF Insert
  <2>3. CASE \E key \in Orgs \cup Ids : Update(c, t, i, key)
    BY <2>3 DEF Update
  <2>4. CASE Delete(c, t, i)
    <3>1. rows' \in [RowTables -> [Ids -> Orgs \cup Ids \cup {NoRow}]]
      BY <2>4 DEF Delete
    <3>2. missing' \subseteq missing /\ draft' \subseteq draft
      BY <2>4 DEF Delete
    <3>3. QED
      BY <2>4, <3>1, <3>2 DEF Delete
  <2>5. QED
    BY <2>1, <2>2, <2>3, <2>4
<1>9. CASE UNCHANGED vars
  BY <1>9 DEF vars
<1>10. QED
  BY <1>1, <1>2, <1>3, <1>4, <1>5, <1>6, <1>7, <1>8, <1>9 DEF Next

\* The type invariant of the pool, the migration runner and the tables.
THEOREM TypeCorrect == Spec => []TypeOK
<1>1. Init => TypeOK
  BY ConstantsAreDistinct, MigrationsAreScripts
     DEF Init, TypeOK, NoTable, Posture, Clauses
<1>2. QED
  BY <1>1, TypeStep, PTL DEF Spec

-----------------------------------------------------------------------------
(***************************************************************************)
(* The catalogue.                                                          *)
(***************************************************************************)
AllLawful == DOMAIN Migrations \subseteq Lawful

\* A committed file has this statement; the file in progress has run it; it
\* has yet to run it.
Ever(op, t) == \E n \in 1..applied : Has(n, op, t)

Already(op, t) == \E k \in 1..done : Says(applied + 1, k, op, t)

Yet(op, t) ==
    \E k \in (done + 1)..Len(Migrations[applied + 1]) : Says(applied + 1, k, op, t)

SameClauses(p, q) == p.using = q.using /\ p.check = q.check

\* The committed posture of a table is what the committed files say of it.
RecordedOf(t) ==
    /\ catalog[t].exists <=> Ever("create", t)
    /\ catalog[t].enabled <=> Ever("enable", t)
    /\ catalog[t].forced <=> Ever("force", t)
    /\ \A m \in 1..applied : \A k \in Lines(m) :
          LastPolicy(applied, t, m, k) => SameClauses(catalog[t], Migrations[m][k])
    /\ catalog[t].forced /\ t \notin Children => catalog[t].using = "OrgUuid"

Recorded == \A t \in Tables : RecordedOf(t)

\* What the migrating transaction sees is the committed posture as far as its
\* statements have gone; FORCE may be lifted, but then is still to be restored.
DraftedOf(t) ==
    /\ altered[t].exists <=> Ever("create", t) \/ Already("create", t)
    /\ altered[t].enabled <=> Ever("enable", t) \/ Already("enable", t)
    /\ altered[t].forced => Ever("force", t) \/ Already("force", t)
    /\ Ever("force", t) \/ Already("force", t) => altered[t].forced \/ Yet("force", t)
    /\ \A k \in 1..done :
          /\ Says(applied + 1, k, "policy", t)
          /\ \A j \in (k + 1)..done : ~Says(applied + 1, j, "policy", t)
          => SameClauses(altered[t], Migrations[applied + 1][k])
    /\ ~Already("policy", t) => SameClauses(altered[t], catalog[t])
    /\ (\A k \in 1..done : Migrations[applied + 1][k].table # t)
          => altered[t] = catalog[t]
    /\ \A k \in 1..done :
          /\ Says(applied + 1, k, "noforce", t)
          /\ \A j \in k..done : ~Says(applied + 1, j, "force", t)
          => ~altered[t].forced

Drafted == migrator # NoConn => \A t \in Tables : DraftedOf(t)

\* Rows a backfill has not reached wait for one: a committed row for a file to
\* come, a row of the migrating transaction for a statement to come.
Awaited ==
    /\ \A r \in missing : AwaitsBackfill(r[1])
    /\ migrator # NoConn =>
          \A r \in draft :
              \/ \E k \in (done + 1)..Len(Migrations[applied + 1]) :
                    Migrations[applied + 1][k] = Backfill(r[1])
              \/ \E n \in (applied + 2)..Len(Migrations) :
                    \E k \in 1..Len(Migrations[n]) : Migrations[n][k] = Backfill(r[1])

LEMMA LawfulFile ==
    ASSUME AllLawful, NEW n \in 1..Len(Migrations)
    PROVE  RestoresForce(n) /\ LiftsForBackfills(n) /\ ParentsFirst(n) /\ CastsForced(n)
<1>1. n \in DOMAIN Migrations
  BY MigrationsAreScripts
<1> QED BY <1>1 DEF AllLawful, Lawful

\* What a migration step moves from the statements to come to those that ran.
LEMMA StatementRuns ==
    ASSUME TypeOK, MigrationStep, NEW op, NEW t
    PROVE  /\ Ever(op, t)' <=> Ever(op, t)
           /\ Already(op, t)' <=>
                 Already(op, t) \/ Says(applied + 1, done + 1, op, t)
           /\ Yet(op, t) => Yet(op, t)' \/ Says(applied + 1, done + 1, op, t)
<1>1. /\ done \in Nat /\ done' = done + 1 /\ applied' = applied
      /\ Len(Migrations[applied + 1]) \in Nat
  BY NextStatement, StatementsAreKnown
<1>2. Ever(op, t)' <=> Ever(op, t)
  BY <1>1 DEF Ever
<1>3. Already(op, t)' <=> Already(op, t) \/ Says(applied + 1, done + 1, op, t)
  BY <1>1 DEF Already, Says
<1>4. Yet(op, t) => Yet(op, t)' \/ Says(applied + 1, done + 1, op, t)
  BY <1>1 DEF Yet, Says
<1> QED BY <1>2, <1>3, <1>4

\* Each statement leaves the drafted posture of a table what the statements
\* say (MigrationStep).
LEMMA DraftedStep ==
    ASSUME TypeOK, AllLawful, MigrationStep, NEW t \in Tables, DraftedOf(t)
    PROVE  DraftedOf(t)'
<1> DEFINE n == applied + 1
           s == Migrations[n][done + 1]
<1>1. /\ done \in Nat /\ done' = done + 1 /\ applied' = applied /\ catalog' = catalog
      /\ n \in 1..Len(Migrations) /\ done + 1 \in Lines(n) /\ s \in Statements(Tables)
      /\ Len(Migrations[n]) \in Nat /\ Lines(n) = 1..Len(Migrations[n])
  BY NextStatement, StatementsAreKnown
<1>2. /\ altered' \in [Tables -> Posture]
      /\ \A u \in Tables \ {s.table} : altered'[u] = altered[u]
      /\ altered'[s.table].exists <=> altered[s.table].exists \/ s.op = "create"
      /\ altered'[s.table].enabled <=> altered[s.table].enabled \/ s.op = "enable"
      /\ altered'[s.table].forced <=>
            s.op = "force" \/ (altered[s.table].forced /\ s.op # "noforce")
      /\ altered'[s.table].using =
            IF s.op = "policy" THEN s.using ELSE altered[s.table].using
      /\ altered'[s.table].check =
            IF s.op = "policy" THEN s.check ELSE altered[s.table].check
  BY <1>1, NextStatement, StatementEffect DEF TypeOK
<1>3. \A op : Says(n, done + 1, op, t) <=> s.op = op /\ s.table = t
  BY DEF Says
<1>4. \A op : /\ Ever(op, t)' <=> Ever(op, t)
              /\ Already(op, t)' <=> Already(op, t) \/ (s.op = op /\ s.table = t)
              /\ Yet(op, t) => Yet(op, t)' \/ (s.op = op /\ s.table = t)
  BY <1>3, StatementRuns
<1>5. /\ altered'[t].exists <=> Ever("create", t)' \/ Already("create", t)'
      /\ altered'[t].enabled <=> Ever("enable", t)' \/ Already("enable", t)'
  BY <1>2, <1>4 DEF DraftedOf
<1>6. altered'[t].forced => Ever("force", t)' \/ Already("force", t)'
  BY <1>2, <1>4 DEF DraftedOf
<1>7. Ever("force", t)' \/ Already("force", t)' => altered'[t].forced \/ Yet("force", t)'
  <2> SUFFICES ASSUME Ever("force", t)' \/ Already("force", t)', ~altered'[t].forced
               PROVE  Yet("force", t)'
    OBVIOUS
  <2>1. ~(s.op = "force" /\ s.table = t)
    BY <1>2
  <2>2. CASE s.op = "noforce" /\ s.table = t
    <3>1. Says(n, done + 1, "noforce", t)
      BY <1>3, <2>2
    <3>2. PICK j \in Lines(n) : j > done + 1 /\ Says(n, j, "force", t)
      BY <1>1, <3>1, LawfulFile DEF RestoresForce
    <3> QED BY <1>1, <3>2 DEF Yet, Says
  <2>3. CASE ~(s.op = "noforce" /\ s.table = t)
    BY <1>2, <1>4, <2>1, <2>3 DEF DraftedOf
  <2> QED BY <2>2, <2>3
<1>8. ASSUME NEW k \in 1..(done + 1), Says(n, k, "policy", t),
             \A j \in (k + 1)..(done + 1) : ~Says(n, j, "policy", t)
      PROVE  SameClauses(altered'[t], Migrations[n][k])
  <2>1. CASE k = done + 1
    BY <1>2, <1>3, <1>8, <2>1 DEF SameClauses
  <2>2. CASE k \in 1..done
    <3>1. ~(s.op = "policy" /\ s.table = t)
      BY <1>1, <1>3, <1>8, <2>2
    <3>2. SameClauses(altered[t], Migrations[n][k])
      BY <1>1, <1>8, <2>2 DEF DraftedOf
    <3> QED BY <1>2, <3>1, <3>2 DEF SameClauses
  <2> QED BY <1>1, <2>1, <2>2
<1>9. ~Already("policy", t)' => SameClauses(altered'[t], catalog[t])
  BY <1>2, <1>4 DEF DraftedOf, SameClauses
<1>10. (\A k \in 1..(done + 1) : Migrations[n][k].table # t) => altered'[t] = catalog[t]
  BY <1>1, <1>2 DEF DraftedOf
<1>11. ASSUME NEW k \in 1..(done + 1), Says(n, k, "noforce", t),
              \A j \in k..(done + 1) : ~Says(n, j, "force", t)
       PROVE  ~altered'[t].forced
  <2>1. ~(s.op = "force" /\ s.table = t)
    BY <1>1, <1>3, <1>11
  <2>2. CASE k = done + 1
    BY <1>2, <1>3, <1>11, <2>2
  <2>3. CASE k \in 1..done
    <3>1. ~altered[t].forced
      BY <1>1, <1>11, <2>3 DEF DraftedOf
    <3> QED BY <1>2, <2>1, <3>1
  <2> QED BY <1>1, <2>2, <2>3
<1> QED BY <1>1, <1>5, <1>6, <1>7, <1>8, <1>9, <1>10, <1>11 DEF DraftedOf, Says

\* What a committed file says of a table adds to what the earlier ones said.
LEMMA FileCommits ==
    ASSUME TypeOK, CommitMigration, NEW op, NEW t
    PROVE  /\ applied + 1 \in 1..Len(Migrations) /\ applied' = applied + 1
           /\ applied \in Nat /\ catalog' = altered
           /\ done = Len(Migrations[applied + 1])
           /\ Lines(applied + 1) = 1..done
           /\ Already(op, t) <=> Has(applied + 1, op, t)
           /\ Ever(op, t)' <=> Ever(op, t) \/ Already(op, t)
           /\ ~Yet(op, t)
<1>1. /\ applied + 1 \in 1..Len(Migrations) /\ applied' = applied + 1
      /\ applied \in Nat /\ catalog' = altered
      /\ done = Len(Migrations[applied + 1])
  BY MigrationsAreScripts DEF TypeOK, CommitMigration
<1>2. Lines(applied + 1) = 1..done /\ done \in Nat
  BY <1>1, StatementsAreKnown
<1>3. Already(op, t) <=> Has(applied + 1, op, t)
  BY <1>2 DEF Already, Has
<1>4. Ever(op, t)' <=> Ever(op, t) \/ Has(applied + 1, op, t)
  BY <1>1 DEF Ever, Has, Lines, Says
<1>5. ~Yet(op, t)
  BY <1>1, <1>2 DEF Yet
<1> QED BY <1>1, <1>2, <1>3, <1>4, <1>5

\* A commit leaves the catalogue what the files say (CommitMigration).
LEMMA RecordedCommit ==
    ASSUME TypeOK, AllLawful, CommitMigration, NEW t \in Tables,
           RecordedOf(t), DraftedOf(t)
    PROVE  RecordedOf(t)'
<1> DEFINE n == applied + 1
<1>1. /\ n \in 1..Len(Migrations) /\ applied' = n /\ applied \in Nat
      /\ catalog' = altered /\ Lines(n) = 1..done /\ done \in Nat
  BY FileCommits, StatementsAreKnown
<1>2. \A op : /\ Ever(op, t)' <=> Ever(op, t) \/ Already(op, t)
              /\ Already(op, t) <=> Has(n, op, t)
              /\ ~Yet(op, t)
  BY FileCommits
<1>3. /\ altered[t].exists <=> Ever("create", t)'
      /\ altered[t].enabled <=> Ever("enable", t)'
      /\ altered[t].forced <=> Ever("force", t)'
  BY <1>2 DEF DraftedOf
<1>4. ASSUME NEW m \in 1..n, NEW k \in Lines(m), LastPolicy(n, t, m, k)
      PROVE  SameClauses(altered[t], Migrations[m][k])
  <2>1. CASE m = n
    <3>1. /\ k \in 1..done /\ Says(n, k, "policy", t)
          /\ \A j \in (k + 1)..done : ~Says(n, j, "policy", t)
      BY <1>1, <1>4, <2>1 DEF LastPolicy
    <3> QED BY <2>1, <3>1 DEF DraftedOf
  <2>2. CASE m \in 1..applied
    <3>1. LastPolicy(applied, t, m, k) /\ ~Has(n, "policy", t)
      BY <1>1, <1>4, <2>2 DEF LastPolicy
    <3>2. SameClauses(altered[t], catalog[t])
      BY <1>2, <3>1 DEF DraftedOf
    <3>3. SameClauses(catalog[t], Migrations[m][k])
      BY <2>2, <3>1 DEF RecordedOf
    <3> QED BY <3>2, <3>3 DEF SameClauses
  <2> QED BY <1>1, <2>1, <2>2
<1>5. ASSUME altered[t].forced, t \notin Children
      PROVE  altered[t].using = "OrgUuid"
  <2>1. CASE \A k \in 1..done : Migrations[n][k].table # t
    BY <1>5, <2>1 DEF DraftedOf, RecordedOf
  <2>2. CASE \E k \in 1..done : Migrations[n][k].table = t
    <3>1. t \in {Migrations[n][k].table : k \in Lines(n)} \ Children
      BY <1>1, <1>5, <2>2
    <3>2. \E m \in 1..n : Has(m, "force", t)
      BY <1>1, <1>3, <1>5 DEF Ever, Has, Lines, Says
    <3>3. CastsForced(n)
      BY <1>1, LawfulFile
    <3>4. PICK m \in 1..n : \E k \in Lines(m) :
              LastPolicy(n, t, m, k) /\ Migrations[m][k].using = "OrgUuid"
      BY <3>1, <3>2, <3>3 DEF CastsForced
    <3> QED BY <1>4, <3>4 DEF SameClauses
  <2> QED BY <2>1, <2>2
<1> QED BY <1>1, <1>3, <1>4, <1>5 DEF RecordedOf, LastPolicy, Lines, Says, Has

\* A migration starts from the committed posture (BeginMigration).
LEMMA DraftedBegin ==
    ASSUME TypeOK, NEW c \in Conns, BeginMigration(c), NEW t \in Tables, RecordedOf(t)
    PROVE  DraftedOf(t)'
<1>1. done' = 0 /\ altered' = catalog /\ catalog' = catalog /\ applied' = applied
  BY DEF BeginMigration, TypeOK
<1>2. \A op : Ever(op, t)' <=> Ever(op, t)
  BY <1>1 DEF Ever
<1>3. \A op : ~Already(op, t)'
  BY <1>1 DEF Already
<1>4. 1..done' = {}
  BY <1>1
<1> QED BY <1>1, <1>2, <1>3, <1>4 DEF DraftedOf, RecordedOf, SameClauses

\* The posture, committed and in progress, is at every step what the files say.
LEMMA CatalogueStep ==
    ASSUME TypeOK, AllLawful, [Next]_vars, Recorded, Drafted
    PROVE  Recorded' /\ Drafted'
<1>1. ASSUME NEW c \in Conns, BeginMigration(c) PROVE Recorded' /\ Drafted'
  <2>1. UNCHANGED <<catalog, applied>>
    BY <1>1 DEF BeginMigration
  <2>2. Recorded'
    BY <2>1 DEF Recorded, RecordedOf, Ever
  <2> QED BY <1>1, <2>2, DraftedBegin DEF Recorded, Drafted
<1>2. CASE MigrationStep
  <2>1. UNCHANGED <<catalog, applied>> /\ migrator # NoConn
    BY <1>2 DEF MigrationStep
  <2>2. Recorded'
    BY <2>1 DEF Recorded, RecordedOf, Ever
  <2> QED BY <1>2, <2>1, <2>2, DraftedStep DEF Drafted
<1>3. CASE CommitMigration
  <2>1. migrator # NoConn /\ migrator' = NoConn
    BY <1>3 DEF CommitMigration
  <2> QED BY <1>3, <2>1, RecordedCommit DEF Recorded, Drafted
<1>4. CASE AbortMigration
  <2>1. UNCHANGED <<catalog, applied>> /\ migrator' = NoConn
    BY <1>4 DEF AbortMigration
  <2> QED BY <2>1 DEF Recorded, RecordedOf, Ever, Drafted
<1>5. CASE UNCHANGED <<catalog, applied, migrator, done, altered>>
  BY <1>5 DEF Recorded, RecordedOf, Drafted, DraftedOf, Ever, Already, Yet
<1> QED BY <1>1, <1>2, <1>3, <1>4, <1>5 DEF Next, vars, BeginScoped, EndScoped,
       Reconnect, Write, Insert, Update, Delete

\* Crashes, aborted files and whoever else runs leave every committed posture
\* the one that a whole number of files says.
THEOREM CatalogueIsRecorded == AllLawful /\ Spec => [](Recorded /\ Drafted)
<1> SUFFICES ASSUME AllLawful PROVE Spec => [](Recorded /\ Drafted)
  OBVIOUS
<1>1. Init => Recorded /\ Drafted
  BY DEF Init, Recorded, RecordedOf, Drafted, Ever, NoTable
<1>2. TypeOK /\ Recorded /\ Drafted /\ [Next]_vars => (Recorded /\ Drafted)'
  BY CatalogueStep
<1> QED BY <1>1, <1>2, TypeCorrect, PTL DEF Spec

LEMMA RecordedIsChained ==
    ASSUME TypeOK, AllLawful, Recorded
    PROVE  ChainAirtight
<1> SUFFICES ASSUME NEW t \in Tables \cap Children, NEW op \in {"enable", "force"},
                    Ever(op, t)
             PROVE  Parent(t) \in Tables /\ Ever(op, Parent(t))
  BY DEF ChainAirtight, Chained, Recorded, RecordedOf
<1>1. PICK n \in 1..applied : Has(n, op, t)
  BY DEF Ever
<1>2. n \in 1..Len(Migrations) /\ applied \in Nat
  BY <1>1, MigrationsAreScripts DEF TypeOK
<1>3. PICK m \in 1..n : Has(m, op, Parent(t))
  BY <1>1, <1>2, LawfulFile DEF ParentsFirst
<1>4. m \in 1..Len(Migrations) /\ m \in 1..applied
  BY <1>1, <1>2, <1>3
<1>5. Parent(t) \in Tables
  BY <1>3, <1>4, StatementsAreKnown DEF Has, Says, Statements
<1> QED BY <1>3, <1>4, <1>5 DEF Ever

\* In every committed posture, between any two migrations and after any crash,
\* a transitive table is enforced only on top of an enforced parent.
THEOREM RolloutIsChained == AllLawful /\ Spec => []ChainAirtight
<1> SUFFICES ASSUME AllLawful PROVE Spec => []ChainAirtight
  OBVIOUS
<1>1. TypeOK /\ Recorded => ChainAirtight
  BY RecordedIsChained
<1> QED BY <1>1, TypeCorrect, CatalogueIsRecorded, PTL

\* No commit takes FORCE from a table, the files that lift it for a backfill
\* included.
THEOREM ForceIsNeverLifted == AllLawful /\ Spec => NeverLifted
<1> SUFFICES ASSUME AllLawful PROVE Spec => NeverLifted
  OBVIOUS
<1>1. TypeOK /\ Recorded /\ Drafted /\ [Next]_vars =>
        [\A t \in Tables : catalog[t].forced => catalog'[t].forced]_catalog
  <2> SUFFICES ASSUME TypeOK, Recorded, Drafted, CommitMigration,
                      NEW t \in Tables, catalog[t].forced
               PROVE  catalog'[t].forced
    BY DEF Next, vars, BeginMigration, MigrationStep, AbortMigration, BeginScoped,
       EndScoped, Reconnect, Write, Insert, Update, Delete
  <2>1. Ever("force", t)
    BY DEF Recorded, RecordedOf
  <2>2. ~Yet("force", t) /\ catalog' = altered
    BY FileCommits
  <2>3. DraftedOf(t)
    BY DEF Drafted, CommitMigration
  <2> QED BY <2>1, <2>2, <2>3 DEF DraftedOf
<1> QED BY <1>1, TypeCorrect, CatalogueIsRecorded, PTL DEF Spec, NeverLifted

\* Files that together enforce every table but some, on which they never turn
\* row security on, leave exactly those unenforced.
THEOREM RolloutCompletes ==
    AllLawful /\ Completed = Tables \ Open /\ LeftOpen = Open /\ Spec
        => []RolloutComplete
<1> SUFFICES ASSUME AllLawful, Completed = Tables \ Open, LeftOpen = Open
             PROVE  Spec => []RolloutComplete
  OBVIOUS
<1>1. TypeOK /\ Recorded => RolloutComplete
  <2> SUFFICES ASSUME Recorded, applied = Len(Migrations), NEW t \in Tables
               PROVE  Enforced(t) <=> t \notin Open
    BY DEF RolloutComplete
  <2>0. DOMAIN Migrations = 1..applied
    BY MigrationsAreScripts
  <2>1. ASSUME t \notin Open PROVE Enforced(t)
    <3>1. Completes(t)
      BY <2>1 DEF Completed
    <3>2. \A op \in {"create", "enable", "force"} : Ever(op, t)
      BY <2>0, <3>1 DEF Completes, Ever
    <3>3. PICK n \in 1..applied : \E k \in Lines(n) :
              /\ LastPolicy(applied, t, n, k)
              /\ Migrations[n][k].using \in Predicates
              /\ Migrations[n][k].check = Migrations[n][k].using
      BY <2>0, <3>1 DEF Completes
    <3> QED BY <3>2, <3>3 DEF Recorded, RecordedOf, SameClauses, Enforced
  <2>2. ASSUME t \in Open PROVE ~Enforced(t)
    <3>1. \A n \in DOMAIN Migrations : ~Has(n, "enable", t)
      BY <2>2 DEF LeftOpen
    <3>2. ~Ever("enable", t)
      BY <2>0, <3>1 DEF Ever
    <3> QED BY <3>2 DEF Recorded, RecordedOf, Enforced
  <2> QED BY <2>1, <2>2
<1> QED BY <1>1, TypeCorrect, CatalogueIsRecorded, PTL

-----------------------------------------------------------------------------
(***************************************************************************)
(* The backfills.                                                          *)
(***************************************************************************)

\* A backfill that a lawful file runs reaches every row of its table: the file
\* has lifted FORCE, and no other row security binds the tables' owner.
LEMMA BackfillIsUnfiltered ==
    ASSUME TypeOK, AllLawful, Drafted, MigrationStep, NEW t \in Tables,
           Says(applied + 1, done + 1, "backfill", t)
    PROVE  Backfilled(migrator, t) = {t} \X Ids
<1> DEFINE n == applied + 1
<1>1. n \in 1..Len(Migrations) /\ done \in Nat /\ done + 1 \in Lines(n)
  BY NextStatement
<1>2. PICK j \in 1..done : /\ Says(n, j, "noforce", t)
                           /\ \A i \in j..(done + 1) : ~Says(n, i, "force", t)
  BY <1>1, LawfulFile DEF LiftsForBackfills
<1>3. \A i \in j..done : ~Says(n, i, "force", t)
  BY <1>1, <1>2
<1>4. ~altered[t].forced
  BY <1>2, <1>3 DEF Drafted, DraftedOf, MigrationStep
<1>5. Role[migrator] \in {"superuser", "owner"}
  BY DEF TypeOK, MigrationStep
<1> QED BY <1>4, <1>5 DEF Backfilled, SubjectIn

\* A table whose backfill the running file has passed is locked: the file
\* lifted FORCE before it, and keeps the lock of that statement.
LEMMA PassedIsLocked ==
    ASSUME TypeOK, AllLawful, migrator # NoConn, NEW t \in Tables,
           NEW k \in 1..done, Says(applied + 1, k, "backfill", t)
    PROVE  t \in Locked
<1> DEFINE n == applied + 1
<1>1. n \in 1..Len(Migrations) /\ done \in 0..Len(Migrations[n])
  BY MigrationsAreScripts DEF TypeOK
<1>2. done \in Nat /\ k \in Lines(n)
  BY <1>1, StatementsAreKnown
<1>3. PICK j \in 1..(k - 1) : Says(n, j, "noforce", t)
  BY <1>1, <1>2, LawfulFile DEF LiftsForBackfills
<1>4. j \in 1..done
  BY <1>2, <1>3
<1>5. TakesLock(Migrations[n][j]) /\ Migrations[n][j].table = t
  BY <1>3 DEF Says, TakesLock
<1>6. t \in {Migrations[n][i].table : i \in {h \in 1..done : TakesLock(Migrations[n][h])}}
  BY <1>4, <1>5
<1> QED BY <1>6 DEF Locked

LEMMA AwaitedStep ==
    ASSUME TypeOK, AllLawful, Drafted, Awaited, [Next]_vars
    PROVE  Awaited'
<1>1. ASSUME NEW c \in Conns, BeginMigration(c) PROVE Awaited'
  <2>1. /\ done' = 0 /\ draft' = missing /\ missing' = missing /\ applied' = applied
        /\ applied \in Nat
    BY <1>1 DEF BeginMigration, TypeOK
  <2>2. ASSUME NEW r \in missing
        PROVE  \/ \E k \in 1..Len(Migrations[applied + 1]) :
                    Migrations[applied + 1][k] = Backfill(r[1])
               \/ \E n \in (applied + 2)..Len(Migrations) :
                    \E k \in 1..Len(Migrations[n]) : Migrations[n][k] = Backfill(r[1])
    <3>1. PICK n \in (applied + 1)..Len(Migrations) :
              \E k \in 1..Len(Migrations[n]) : Migrations[n][k] = Backfill(r[1])
      BY DEF Awaited, AwaitsBackfill
    <3>2. n = applied + 1 \/ n \in (applied + 2)..Len(Migrations)
      BY <2>1, <3>1, MigrationsAreScripts
    <3> QED BY <3>1, <3>2
  <2> QED BY <2>1, <2>2 DEF Awaited, AwaitsBackfill
<1>2. CASE MigrationStep
  <2> DEFINE n == applied + 1
  <2>1. /\ n \in 1..Len(Migrations) /\ done \in Nat /\ done + 1 \in Lines(n)
        /\ done' = done + 1 /\ applied' = applied
        /\ Lines(n) = 1..Len(Migrations[n]) /\ Len(Migrations[n]) \in Nat
        /\ Migrations[n][done + 1] \in Statements(Tables)
    BY <1>2, NextStatement, StatementsAreKnown
  <2>2. /\ migrator # NoConn /\ missing' = missing /\ draft' \subseteq draft
        /\ Migrations[n][done + 1].op = "backfill" =>
              draft' = draft \ Backfilled(migrator, Migrations[n][done + 1].table)
    BY <1>2 DEF MigrationStep
  <2>3. ASSUME NEW r \in draft', Migrations[n][done + 1] = Backfill(r[1])
        PROVE  FALSE
    <3>1. Says(n, done + 1, "backfill", r[1])
      BY <2>3 DEF Says, Backfill, Stmt
    <3>2. r \in RowTables \X Ids /\ r[1] \in Tables
      BY <2>2, TablesAreKnown DEF TypeOK
    <3>3. Backfilled(migrator, r[1]) = {r[1]} \X Ids
      BY <1>2, <3>1, <3>2, BackfillIsUnfiltered
    <3>4. r \notin Backfilled(migrator, r[1])
      BY <2>2, <3>1 DEF Says
    <3> QED BY <3>2, <3>3, <3>4
  <2>4. ASSUME NEW r \in draft'
        PROVE  \/ \E k \in (done + 2)..Len(Migrations[n]) : Migrations[n][k] = Backfill(r[1])
               \/ \E m \in (applied + 2)..Len(Migrations) :
                    \E k \in 1..Len(Migrations[m]) : Migrations[m][k] = Backfill(r[1])
    <3>1. r \in draft
      BY <2>2
    <3> QED BY <2>1, <2>2, <2>3, <3>1 DEF Awaited
  <2> QED BY <2>1, <2>2, <2>4 DEF Awaited, AwaitsBackfill
<1>3. CASE CommitMigration
  <2>1. /\ missing' = draft /\ applied' = applied + 1 /\ migrator # NoConn
        /\ migrator' = NoConn /\ applied \in Nat
        /\ done = Len(Migrations[applied + 1])
    BY <1>3 DEF CommitMigration, TypeOK
  <2>2. done \in Nat
    BY <2>1, <1>3, FileCommits, StatementsAreKnown
  <2>3. \A r \in draft : \E n \in (applied + 2)..Len(Migrations) :
            \E k \in 1..Len(Migrations[n]) : Migrations[n][k] = Backfill(r[1])
    BY <2>1, <2>2 DEF Awaited
  <2> QED BY <2>1, <2>3 DEF Awaited, AwaitsBackfill
<1>4. CASE AbortMigration
  BY <1>4 DEF AbortMigration, Awaited, AwaitsBackfill
<1>5. ASSUME NEW c \in Conns, NEW t \in RowTables, NEW i \in Ids,
             NEW key \in Orgs \cup Ids, Insert(c, t, i, key)
      PROVE  Awaited'
  <2>1. UNCHANGED <<applied, migrator, done>> /\ t \notin Locked
    BY <1>5 DEF Insert, Runs
  <2>2. \A r \in missing' \ missing : r[1] = t /\ AwaitsBackfill(t)
    BY <1>5 DEF Insert
  <2>3. \A r \in draft' \ draft : migrator # NoConn /\ r[1] = t /\ AwaitsBackfill(t)
    BY <1>5 DEF Insert
  <2>4. ASSUME migrator # NoConn, AwaitsBackfill(t)
        PROVE  \/ \E k \in (done + 1)..Len(Migrations[applied + 1]) :
                    Migrations[applied + 1][k] = Backfill(t)
               \/ \E n \in (applied + 2)..Len(Migrations) :
                    \E k \in 1..Len(Migrations[n]) : Migrations[n][k] = Backfill(t)
    <3>1. applied + 1 \in 1..Len(Migrations) /\ done \in 0..Len(Migrations[applied + 1])
          /\ applied \in Nat
      BY <2>4, MigrationsAreScripts DEF TypeOK
    <3>2. Len(Migrations[applied + 1]) \in Nat
      BY <3>1, StatementsAreKnown
    <3>3. PICK n \in (applied + 1)..Len(Migrations) :
              \E k \in 1..Len(Migrations[n]) : Migrations[n][k] = Backfill(t)
      BY <2>4 DEF AwaitsBackfill
    <3>4. PICK k \in 1..Len(Migrations[n]) : Migrations[n][k] = Backfill(t)
      BY <3>3
    <3>5. CASE n = applied + 1
      <4>1. Says(n, k, "backfill", t)
        BY <3>4 DEF Says, Backfill, Stmt
      <4>2. k \notin 1..done
        BY <2>1, <2>4, <3>5, <4>1, PassedIsLocked, TablesAreKnown
      <4>3. k \in (done + 1)..Len(Migrations[applied + 1])
        BY <3>1, <3>2, <3>4, <3>5, <4>2
      <4> QED BY <3>4, <3>5, <4>3
    <3>6. CASE n # applied + 1
      <4>1. n \in (applied + 2)..Len(Migrations)
        BY <3>1, <3>3, <3>6, MigrationsAreScripts
      <4> QED BY <3>4, <4>1
    <3> QED BY <3>5, <3>6
  <2> QED BY <2>1, <2>2, <2>3, <2>4 DEF Awaited, AwaitsBackfill
<1>6. CASE /\ missing' \subseteq missing /\ draft' \subseteq draft
           /\ UNCHANGED <<applied, migrator, done>>
  BY <1>6 DEF Awaited, AwaitsBackfill
<1>7. ASSUME NEW c \in Conns, NEW t \in RowTables, Write(c, t) PROVE Awaited'
  BY <1>5, <1>6, <1>7 DEF Write, Update, Delete
<1> QED BY <1>1, <1>2, <1>3, <1>4, <1>6, <1>7 DEF Next, vars, BeginScoped,
       EndScoped, Reconnect

\* No row that predates a backfill is left out by it, rows that other
\* connections insert while its file runs included.
THEOREM BackfillsReachAll == AllLawful /\ Spec => []BackfillReachesAll
<1> SUFFICES ASSUME AllLawful PROVE Spec => []BackfillReachesAll
  OBVIOUS
<1>1. Init => Awaited
  BY DEF Init, Awaited
<1>2. TypeOK /\ Drafted /\ Awaited /\ [Next]_vars => Awaited'
  BY AwaitedStep
<1>3. Awaited => BackfillReachesAll
  BY DEF Awaited, BackfillReachesAll
<1> QED BY <1>1, <1>2, <1>3, TypeCorrect, CatalogueIsRecorded, PTL DEF Spec

-----------------------------------------------------------------------------
(***************************************************************************)
(* The foreign keys.                                                       *)
(***************************************************************************)

\* A part of the invariant: a child row's parent exists.
RefsLive ==
    \A t \in RowTables, i \in Ids :
        Live(t, i) => IF t \in Children
                      THEN rows[t][i] \in Ids /\ Live(Parent(t), rows[t][i])
                      ELSE rows[t][i] \in Orgs

\* Inserting or updating row i of table t keeps every reference live.
LEMMA RefsPut ==
    ASSUME TypeOK, RefsLive, NEW t \in RowTables, NEW i \in Ids,
           NEW key \in Orgs \cup Ids, key \in Keys(t),
           rows' = [rows EXCEPT ![t][i] = key]
    PROVE  RefsLive'
<1>1. key # NoRow
  BY ConstantsAreDistinct
<1>2. SUFFICES ASSUME NEW u \in RowTables, NEW j \in Ids, Live(u, j)'
               PROVE  IF u \in Children
                      THEN rows'[u][j] \in Ids /\ Live(Parent(u), rows[u][j])'
                      ELSE rows'[u][j] \in Orgs
  BY DEF RefsLive
<1>3. \A v \in RowTables, k \in Ids : Live(v, k) => Live(v, k)'
  BY <1>1 DEF Live, TypeOK
<1>4. CASE u = t /\ j = i
  <2>1. rows'[u][j] = key
    BY <1>4 DEF TypeOK
  <2>2. CASE t \in Children
    BY <1>3, <1>4, <2>1, <2>2, ParentIsRoot DEF Keys
  <2>3. CASE t \notin Children
    BY <1>4, <2>1, <2>3 DEF Keys
  <2>4. QED
    BY <2>2, <2>3
<1>5. CASE ~(u = t /\ j = i)
  <2>1. rows'[u][j] = rows[u][j]
    BY <1>5 DEF TypeOK
  <2>2. Live(u, j)
    BY <2>1, <1>2 DEF Live
  <2>3. QED
    BY <1>3, <2>1, <2>2, ParentIsRoot DEF RefsLive
<1>6. QED
  BY <1>4, <1>5

\* Deleting a row takes its cascading children with it, and is refused when
\* another child table still refers to it, so every reference stays live.
LEMMA RefsDelete ==
    ASSUME TypeOK, RefsLive, NEW c \in Conns, NEW t \in RowTables,
           NEW i \in Ids, Delete(c, t, i)
    PROVE  RefsLive'
<1> DEFINE children == RowTables \cap Children
           gone == {<<t, i>>} \cup (IF t \in Children THEN {} ELSE
                       UNION {{ch} \X ChildRows(t, i, ch) : ch \in children})
<1>1. rows' = [u \in RowTables |-> [j \in Ids |->
                  IF <<u, j>> \in gone THEN NoRow ELSE rows[u][j]]]
  BY DEF Delete
<1>2. \A u \in RowTables, j \in Ids :
          Live(u, j)' <=> Live(u, j) /\ <<u, j>> \notin gone
  BY <1>1 DEF Live
<1>3. \A u \in RowTables, j \in Ids :
          <<u, j>> \notin gone => rows'[u][j] = rows[u][j]
  BY <1>1
<1>4. SUFFICES ASSUME NEW u \in RowTables, NEW j \in Ids, Live(u, j)'
               PROVE  IF u \in Children
                      THEN rows'[u][j] \in Ids /\ Live(Parent(u), rows[u][j])'
                      ELSE rows'[u][j] \in Orgs
  BY DEF RefsLive
<1>5. Live(u, j) /\ <<u, j>> \notin gone /\ rows'[u][j] = rows[u][j]
  BY <1>2, <1>3, <1>4
<1>6. CASE u \notin Children
  BY <1>5, <1>6 DEF RefsLive
<1>7. CASE u \in Children
  <2>1. rows[u][j] \in Ids /\ Live(Parent(u), rows[u][j])
    BY <1>5, <1>7 DEF RefsLive
  <2>2. <<Parent(u), rows[u][j]>> \notin gone
    <3>1. SUFFICES ASSUME <<Parent(u), rows[u][j]>> \in gone PROVE FALSE
      OBVIOUS
    <3>2. Parent(u) \notin Children
      BY <1>7, ParentIsRoot
    <3>3. Parent(u) = t /\ rows[u][j] = i
      BY <3>1, <3>2
    <3>4. t \notin Children
      BY <3>2, <3>3
    <3>5. j \in ChildRows(t, i, u)
      BY <3>3 DEF ChildRows
    <3>6. <<u, j>> \in gone
      BY <1>7, <3>4, <3>5
    <3>7. QED
      BY <3>6, <1>5
  <2>3. rows'[Parent(u)][rows[u][j]] # NoRow
    BY <1>3, <1>7, <2>1, <2>2, ParentIsRoot DEF Live
  <2>4. QED
    BY <1>5, <1>7, <2>1, <2>3 DEF Live
<1>8. QED
  BY <1>6, <1>7

\* That part is kept by every step, as PostgreSQL keeps foreign keys (Insert,
\* Update and Delete are the steps that write rows).
LEMMA ReferencesHold == Spec => []RefsLive
<1>1. Init => RefsLive
  BY DEF Init, RefsLive, Live
<1>2. TypeOK /\ RefsLive /\ [Next]_vars => RefsLive'
  <2> SUFFICES ASSUME TypeOK, RefsLive, [Next]_vars PROVE RefsLive'
    OBVIOUS
  <2>1. ASSUME NEW c \in Conns, NEW t \in RowTables, Write(c, t)
        PROVE  RefsLive'
    <3>1. PICK i \in Ids :
              \/ \E key \in Orgs \cup Ids : Insert(c, t, i, key) \/ Update(c, t, i, key)
              \/ Delete(c, t, i)
      BY <2>1 DEF Write
    <3>2. ASSUME NEW key \in Orgs \cup Ids, Insert(c, t, i, key) \/ Update(c, t, i, key)
          PROVE  RefsLive'
      <4>1. key \in Keys(t) /\ rows' = [rows EXCEPT ![t][i] = key]
        BY <3>2 DEF Insert, Update
      <4>2. QED
        BY <4>1, RefsPut
    <3>3. QED
      BY <3>1, <3>2, RefsDelete
  <2>2. CASE UNCHANGED rows
    BY <2>2 DEF RefsLive, Live
  <2>3. QED
    BY <2>1, <2>2 DEF Next, vars, BeginMigration, MigrationStep,
       CommitMigration, AbortMigration, BeginScoped, EndScoped, Reconnect
<1>3. QED
  BY <1>1, <1>2, TypeCorrect, PTL DEF Spec

-----------------------------------------------------------------------------
(***************************************************************************)
(* Isolation.                                                              *)
(***************************************************************************)

\* In a chained schema whoever is subject to a transitive table's policy is
\* subject to its parent's.
LEMMA SubjectToParent ==
    ASSUME ChainAirtight, NEW c \in Conns, NEW t \in RowTables,
           t \in Children, Subject(c, t)
    PROVE  Subject(c, Parent(t))
  BY TablesAreKnown DEF ChainAirtight, Chained, Subject, SubjectIn

\* A policy of a table c is subject to holds of a key only if the row carries,
\* directly or through its parent, the org in c's setting.
LEMMA HoldsMeansOwn ==
    ASSUME ChainAirtight, NEW c \in Conns, NEW t \in RowTables,
           Subject(c, t), NEW pred, NEW key, Holds(c, t, pred, key)
    PROVE  IF t \in Children
           THEN Live(Parent(t), key) /\ rows[Parent(t)][key] = guc[c]
           ELSE key = guc[c]
<1>1. CASE t \in Children
  <2>1. RootVisible(c, Parent(t), key)
    BY <1>1 DEF Holds, ChildHolds
  <2>2. QED
    BY <1>1, <2>1, SubjectToParent DEF RootVisible, RootHolds
<1>2. CASE t \notin Children
  BY <1>2 DEF Holds, RootHolds
<1>3. QED
  BY <1>1, <1>2

\* Whatever a subject connection sees of a table carries its setting's org.
LEMMA VisibleMeansOwn ==
    ASSUME ChainAirtight, NEW c \in Conns, NEW t \in RowTables,
           Subject(c, t), NEW i \in Visible(c, t)
    PROVE  i \in Ids /\ Live(t, i) /\ OrgOf(t, i) = guc[c]
<1>1. Live(t, i) /\ Holds(c, t, catalog[t].using, rows[t][i])
  BY DEF Visible
<1>2. QED
  BY <1>1, HoldsMeansOwn DEF OrgOf, Visible

\* Read isolation at every moment of the rollout, whoever else runs.
THEOREM ReadsAreIsolated == AllLawful /\ Spec => []ReadIsolation
<1>1. ChainAirtight => ReadIsolation
  BY VisibleMeansOwn DEF ReadIsolation
<1>2. QED
  BY <1>1, RolloutIsChained, PTL

\* The org of a live row is an org: what makes an unscoped reader see nothing.
LEMMA OrgOfIsOrg ==
    ASSUME RefsLive, NEW t \in RowTables, NEW i \in Ids, Live(t, i)
    PROVE  OrgOf(t, i) \in Orgs
  BY ParentIsRoot DEF RefsLive, OrgOf

\* Outside a scoped transaction a subject connection reads nothing, whatever
\* scopes it carried before.
THEOREM UnscopedReadsNothing == AllLawful /\ Spec => []FailClosed
<1>1. TypeOK /\ RefsLive /\ ChainAirtight => FailClosed
  <2> SUFFICES ASSUME TypeOK, RefsLive, ChainAirtight,
                      NEW c \in Conns \ scoped, NEW t \in RowTables,
                      Subject(c, t), NEW i \in Visible(c, t)
               PROVE  FALSE
    BY DEF FailClosed
  <2>1. guc[c] \in Orgs
    BY VisibleMeansOwn, OrgOfIsOrg
  <2>2. QED
    BY <2>1 DEF TypeOK
<1>2. QED
  BY <1>1, RolloutIsChained, TypeCorrect, ReferencesHold, PTL

\* A forgotten scope on a connection that carried one is an error on every
\* FORCEd table: on an org-keyed one because its policy casts, on a transitive
\* one because its parent's does and the foreign key gives it a row to throw on.
THEOREM ForgottenScopesAreLoud == AllLawful /\ Spec => []LoudReuse
<1>1. RefsLive /\ ChainAirtight /\ Recorded => LoudReuse
  <2> SUFFICES ASSUME RefsLive, ChainAirtight, Recorded,
                      NEW c \in Conns, NEW t \in RowTables,
                      Subject(c, t), catalog[t].forced, guc[c] = Empty,
                      NEW i \in Ids, Live(t, i)
               PROVE  Errors(c, t)
    BY DEF LoudReuse
  <2>1. \A u \in RowTables \ Children :
            /\ Subject(c, u) /\ catalog[u].forced /\ \E j \in Ids : Live(u, j)
            => RootErrors(c, u)
    BY TablesAreKnown DEF RootErrors, Recorded, RecordedOf
  <2>2. CASE t \notin Children
    BY <2>1, <2>2 DEF Errors
  <2>3. CASE t \in Children
    <3>1. Parent(t) \in RowTables \ Children
      BY <2>3, ParentIsRoot
    <3>2. Subject(c, Parent(t)) /\ catalog[Parent(t)].forced
      BY <2>3, SubjectToParent, TablesAreKnown DEF ChainAirtight, Chained
    <3>3. \E j \in Ids : Live(Parent(t), j)
      BY <2>3 DEF RefsLive
    <3> QED BY <2>1, <2>3, <3>1, <3>2, <3>3 DEF Errors
  <2> QED BY <2>2, <2>3
<1> SUFFICES ASSUME AllLawful PROVE Spec => []LoudReuse
  OBVIOUS
<1> QED BY <1>1, RolloutIsChained, CatalogueIsRecorded, ReferencesHold, PTL

\* The effect of writing key into row i of table t on the rows that differ.
LEMMA PutIsOwn ==
    ASSUME TypeOK, RefsLive, ChainAirtight,
           NEW c \in Conns, NEW t \in RowTables, Subject(c, t),
           NEW i \in Ids, NEW key \in Orgs \cup Ids,
           MayWrite(c, t, key), Live(t, i) => i \in Visible(c, t),
           rows' = [rows EXCEPT ![t][i] = key],
           NEW u \in RowTables, NEW j \in Ids, rows'[u][j] # rows[u][j]
    PROVE  /\ Live(u, j) => OrgOf(u, j) = guc[c]
           /\ Live(u, j)' => OrgOf(u, j)' = guc[c]
<1>1. u = t /\ j = i /\ rows'[t][i] = key
  BY DEF TypeOK
<1>2. Live(u, j) => OrgOf(u, j) = guc[c]
  BY <1>1, VisibleMeansOwn
<1>3. Holds(c, t, CheckClause(t), key)
  BY DEF MayWrite
<1>4. CASE t \notin Children
  BY <1>1, <1>2, <1>3, <1>4, HoldsMeansOwn DEF OrgOf
<1>5. CASE t \in Children
  <2>1. Parent(t) \in RowTables /\ Parent(t) # t
    BY <1>5, ParentIsRoot
  <2>2. rows'[Parent(t)] = rows[Parent(t)]
    BY <2>1 DEF TypeOK
  <2>3. rows[Parent(t)][key] = guc[c]
    BY <1>3, <1>5, HoldsMeansOwn
  <2>4. OrgOf(u, j)' = guc[c]
    BY <1>1, <1>5, <2>2, <2>3 DEF OrgOf
  <2>5. QED
    BY <1>2, <2>4
<1>6. QED
  BY <1>4, <1>5

\* The rows a delete removes, cascades included, are the scope's own.
LEMMA DeleteIsOwn ==
    ASSUME TypeOK, RefsLive, ChainAirtight,
           NEW c \in Conns, NEW t \in RowTables, Subject(c, t),
           NEW i \in Ids, Delete(c, t, i),
           NEW u \in RowTables, NEW j \in Ids, rows'[u][j] # rows[u][j]
    PROVE  /\ OrgOf(u, j) = guc[c]
           /\ ~Live(u, j)'
<1> DEFINE children == RowTables \cap Children
           gone == {<<t, i>>} \cup (IF t \in Children THEN {} ELSE
                       UNION {{ch} \X ChildRows(t, i, ch) : ch \in children})
<1>1. rows' = [v \in RowTables |-> [k \in Ids |->
                  IF <<v, k>> \in gone THEN NoRow ELSE rows[v][k]]]
  BY DEF Delete
<1>2. OrgOf(t, i) = guc[c]
  BY VisibleMeansOwn DEF Delete
<1>3. <<u, j>> \in gone /\ rows'[u][j] = NoRow
  BY <1>1
<1>4. CASE u = t /\ j = i
  BY <1>2, <1>3, <1>4 DEF Live
<1>5. CASE ~(u = t /\ j = i)
  <2>1. t \notin Children /\ u \in Children /\ j \in ChildRows(t, i, u)
    BY <1>3, <1>5
  <2>2. Parent(u) = t /\ rows[u][j] = i
    BY <2>1 DEF ChildRows
  <2>3. QED
    BY <1>2, <1>3, <2>1, <2>2 DEF OrgOf, Live
<1>6. QED
  BY <1>4, <1>5

\* Write isolation: no statement of a subject connection creates, changes or
\* removes a row of another org, directly or by cascade.
THEOREM WritesAreIsolated == AllLawful /\ Spec => WriteIsolation
<1>1. TypeOK /\ RefsLive /\ ChainAirtight => SubjectWritesOnlyOwn
  <2> SUFFICES ASSUME TypeOK, RefsLive, ChainAirtight,
                      NEW c \in Conns, NEW t \in RowTables,
                      Subject(c, t), Write(c, t)
               PROVE  OnlyOwnRows(c)
    BY DEF SubjectWritesOnlyOwn
  <2>1. PICK i \in Ids :
            \/ \E key \in Orgs \cup Ids : Insert(c, t, i, key) \/ Update(c, t, i, key)
            \/ Delete(c, t, i)
    BY DEF Write
  <2>2. ASSUME NEW key \in Orgs \cup Ids, Insert(c, t, i, key) \/ Update(c, t, i, key)
        PROVE  OnlyOwnRows(c)
    <3>1. /\ MayWrite(c, t, key)
          /\ Live(t, i) => i \in Visible(c, t)
          /\ rows' = [rows EXCEPT ![t][i] = key]
      BY <2>2 DEF Insert, Update
    <3>2. QED
      BY <3>1, PutIsOwn DEF OnlyOwnRows
  <2>3. CASE Delete(c, t, i)
    BY <2>3, DeleteIsOwn DEF OnlyOwnRows
  <2>4. QED
    BY <2>1, <2>2, <2>3
<1>2. QED
  BY <1>1, RolloutIsChained, TypeCorrect, ReferencesHold, PTL DEF WriteIsolation
=============================================================================
