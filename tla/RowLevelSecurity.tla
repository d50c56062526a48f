--------------------------- MODULE RowLevelSecurity ---------------------------
(***************************************************************************)
(* Tenant isolation by PostgreSQL row-level security, while the migrations *)
(* that build it up are being applied under running connections.           *)
(*                                                                         *)
(* A pooled connection runs statements of tenant handlers.  A handler      *)
(* opens a transaction and scopes it to its org (SET LOCAL mcpg.org_id);   *)
(* when the transaction ends the setting reverts to the empty string, and  *)
(* a connection that never was scoped reads the setting as NULL.  Beside   *)
(* them, one connection at a time applies the next migration, statement by *)
(* statement, in a transaction that commits whole or not at all.           *)
(*                                                                         *)
(* The posture of every table is what the migration files say it is        *)
(* (RlsDdl, RlsCatalog).  How PostgreSQL acts on a posture is external to  *)
(* the repository.  Most of it is modelled from what the migrations say:   *)
(* who is subject to ENABLE and to FORCE, NULL and '' settings.  In one    *)
(* place it is modelled against them: five files (20260613, 20260614,      *)
(* 20260615, 20260617, 20260618) say that a policy with USING alone leaves *)
(* writes unconstrained, and PostgreSQL applies USING to them (CREATE      *)
(* POLICY: with no WITH CHECK, USING decides the new rows too).            *)
(***************************************************************************)
EXTENDS RlsDdl

CONSTANTS
    Orgs,        \* the tenants
    Conns,       \* the connections of the pool
    Role,        \* Role[c]: the database role connection c runs under
    Ids,         \* row ids of each table
    NoRow,       \* an id no row of the table carries
    Unset,       \* mcpg.org_id of a connection never scoped: NULL
    Empty,       \* mcpg.org_id of a connection whose scope ended: ''
    NoConn,      \* no connection is migrating
    Tables,      \* every table the migrations name
    Open,        \* those meant to stay without row security
    RowTables,   \* the tables whose rows the instance follows
    Migrations   \* the migrations to apply: sequences of statements

\* The roles of migrations/postgres/20260613_001_rls_force_workspaces.sql.
Roles == {"superuser", "bypass", "owner", "app"}

\* The table a transitive policy (and the foreign key under it) refers to.
Children == {"environments", "bindings", "tool_invocation_payloads"}

Parent(t) == CASE t = "environments" -> "workspaces"
               [] t = "bindings"     -> "instances"
               [] OTHER              -> "tool_invocations"

\* The children whose foreign key says ON DELETE CASCADE.
Cascades == {"bindings", "tool_invocation_payloads"}

ASSUME ConstantsAreDistinct ==
    /\ Unset \notin Orgs /\ Empty \notin Orgs /\ Unset # Empty
    /\ NoRow \notin Orgs /\ NoRow \notin Ids
    /\ NoConn \notin Conns

ASSUME RolesAreKnown == Role \in [Conns -> Roles]

ASSUME TablesAreKnown ==
    /\ RowTables \subseteq Tables /\ Open \subseteq Tables
    /\ \A t \in RowTables \cap Children : Parent(t) \in RowTables \ Children

ASSUME MigrationsAreScripts == Migrations \in Seq(Seq(Statements(Tables)))

VARIABLES
    catalog,     \* the committed posture of every table
    applied,     \* how many migrations are committed
    migrator,    \* the connection applying the next one, or NoConn
    done,        \* how many statements of it have run
    altered,     \* the posture its transaction sees, else the committed one
    rows,        \* rows[t][i]: the org of row i, its parent's id if t is a
                 \* child table, or NoRow
    missing,     \* rows that predate a backfill and were not rewritten by it
    draft,       \* missing, as the migrating transaction sees it
    guc,         \* guc[c]: the connection's mcpg.org_id
    scoped       \* the connections inside a scoped transaction

vars == <<catalog, applied, migrator, done, altered, rows, missing, draft, guc, scoped>>

-----------------------------------------------------------------------------
\* The tables the migrating transaction has locked.
Locked == IF migrator = NoConn THEN {}
          ELSE {Migrations[applied + 1][k].table :
                   k \in {j \in 1..done : TakesLock(Migrations[applied + 1][j])}}

(***************************************************************************)
(* Who a posture applies to: a superuser and a BYPASSRLS role never, the   *)
(* owner only under FORCE, anyone else as soon as it is ENABLEd.           *)
(***************************************************************************)
SubjectIn(cat, c, t) ==
    /\ cat[t].enabled
    /\ \/ Role[c] = "app"
       \/ Role[c] = "owner" /\ cat[t].forced

Subject(c, t) == SubjectIn(catalog, c, t)

Live(t, i) == rows[t][i] # NoRow

\* The tenant a row belongs to.
OrgOf(t, i) == IF t \in Children THEN rows[Parent(t)][rows[t][i]]
               ELSE rows[t][i]

(***************************************************************************)
(* Policies.  An org key matches only a setting that names that org: NULL  *)
(* matches nothing and '' either throws (::UUID) or matches nothing.  The  *)
(* subquery of a transitive policy runs under the same connection, so the  *)
(* parent's own policy filters it.                                         *)
(***************************************************************************)
RootHolds(c, pred, org) == pred \in {"OrgUuid", "OrgText"} /\ org = guc[c]

RootVisible(c, t, i) ==
    Live(t, i) /\ (Subject(c, t) => RootHolds(c, catalog[t].using, rows[t][i]))

ChildHolds(c, t, pred, p) ==
    /\ RootVisible(c, Parent(t), p)
    /\ \/ pred = "ViaParent"
       \/ pred \in {"ViaParentUuid", "ViaParentText"} /\ rows[Parent(t)][p] = guc[c]

\* Whether predicate pred of table t's policy holds of a row with this key.
Holds(c, t, pred, key) ==
    IF t \in Children THEN ChildHolds(c, t, pred, key) ELSE RootHolds(c, pred, key)

\* What a SELECT of connection c on table t can return.
Visible(c, t) ==
    {i \in Ids : Live(t, i) /\ (Subject(c, t) =>
                                   Holds(c, t, catalog[t].using, rows[t][i]))}

\* An absent WITH CHECK falls back to the USING clause: PostgreSQL's rule, and
\* not what the comments of 20260613 to 20260618 say of the first policies.
CheckClause(t) ==
    IF catalog[t].check = Absent THEN catalog[t].using ELSE catalog[t].check

\* Mutant: a policy without WITH CHECK leaves writes unconstrained, as those
\* comments have it.
MayWrite_NoFallback(c, t, key) ==
    Subject(c, t) /\ catalog[t].check # Absent =>
        Holds(c, t, CheckClause(t), key)

MayWrite(c, t, key) == Subject(c, t) => Holds(c, t, CheckClause(t), key)

(***************************************************************************)
(* Whether a SELECT raises the cast error: it does when a policy that      *)
(* casts to UUID is evaluated on some row under the setting ''.            *)
(***************************************************************************)
RootErrors(c, t) ==
    /\ Subject(c, t) /\ catalog[t].using = "OrgUuid" /\ guc[c] = Empty
    /\ \E i \in Ids : Live(t, i)

Errors(c, t) ==
    IF t \in Children
    THEN /\ Subject(c, t)
         /\ \E i \in Ids : Live(t, i)
         /\ \/ RootErrors(c, Parent(t))
            \/ catalog[t].using = "ViaParentUuid" /\ guc[c] = Empty
    ELSE RootErrors(c, t)

\* A statement on t waits while a migration holds its lock, or its parent's
\* when the policy reads it.
Runs(c, t) ==
    /\ c # migrator
    /\ catalog[t].exists
    /\ t \notin Locked
    /\ t \in Children => Parent(t) \notin Locked
-----------------------------------------------------------------------------
Init ==
    /\ catalog = [t \in Tables |-> NoTable]
    /\ applied = 0
    /\ migrator = NoConn
    /\ done = 0
    /\ altered = catalog
    /\ rows = [t \in RowTables |-> [i \in Ids |-> NoRow]]
    /\ missing = {}
    /\ draft = {}
    /\ guc = [c \in Conns |-> Unset]
    /\ scoped = {}

(***************************************************************************)
(* Migrations.  The runner takes an idle connection of a role that owns    *)
(* the tables, and each file is one transaction.                           *)
(***************************************************************************)
BeginMigration(c) ==
    /\ migrator = NoConn
    /\ applied < Len(Migrations)
    /\ c \notin scoped
    /\ Role[c] \in {"superuser", "owner"}
    /\ migrator' = c
    /\ done' = 0
    /\ draft' = missing
    /\ UNCHANGED <<catalog, applied, altered, rows, missing, guc, scoped>>

\* The rows a backfill's UPDATE reaches: all of them to a role that is not
\* subject to the posture of the moment, else those of the scope, and the
\* migrating transaction has none.
Backfilled(c, t) ==
    IF SubjectIn(altered, c, t) THEN {} ELSE {t} \X Ids

MigrationStep ==
    /\ migrator # NoConn
    /\ done < Len(Migrations[applied + 1])
    /\ LET s == Migrations[applied + 1][done + 1]
       IN  /\ altered' = ApplyStmt(altered, s)
           /\ draft' = IF s.op = "backfill"
                       THEN draft \ Backfilled(migrator, s.table) ELSE draft
    /\ done' = done + 1
    /\ UNCHANGED <<catalog, applied, migrator, rows, missing, guc, scoped>>

CommitMigration ==
    /\ migrator # NoConn
    /\ done = Len(Migrations[applied + 1])
    /\ catalog' = altered
    /\ applied' = applied + 1
    /\ missing' = draft
    /\ migrator' = NoConn
    /\ done' = 0
    /\ draft' = {}
    /\ UNCHANGED <<altered, rows, guc, scoped>>

\* Mutant: each statement commits by itself, so a crash keeps the prefix.
AbortMigration_Autocommit ==
    /\ migrator # NoConn
    /\ catalog' = altered
    /\ migrator' = NoConn
    /\ done' = 0
    /\ draft' = {}
    /\ UNCHANGED <<applied, altered, rows, missing, guc, scoped>>

\* The process dies or a statement fails: the transaction rolls back.
AbortMigration ==
    /\ migrator # NoConn
    /\ migrator' = NoConn
    /\ done' = 0
    /\ altered' = catalog
    /\ draft' = {}
    /\ UNCHANGED <<catalog, applied, rows, missing, guc, scoped>>

(***************************************************************************)
(* Connections.                                                            *)
(***************************************************************************)
\* Mutant: the pool hands out the connection that is migrating.
BeginScoped_NoRunnerCheck(c, o) ==
    /\ c \notin scoped
    /\ guc' = [guc EXCEPT ![c] = o]
    /\ scoped' = scoped \cup {c}
    /\ UNCHANGED <<catalog, applied, migrator, done, altered, rows, missing, draft>>

BeginScoped(c, o) ==
    /\ c \notin scoped /\ c # migrator
    /\ guc' = [guc EXCEPT ![c] = o]
    /\ scoped' = scoped \cup {c}
    /\ UNCHANGED <<catalog, applied, migrator, done, altered, rows, missing, draft>>

\* Mutant: SET instead of SET LOCAL, so the scope outlives its transaction.
EndScoped_SessionWide(c) ==
    /\ c \in scoped
    /\ scoped' = scoped \ {c}
    /\ UNCHANGED <<catalog, applied, migrator, done, altered, rows, missing, draft, guc>>

EndScoped(c) ==
    /\ c \in scoped
    /\ guc' = [guc EXCEPT ![c] = Empty]
    /\ scoped' = scoped \ {c}
    /\ UNCHANGED <<catalog, applied, migrator, done, altered, rows, missing, draft>>

\* The pool drops the connection and opens a new one in its place.
Reconnect(c) ==
    /\ c # migrator
    /\ guc' = [guc EXCEPT ![c] = Unset]
    /\ scoped' = scoped \ {c}
    /\ UNCHANGED <<catalog, applied, migrator, done, altered, rows, missing, draft>>

(***************************************************************************)
(* Statements of tenant handlers.  Foreign keys are checked by the system, *)
(* past row security: the parent must exist, visible or not.               *)
(***************************************************************************)
Keys(t) == IF t \in Children THEN {p \in Ids : Live(Parent(t), p)} ELSE Orgs

\* A later migration of the catalogue rewrites the rows t has by then.
AwaitsBackfill(t) ==
    \E n \in (applied + 1)..Len(Migrations) :
        \E k \in 1..Len(Migrations[n]) : Migrations[n][k] = Backfill(t)

Insert(c, t, i, key) ==
    /\ Runs(c, t)
    /\ ~Live(t, i)
    /\ key \in Keys(t)
    /\ MayWrite(c, t, key)
    /\ rows' = [rows EXCEPT ![t][i] = key]
    /\ missing' = IF AwaitsBackfill(t) THEN missing \cup {<<t, i>>} ELSE missing
    /\ draft' = IF migrator # NoConn /\ AwaitsBackfill(t)
                THEN draft \cup {<<t, i>>} ELSE draft
    /\ UNCHANGED <<catalog, applied, migrator, done, altered, guc, scoped>>

Update(c, t, i, key) ==
    /\ Runs(c, t)
    /\ i \in Visible(c, t)
    /\ key \in Keys(t)
    /\ MayWrite(c, t, key)
    /\ rows' = [rows EXCEPT ![t][i] = key]
    /\ UNCHANGED <<catalog, applied, migrator, done, altered, missing, draft, guc, scoped>>

\* The child rows of row i of table t, in table ch.
ChildRows(t, i, ch) ==
    IF Parent(ch) = t THEN {j \in Ids : rows[ch][j] = i} ELSE {}

Delete(c, t, i) ==
    LET children == RowTables \cap Children
        gone == {<<t, i>>} \cup (IF t \in Children THEN {} ELSE
                    UNION {{ch} \X ChildRows(t, i, ch) : ch \in children})
    IN  /\ Runs(c, t)
        /\ i \in Visible(c, t)
        /\ t \notin Children =>
              \A ch \in children \ Cascades : ChildRows(t, i, ch) = {}
        /\ \A r \in gone : r[1] \notin Locked
        /\ rows' = [u \in RowTables |-> [j \in Ids |->
                       IF <<u, j>> \in gone THEN NoRow ELSE rows[u][j]]]
        /\ missing' = missing \ gone
        /\ draft' = draft \ gone
        /\ UNCHANGED <<catalog, applied, migrator, done, altered, guc, scoped>>

\* A statement of connection c on table t that writes.
Write(c, t) ==
    \E i \in Ids :
        \/ \E key \in Orgs \cup Ids : Insert(c, t, i, key) \/ Update(c, t, i, key)
        \/ Delete(c, t, i)

Next ==
    \/ \E c \in Conns :
          \/ BeginMigration(c)
          \/ \E o \in Orgs : BeginScoped(c, o)
          \/ EndScoped(c)
          \/ Reconnect(c)
          \/ \E t \in RowTables : Write(c, t)
    \/ MigrationStep
    \/ CommitMigration
    \/ AbortMigration

Spec == Init /\ [][Next]_vars

-----------------------------------------------------------------------------
(***************************************************************************)
(* Properties.                                                             *)
(***************************************************************************)
\* The shape of the state: the pool never hands out the migrating connection,
\* a scope is an org's, and a migration in progress, which a role that owns
\* the tables applies, leaves nothing behind it.
TypeOK ==
    /\ catalog \in [Tables -> Posture] /\ altered \in [Tables -> Posture]
    /\ applied \in 0..Len(Migrations)
    /\ migrator \in (Conns \ scoped) \cup {NoConn}
    /\ migrator # NoConn =>
          /\ Role[migrator] \in {"superuser", "owner"}
          /\ applied < Len(Migrations) /\ done \in 0..Len(Migrations[applied + 1])
    /\ migrator = NoConn => done = 0 /\ draft = {} /\ altered = catalog
    /\ rows \in [RowTables -> [Ids -> Orgs \cup Ids \cup {NoRow}]]
    /\ missing \subseteq RowTables \X Ids
    /\ draft \subseteq RowTables \X Ids
    /\ guc \in [Conns -> Orgs \cup {Unset, Empty}]
    /\ scoped = {c \in Conns : guc[c] \in Orgs}

\* Whatever a subject connection can read, at any point of the rollout and
\* beside any running migration, belongs to the org it is scoped to: the
\* org-keyed policies directly, the transitive ones of environments, bindings
\* and tool_invocation_payloads through their parent's policy.
ReadIsolation ==
    \A c \in Conns, t \in RowTables :
        Runs(c, t) /\ Subject(c, t) =>
            \A i \in Visible(c, t) : OrgOf(t, i) = guc[c]

\* A subject connection outside a scoped transaction reads no row at all,
\* whether it was never scoped or carried another org's scope before (the
\* pool reuses connections).
FailClosed ==
    \A c \in Conns \ scoped, t \in RowTables :
        Runs(c, t) /\ Subject(c, t) => Visible(c, t) = {}

\* Once a table is FORCEd, a forgotten scope on a reused connection is a cast
\* error and not an empty answer, for the transitive tables too (their foreign
\* key guarantees the parent row whose policy throws).
LoudReuse ==
    \A c \in Conns, t \in RowTables :
        /\ Runs(c, t) /\ Subject(c, t) /\ catalog[t].forced
        /\ guc[c] = Empty
        /\ \E i \in Ids : Live(t, i)
        => Errors(c, t)

\* A transitive table is enforced only on top of an enforced parent: "both
\* tables must be FORCEd for the chain to be airtight" (20260614, 20260616).
Chained(cat) ==
    \A t \in Tables \cap Children :
        /\ cat[t].enabled => cat[Parent(t)].enabled
        /\ cat[t].forced => cat[Parent(t)].forced

ChainAirtight == Chained(catalog)

\* A table is enforced for its owner as for anyone else, with a policy that
\* checks what it hides.
Enforced(t) ==
    /\ catalog[t].exists /\ catalog[t].enabled /\ catalog[t].forced
    /\ catalog[t].using \in Predicates
    /\ catalog[t].check = catalog[t].using

\* After the last migration every table any file creates is enforced, but for
\* the named few that are left open: a table that a file forgets to protect,
\* or protects and leaves off, is in neither set.
RolloutComplete ==
    applied = Len(Migrations) => {t \in Tables : Enforced(t)} = Tables \ Open

\* A backfill, run without a scope by the tables' owner, reaches every org's
\* rows: none that predates it is left out once its migration is applied
\* (20260916, 20260922: "FORCEd RLS hides every row from the owner role").
BackfillReachesAll ==
    \A r \in missing : AwaitsBackfill(r[1])

\* No migration leaves a table less enforced than it found it, the two that
\* lift FORCE for a backfill included, and a crash inside their window rolls
\* the window back.
NeverLifted ==
    [][\A t \in Tables : catalog[t].forced => catalog'[t].forced]_catalog

(***************************************************************************)
(* The rules the migration files keep, each about the text of one file and *)
(* of those before it.  RowLevelSecurityProofs shows that whatever files   *)
(* keep them, the properties of the catalogue hold at every moment.        *)
(***************************************************************************)
Lines(n) == DOMAIN Migrations[n]

Says(n, k, op, t) == Migrations[n][k].op = op /\ Migrations[n][k].table = t

Has(n, op, t) == \E k \in Lines(n) : Says(n, k, op, t)

\* A file that lifts FORCE restores it.
RestoresForce(n) ==
    \A t \in Tables, k \in Lines(n) : Says(n, k, "noforce", t) =>
        \E j \in Lines(n) : j > k /\ Says(n, j, "force", t)

\* A backfill stands where its file has lifted FORCE.
LiftsForBackfills(n) ==
    \A t \in Tables, k \in Lines(n) : Says(n, k, "backfill", t) =>
        \E j \in 1..(k - 1) : /\ Says(n, j, "noforce", t)
                              /\ \A i \in j..k : ~Says(n, i, "force", t)

\* A transitive table is enforced no earlier than its parent.
ParentsFirst(n) ==
    \A t \in Tables \cap Children, op \in {"enable", "force"} :
        Has(n, op, t) => \E m \in 1..n : Has(m, op, Parent(t))

\* Line k of file m says what t's policy is after the first n files.
LastPolicy(n, t, m, k) ==
    /\ Says(m, k, "policy", t)
    /\ \A i \in (m + 1)..n : ~Has(i, "policy", t)
    /\ \A j \in Lines(m) : j > k => ~Says(m, j, "policy", t)

\* A file that names a FORCEd org-keyed table leaves it a policy that casts
\* the setting to UUID.
CastsForced(n) ==
    \A t \in {Migrations[n][k].table : k \in Lines(n)} \ Children :
        (\E m \in 1..n : Has(m, "force", t)) =>
            \E m \in 1..n : \E k \in Lines(m) :
                LastPolicy(n, t, m, k) /\ Migrations[m][k].using = "OrgUuid"

\* All files together leave a table enforced under a policy that checks what
\* it hides.
Completes(t) ==
    /\ \A op \in {"create", "enable", "force"} :
          \E n \in DOMAIN Migrations : Has(n, op, t)
    /\ \E n \in DOMAIN Migrations : \E k \in Lines(n) :
          /\ LastPolicy(Len(Migrations), t, n, k)
          /\ Migrations[n][k].using \in Predicates
          /\ Migrations[n][k].check = Migrations[n][k].using

Lawful ==
    {n \in DOMAIN Migrations :
        RestoresForce(n) /\ LiftsForBackfills(n) /\ ParentsFirst(n) /\ CastsForced(n)}

Completed == {t \in Tables : Completes(t)}

\* The tables no file puts row security on.
LeftOpen == {t \in Tables : \A n \in DOMAIN Migrations : ~Has(n, "enable", t)}

\* Every migration file keeps the rules (20260614: "both tables must be FORCEd
\* for the chain to be airtight"; 20260916, 20260922: FORCE is lifted for the
\* backfill and restored; 20260622: an org-keyed policy casts), and together
\* they enforce every table they create but those left open by name.
RulesAreKept ==
    /\ 1..applied \subseteq Lawful
    /\ applied = Len(Migrations) => Completed = Tables \ Open /\ LeftOpen = Open

-----------------------------------------------------------------------------
\* What a statement of connection c may do: every row it creates, changes or
\* removes belongs to c's org, before and after.
OnlyOwnRows(c) ==
    \A u \in RowTables, j \in Ids :
        rows'[u][j] # rows[u][j] =>
            /\ Live(u, j) => OrgOf(u, j) = guc[c]
            /\ Live(u, j)' => OrgOf(u, j)' = guc[c]

SubjectWritesOnlyOwn ==
    \A c \in Conns, t \in RowTables :
        Subject(c, t) /\ Write(c, t) => OnlyOwnRows(c)

\* A statement of a subject connection creates, changes and deletes rows of
\* its own org only, rows deleted by cascade included, and from the first
\* policies on: USING decides its new rows where there is no WITH CHECK.  The
\* comments of 20260613 to 20260618 ("the original USING-only policy let a
\* scoped caller write any org_id") say that this fails until their phase.
WriteIsolation == [][SubjectWritesOnlyOwn]_rows

-----------------------------------------------------------------------------
(***************************************************************************)
(* What a comment of a migration says, and the schema does not do.         *)
(***************************************************************************)

\* 20260706_001_instance_logs.sql, lines 37-38: "an unset scope THROWS (a
\* forgotten scope is a loud error, never a silent leak)".
UnsetScopeThrows ==
    \A c \in Conns \ scoped :
        /\ Runs(c, "instance_logs") /\ Subject(c, "instance_logs")
        /\ \E i \in Ids : Live("instance_logs", i)
        => Errors(c, "instance_logs")
=============================================================================
