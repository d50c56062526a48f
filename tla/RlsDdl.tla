------------------------------- MODULE RlsDdl -------------------------------
(***************************************************************************)
(* The schema statements the PostgreSQL migrations are made of, as far as  *)
(* they decide who sees and writes which tenant's rows, and what each of   *)
(* them does to a table's row-security posture.                            *)
(*                                                                         *)
(* Columns, indexes, types and defaults are abstracted away.  What is left *)
(* of a table is whether it exists, whether row security is ENABLEd and    *)
(* FORCEd on it, and the two predicates of its only policy.                *)
(***************************************************************************)
EXTENDS Naturals, Sequences

(***************************************************************************)
(* The predicates the policies of this schema use.                         *)
(*   OrgUuid       org_id = current_setting('mcpg.org_id', true)::UUID     *)
(*   OrgText       org_id::text = current_setting('mcpg.org_id', true)     *)
(*   ViaParent     parent id IN (SELECT id FROM parent table)              *)
(*   ViaParentUuid EXISTS parent row with org_id = current_setting::UUID   *)
(*   ViaParentText EXISTS parent row with org_id::text = current_setting   *)
(*   Absent        the clause is not written                               *)
(***************************************************************************)
Predicates ==
    {"OrgUuid", "OrgText", "ViaParent", "ViaParentUuid", "ViaParentText"}

Absent == "Absent"

(***************************************************************************)
(* Statements.                                                             *)
(***************************************************************************)
Clauses == Predicates \cup {Absent}

Statements(tables) ==
    [op : {"create", "enable", "force", "noforce", "backfill", "policy"},
     table : tables, using : Clauses, check : Clauses]

Stmt(op, t, using, check) ==
    [op |-> op, table |-> t, using |-> using, check |-> check]

Create(t)       == Stmt("create", t, Absent, Absent)
Enable(t)       == Stmt("enable", t, Absent, Absent)
ForceRls(t)     == Stmt("force", t, Absent, Absent)
NoForceRls(t)   == Stmt("noforce", t, Absent, Absent)
Backfill(t)     == Stmt("backfill", t, Absent, Absent)

\* CREATE POLICY and ALTER POLICY leave the table with these two clauses.
Policy(t, using, check) == Stmt("policy", t, using, check)

\* Every statement but the backfill's UPDATE takes the table's ACCESS
\* EXCLUSIVE lock, which its transaction holds until it ends.
TakesLock(s) == s.op # "backfill"

(***************************************************************************)
(* A table's posture, and what a statement does to the posture of all.     *)
(***************************************************************************)
Posture == [exists : BOOLEAN, enabled : BOOLEAN, forced : BOOLEAN,
            using : Clauses, check : Clauses]

NoTable == [exists |-> FALSE, enabled |-> FALSE, forced |-> FALSE,
            using |-> Absent, check |-> Absent]

ApplyStmt(cat, s) ==
    CASE s.op = "create"  -> [cat EXCEPT ![s.table].exists = TRUE]
      [] s.op = "enable"  -> [cat EXCEPT ![s.table].enabled = TRUE]
      [] s.op = "force"   -> [cat EXCEPT ![s.table].forced = TRUE]
      [] s.op = "noforce" -> [cat EXCEPT ![s.table].forced = FALSE]
      [] s.op = "policy"  -> [cat EXCEPT ![s.table].using = s.using,
                                         ![s.table].check = s.check]
      [] OTHER            -> cat
=============================================================================
