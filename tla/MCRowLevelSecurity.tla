-------------------------- MODULE MCRowLevelSecurity --------------------------
(***************************************************************************)
(* Instances of RowLevelSecurity over the real catalogue.                  *)
(***************************************************************************)
EXTENDS RowLevelSecurity, RlsCatalog, TLC

CONSTANTS a, w, o1, o2

MCOrgs == {o1, o2}
MCConns == {a, w}
MCRole == a :> "app" @@ w :> "owner"
MCSymmetry == Permutations(MCOrgs)

\* Every migration and every table, rows in the two a backfill rewrites and in
\* the first chain whose parent is FORCEd before its child.
CatalogueTables == TablesOf(AllMigrations)
CatalogueOpen == OrglessTables \cup OpenOrgTables
CatalogueRowTables == {"workspaces", "environments", "tunnels", "org_plan_grace"}

\* The chain whose policies change their cast, and whose foreign key cascades.
CascadeMigrations == <<mig_20260503, mig_20260504, mig_20260622, mig_20260623>>
CascadeTables == TablesOf(CascadeMigrations)
CascadeRowTables == {"tool_invocations", "tool_invocation_payloads"}

\* The instance that sets a comment against the schema.
LogsMigrations == <<mig_20260706>>
LogsTables == {"instance_logs"}
=============================================================================
