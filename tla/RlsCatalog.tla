----------------------------- MODULE RlsCatalog -----------------------------
(***************************************************************************)
(* The PostgreSQL migrations under migrations/postgres/, in the order they *)
(* are applied, reduced to the statements of RlsDdl.  Every file that      *)
(* creates a table, changes a table's row security or rewrites its rows is *)
(* listed; the others leave every posture as it was.                       *)
(*                                                                         *)
(* Each migration is named after its file, mig_<date>.                     *)
(***************************************************************************)
EXTENDS RlsDdl

(***************************************************************************)
(* Shapes that several migrations share.                                   *)
(***************************************************************************)
\* A table of the early schema: ENABLEd, a USING clause only.
EnabledOnly(t, using) == <<Create(t), Enable(t), Policy(t, using, Absent)>>

\* A phase of the rollout: the policy gains its WITH CHECK, then FORCE.
ForcePhase(t, pred) == <<Policy(t, pred, pred), ForceRls(t)>>

\* A table born after the rollout; some files put FORCE before the policy,
\* some after it.
BornForced(t) == <<Create(t), Enable(t), Policy(t, "OrgUuid", "OrgUuid"),
                   ForceRls(t)>>
BornForcedFirst(t) == <<Create(t), Enable(t), ForceRls(t),
                        Policy(t, "OrgUuid", "OrgUuid")>>

\* A cross-org data migration: FORCE is lifted for one statement.
LiftedBackfill_StillForced(t) == <<Backfill(t), ForceRls(t)>>    \* mutant
LiftedBackfill_NoReforce(t) == <<NoForceRls(t), Backfill(t)>>    \* mutant
LiftedBackfill(t) == <<NoForceRls(t), Backfill(t), ForceRls(t)>>

(***************************************************************************)
(* The schema before the rollout.                                          *)
(***************************************************************************)
InitCreated ==
    <<"orgs", "workspaces", "environments", "users", "org_memberships",
      "sessions", "bootstrap_tokens", "instances", "plugin_sets", "bindings",
      "audit_log">>
InitTables ==
    <<"workspaces", "environments", "instances", "plugin_sets", "bindings",
      "bootstrap_tokens", "org_memberships", "audit_log">>
InitPolicy(t) ==
    IF t \in {"environments", "bindings"} THEN "ViaParent" ELSE "OrgUuid"
mig_20260428 ==
    [k \in DOMAIN InitCreated |-> Create(InitCreated[k])]
    \o [k \in DOMAIN InitTables |-> Enable(InitTables[k])]
    \o [k \in DOMAIN InitTables |->
            Policy(InitTables[k], InitPolicy(InitTables[k]), Absent)]
mig_20260429 == <<Create("cluster_secrets")>>
mig_20260430 == <<Create("agent_replica_claims"), Create("agent_pending_pushes")>>
mig_20260501 == <<Create("leader_leases")>>
mig_20260502 == EnabledOnly("instance_status_reports", "OrgText")
mig_20260503 ==
    EnabledOnly("tool_invocations", "OrgText")
    \o EnabledOnly("tool_usage_rollups_hourly", "OrgText")
    \o EnabledOnly("tool_usage_rollups_daily", "OrgText")
mig_20260504 == EnabledOnly("tool_invocation_payloads", "ViaParentText")
mig_20260509 == EnabledOnly("tenant_payload_keys", "OrgText")
mig_20260610 == <<Create("instance_slugs")>>
mig_20260612 == <<Create("config_artifacts")>>

(***************************************************************************)
(* The phased rollout of FORCE.                                            *)
(***************************************************************************)
mig_20260613_NoForce == <<Policy("workspaces", "OrgUuid", "OrgUuid")>>  \* mutant
mig_20260613 == ForcePhase("workspaces", "OrgUuid")
mig_20260614 == ForcePhase("environments", "ViaParent")
mig_20260615_NoForce == <<Policy("instances", "OrgUuid", "OrgUuid")>>  \* mutant
mig_20260615 == ForcePhase("instances", "OrgUuid")
mig_20260616 == ForcePhase("bindings", "ViaParent")
mig_20260617 == ForcePhase("plugin_sets", "OrgUuid")
mig_20260618 == ForcePhase("audit_log", "OrgUuid")
mig_20260619 == ForcePhase("org_memberships", "OrgUuid")
mig_20260620 == ForcePhase("bootstrap_tokens", "OrgUuid")
mig_20260621 == ForcePhase("instance_status_reports", "OrgUuid")
mig_20260622_TextCast == ForcePhase("tool_invocations", "OrgText")  \* mutant
mig_20260622 ==
    ForcePhase("tool_invocations", "OrgUuid")
    \o ForcePhase("tool_usage_rollups_hourly", "OrgUuid")
    \o ForcePhase("tool_usage_rollups_daily", "OrgUuid")
mig_20260623 == ForcePhase("tool_invocation_payloads", "ViaParentUuid")
mig_20260624 == ForcePhase("tenant_payload_keys", "OrgUuid")

(***************************************************************************)
(* Tables born FORCEd, and the two cross-org data migrations.              *)
(***************************************************************************)
mig_20260625 == BornForced("federation_licenses")
mig_20260702 == BornForced("custom_domains")
mig_20260704 == BornForced("service_tokens")
mig_20260706 == BornForcedFirst("instance_logs")
mig_20260708 == BornForcedFirst("instance_billing_events")
mig_20260711 == BornForcedFirst("tunnels")
mig_20260712 == BornForcedFirst("tunnel_billing_events")
mig_20260730 == <<Create("billing_watermarks")>>
mig_20260731 == BornForcedFirst("audit_chain_checkpoints")
mig_20260830 == <<Create("platform_releases")>>
mig_20260904 == BornForced("org_sso_connections")
mig_20260911 == BornForced("tenant_secrets")
mig_20260915 == BornForced("license_retention_floors")
mig_20260916 == LiftedBackfill("tunnels")
mig_20260917 == BornForced("org_serving_limits")
mig_20260918 == BornForced("org_namespace_quotas")
mig_20260919 == BornForced("org_plan_grace")
mig_20260921 == BornForcedFirst("instance_billing_intents")
mig_20260922 == LiftedBackfill("org_plan_grace")
mig_20260924 == BornForced("org_scheduled_plan_changes")
mig_20261010_Forgotten == <<Create("event_usage")>>  \* mutant
mig_20261010 == BornForcedFirst("event_usage")

(***************************************************************************)
(* The whole catalogue, in file order.                                     *)
(***************************************************************************)
AllMigrations ==
    <<mig_20260428, mig_20260429, mig_20260430, mig_20260501,
      mig_20260502, mig_20260503, mig_20260504, mig_20260509,
      mig_20260610, mig_20260612, mig_20260613, mig_20260614,
      mig_20260615, mig_20260616, mig_20260617, mig_20260618,
      mig_20260619, mig_20260620, mig_20260621, mig_20260622,
      mig_20260623, mig_20260624, mig_20260625, mig_20260702,
      mig_20260704, mig_20260706, mig_20260708, mig_20260711,
      mig_20260712, mig_20260730, mig_20260731, mig_20260830,
      mig_20260904, mig_20260911, mig_20260915, mig_20260916,
      mig_20260917, mig_20260918, mig_20260919, mig_20260921,
      mig_20260922, mig_20260924, mig_20261010>>

(***************************************************************************)
(* The tables no file puts row security on: those whose rows name no org,  *)
(* and the two that have an org_id all the same, the slug registry         *)
(* (unique across orgs) and the store of published configs.                *)
(***************************************************************************)
OrglessTables ==
    {"orgs", "users", "sessions", "cluster_secrets", "agent_replica_claims",
     "agent_pending_pushes", "leader_leases", "billing_watermarks",
     "platform_releases"}
OpenOrgTables == {"instance_slugs", "config_artifacts"}

\* The tables a list of migrations names.
TablesOf(migrations) ==
    UNION {{migrations[n][k].table : k \in DOMAIN migrations[n]} :
               n \in DOMAIN migrations}
=============================================================================
