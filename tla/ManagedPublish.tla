---------------------------- MODULE ManagedPublish ----------------------------
(***************************************************************************)
(* A tenant's instance on the managed service: its claims and secret keys  *)
(* change, releases are blessed, configs are published and redeployed, and *)
(* the platform renders what the gateway runs.                             *)
(***************************************************************************)
EXTENDS PublishGuard

CONSTANTS
    Configs,     \* configs a tenant publishes
    AllClaims,   \* claims an org may hold
    Releases,    \* releases an admin may bless
    Nothing      \* no config published

ASSUME PublishAssumption ==
    /\ Configs \subseteq Config
    /\ AllClaims \subseteq Claims
    /\ Releases \subseteq Release
    /\ Nothing \notin Config

\* A path that ends in another id's text (/plugins/xhttp) is not published:
\* validate_against_gateway takes it for that plugin.
ASSUME PathsTellFiles ==
    \A c \in Configs : \A i \in DOMAIN c.plugins :
        c.plugins[i].told \subseteq {c.plugins[i].file}

VARIABLES
    claims,      \* the org's live claims
    registered,  \* its registered secret keys
    release,     \* the blessed release
    replicas,    \* whether the instance has more than one replica
    running,     \* the config the instance runs
    under,       \* the claims it was admitted under
    lost         \* whether claims, keys or release lost something since

vars == <<claims, registered, release, replicas, running, under, lost>>

Init ==
    /\ claims \in AllClaims
    /\ registered = {}
    /\ release \in Releases
    /\ replicas = FALSE
    /\ running = Nothing
    /\ under = claims
    /\ lost = FALSE

-----------------------------------------------------------------------------
\* new grants all that old did.
AtLeastQuota(new, old) == new = 0 \/ (old # 0 /\ old <= new)

Covers(new, old) ==
    /\ old.features \subseteq new.features
    /\ old.entitled \subseteq new.entitled
    /\ AtLeastQuota(new.plugins, old.plugins)
    /\ AtLeastQuota(new.eventTypes, old.eventTypes)
    /\ old.planCustom => new.planCustom

Renew(new) ==
    /\ claims' = new
    /\ lost' = (lost \/ ~Covers(new, claims))
    /\ UNCHANGED <<registered, release, replicas, running, under>>

Register(name) ==
    /\ registered' = registered \cup {name}
    /\ UNCHANGED <<claims, release, replicas, running, under, lost>>

Unregister(name) ==
    /\ name \in registered
    /\ registered' = registered \ {name}
    /\ lost' = TRUE
    /\ UNCHANGED <<claims, release, replicas, running, under>>

Bless(r) ==
    /\ release' = r
    /\ lost' = TRUE
    /\ UNCHANGED <<claims, registered, replicas, running, under>>

Scale ==
    /\ replicas' = ~replicas
    /\ UNCHANGED <<claims, registered, release, running, under, lost>>

Publish(c) ==
    /\ Admits(c, registered, claims, release)
    /\ running' = c
    /\ under' = claims
    /\ lost' = FALSE
    /\ UNCHANGED <<claims, registered, release, replicas>>

Next ==
    \/ \E new \in AllClaims : Renew(new)
    \/ \E name \in Secrets : Register(name) \/ Unregister(name)
    \/ \E r \in Releases : Bless(r)
    \/ Scale
    \/ \E c \in Configs : Publish(c)

Spec == Init /\ [][Next]_vars

-----------------------------------------------------------------------------
(***************************************************************************)
(* What the instance runs: the managed render, and the gateway's own       *)
(* checks at load.                                                         *)
(***************************************************************************)
Injected == [id |-> Coordinator, ref |-> NoRef, source |-> "ours", file |-> Coordinator,
             told |-> {Coordinator}, keys |-> FALSE, policy |-> "unset"]

\* The platform owns clustering and the default signature policy.  Its
\* coordinator comes with more than one replica, whatever the plan ("The
\* platform, not the tenant's plan, decides").
Render(c) ==
    [c EXCEPT !.plugins = IF replicas THEN Append(@, Injected) ELSE @,
              !.cluster = replicas,
              !.defaultPolicy = "enforce"]

\* A gateway refuses a plugin its claims do not admit, a secret its mount
\* lacks, a setting its schema does not know and a file its image lacks.
Loads(c) ==
    /\ \A i \in DOMAIN c.plugins :
          /\ \/ AdmitsCoordinator(claims, Manifest(c.plugins[i]))
             \/ MayLoad(claims, Manifest(c.plugins[i]))
          /\ c.plugins[i].source = "path" => c.plugins[i].file \in release.baked
    /\ c.surfaces \subseteq claims.features
    /\ c.secrets \subseteq registered
    /\ c.settings \subseteq release.settings

\* The policy an artefact of this entry is verified under.
EffectivePolicy(c, e) == IF e.policy = "unset" THEN c.defaultPolicy ELSE e.policy

-----------------------------------------------------------------------------
\* What runs is a config that carries nothing a publish always refuses.
TypeOK ==
    /\ claims \in AllClaims /\ under \in AllClaims
    /\ registered \subseteq Secrets
    /\ release \in Releases
    /\ replicas \in BOOLEAN /\ lost \in BOOLEAN
    /\ running \in Configs \cup {Nothing}
    /\ running # Nothing => running.refused = {} /\ running.secrets \subseteq Secrets

\* The claims admit the coordinator the platform adds.
AdmitsInjected == \/ AdmitsCoordinator(claims, Coordinator)
                  \/ MayLoad(claims, Coordinator)

\* "A config the publish admits must load": until claims, keys or the release
\* lose something, all that the tenant published loads, at any scale.  What no
\* guard of a publish looks at is the scale: a plan that admits no coordinator
\* is the one case in which the render does not load on more than one replica.
AdmittedLoads ==
    running # Nothing /\ ~lost =>
        (Loads(Render(running)) <=> (replicas => AdmitsInjected))

\* Without custom plugins every artefact of the render comes from the first
\* party's registry and is verified against the platform's keys.
PlatformVouches ==
    running # Nothing /\ ~AllowsCustom(under) =>
        LET c == Render(running)
        IN  /\ ~c.registry
            /\ \A i \in DOMAIN c.plugins :
                  /\ c.plugins[i].source # "theirs"
                  /\ ~c.plugins[i].keys
                  /\ EffectivePolicy(c, c.plugins[i]) = "enforce"

\* check_plugin_quota caps what loads: the manifests of the running config
\* that are not the platform's, by what each entry loads and not its alias.
QuotaCapsWhatLoads ==
    running # Nothing =>
        LET c == Render(running)
        IN  Within(Cardinality({i \in DOMAIN c.plugins :
                        Manifest(c.plugins[i]) # Coordinator}), under.plugins)

\* managed_publish_warnings: a config published without a warning runs as it
\* was written, with what the platform adds.
SilentRunsAsWritten ==
    running # Nothing /\ Warnings(running) = {} =>
        LET c == Render(running)
        IN  /\ SubSeq(c.plugins, 1, Len(running.plugins)) = running.plugins
            /\ running.defaultPolicy # "unset" => c.defaultPolicy = running.defaultPolicy
            /\ \A i \in DOMAIN running.plugins :
                  EffectivePolicy(running, running.plugins[i]) \in
                      {"unset", EffectivePolicy(c, running.plugins[i])}
            /\ ~running.cluster

\* Claims that grant all the old ones did admit what the old ones admitted:
\* a plan upgrade never makes a running config unpublishable.
UpgradeKeepsAdmission ==
    [][/\ running # Nothing
       /\ Covers(claims', claims)
       /\ Admits(running, registered, claims, release)
       => Admits(running, registered, claims', release)]_claims
=============================================================================
