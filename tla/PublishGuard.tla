----------------------------- MODULE PublishGuard -----------------------------
(***************************************************************************)
(* What a managed publish admits (src/publish_guard.rs,                    *)
(* src/target_validate.rs): a tenant's config against its registered       *)
(* secret keys, its claims and the blessed release.                        *)
(*                                                                         *)
(* A config is what the guards find in it: host reads and malformed        *)
(* tokens in its values, the secret names it references, blocks that are   *)
(* refused outright, the licensed surfaces it turns on, the event types it *)
(* declares, its plugins, and the keys its release must know.              *)
(***************************************************************************)
EXTENDS Naturals, Sequences, FiniteSets

CONSTANTS
    Features,     \* license features that withhold a surface or a plugin
    Secrets,      \* secret names that satisfy is_secret_key
    NotAKey,      \* referenced names that do not
    Plugins,      \* plugin ids and aliases
    Coordinator,  \* PLATFORM_COORDINATOR_PLUGIN
    Coordination, \* the feature that admits it as the platform's
    Custom,       \* plugins.custom
    Paid,         \* plugins outside every plan but those that entitle them
    Gated,        \* [plugin, feature]: plugins a feature withholds
    Settings,     \* top-level config keys a release's schema may know
    NoRef         \* an entry without a ref

\* Of a path source, file is the plugin it is the file of, and told are the ids
\* its text has as a directory or ends with.
PluginEntry == [id : Plugins, ref : Plugins \cup {NoRef},
                source : {"none", "ours", "theirs", "path"}, file : Plugins,
                told : SUBSET Plugins, keys : BOOLEAN,
                policy : {"unset", "enforce", "relaxed"}]

Config == [reads : SUBSET {"env", "host_uri", "bad_cred"},
           secrets : SUBSET (Secrets \cup NotAKey),
           refused : SUBSET {"license", "private_backends", "private_upstream", "events"},
           surfaces : SUBSET Features, eventTypes : Nat,
           access : {"none", "verifier", "anonymous"},
           plugins : Seq(PluginEntry), registry : BOOLEAN,
           defaultPolicy : {"unset", "enforce", "relaxed"}, cluster : BOOLEAN,
           settings : SUBSET Settings]

\* A quota of 0 is unlimited.
Claims == [features : SUBSET Features, entitled : SUBSET Plugins,
           plugins : Nat, eventTypes : Nat, planCustom : BOOLEAN]

Release == [understood : BOOLEAN, settings : SUBSET Settings, baked : SUBSET Plugins]

ASSUME GuardAssumption ==
    /\ {Coordination, Custom} \subseteq Features
    /\ Coordinator \in Plugins
    /\ Paid \subseteq Plugins
    /\ Gated \subseteq [plugin : Plugins, feature : Features]
    /\ NoRef \notin Plugins
    /\ Secrets \cap NotAKey = {}

-----------------------------------------------------------------------------
(***************************************************************************)
(* The config on its own and with the registered keys.                     *)
(***************************************************************************)
\* Mutant: a license block or a relaxed setting is let through.
Published_NoRefusals(c, secret_keys) ==
    /\ c.reads = {}
    /\ c.secrets \subseteq secret_keys \cap Secrets

\* check_published_config_with_secret_keys: a name is admitted when it is
\* well formed and registered.
Published(c, secret_keys) ==
    /\ c.reads = {}
    /\ c.secrets \subseteq secret_keys \cap Secrets
    /\ c.refused = {}

\* require_cloud_auth
Authenticated(c) == c.access # "none"

-----------------------------------------------------------------------------
(***************************************************************************)
(* The config and the claims.                                              *)
(***************************************************************************)
Within(n, quota) == quota = 0 \/ n <= quota

\* allows_custom_plugins: the flag, or a plan that sold it.
AllowsCustom(claims) == Custom \in claims.features \/ claims.planCustom

\* plugin_load_violation and admits_platform_coordinator.
MayLoad(claims, plugin) ==
    /\ plugin \in Paid => plugin \in claims.entitled
    /\ \A g \in Gated : g.plugin = plugin => g.feature \in claims.features

AdmitsCoordinator(claims, plugin) ==
    plugin = Coordinator /\ Coordination \in claims.features

\* The manifest a gateway loads for an entry; with a ref the id is an alias.
Manifest(e) == IF e.ref = NoRef THEN e.id ELSE e.ref

\* Mutant: only the id is read.
Entitled_IdOnly(c, claims) ==
    \A i \in DOMAIN c.plugins :
        \/ AdmitsCoordinator(claims, c.plugins[i].id)
        \/ MayLoad(claims, c.plugins[i].id)

\* check_plugin_entitlements: the id and, where there is one, the ref.
Entitled(c, claims) ==
    \A i \in DOMAIN c.plugins :
        \A plugin \in {c.plugins[i].id, c.plugins[i].ref} \ {NoRef} :
            AdmitsCoordinator(claims, plugin) \/ MayLoad(claims, plugin)

\* Mutant: a signature policy of the entry's own is not a custom surface.
FirstPartyOnly_AnyPolicy(c) ==
    /\ ~c.registry
    /\ \A i \in DOMAIN c.plugins :
          c.plugins[i].source # "theirs" /\ ~c.plugins[i].keys

\* custom_plugin_surfaces finds none.
FirstPartyOnly(c) ==
    /\ ~c.registry
    /\ \A i \in DOMAIN c.plugins :
          /\ c.plugins[i].source # "theirs"
          /\ ~c.plugins[i].keys
          /\ c.plugins[i].policy # "relaxed"

\* check_config_entitlements
Licensed(c, claims) ==
    /\ c.surfaces \subseteq claims.features
    /\ Entitled(c, claims)
    /\ AllowsCustom(claims) \/ FirstPartyOnly(c)

\* Mutant: the coordinator's name exempts an entry whatever it loads.
Counted_ByName(c) ==
    {i \in DOMAIN c.plugins :
        Coordinator \notin {c.plugins[i].id, c.plugins[i].ref}}

\* Entries the plugin quota counts: all but those that load the platform's.
Counted(c) == {i \in DOMAIN c.plugins : Manifest(c.plugins[i]) # Coordinator}

\* Mutant: a quota of 0 admits nothing.
WithinQuotas_ZeroIsNone(c, claims) ==
    /\ Cardinality(Counted(c)) <= claims.plugins
    /\ c.eventTypes <= claims.eventTypes

\* check_plugin_quota and check_event_type_quota
WithinQuotas(c, claims) ==
    /\ Within(Cardinality(Counted(c)), claims.plugins)
    /\ Within(c.eventTypes, claims.eventTypes)

-----------------------------------------------------------------------------
(***************************************************************************)
(* The config and the release: validate_against_gateway under the plugin   *)
(* policy the claims give.                                                 *)
(***************************************************************************)
FitsRelease(c, release, claims) ==
    /\ release.understood
    /\ c.settings \subseteq release.settings
    /\ \A i \in DOMAIN c.plugins :
          /\ c.plugins[i].source = "theirs" => AllowsCustom(claims)
          /\ c.plugins[i].source = "path" => c.plugins[i].told \cap release.baked # {}

Admits(c, secret_keys, claims, release) ==
    /\ Published(c, secret_keys)
    /\ Authenticated(c)
    /\ Licensed(c, claims)
    /\ WithinQuotas(c, claims)
    /\ FitsRelease(c, release, claims)

\* Mutant: a signature policy the render replaces draws no warning.
Warnings_ClusterOnly(c) == {w \in {"cluster"} : c.cluster}

\* managed_publish_warnings
Warnings(c) ==
    {w \in {"cluster"} : c.cluster}
        \cup {w \in {"default_signature_policy"} : c.defaultPolicy = "relaxed"}
=============================================================================
