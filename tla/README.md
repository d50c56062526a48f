# A verification of mcpg-control-plane-core

TLA+ models of the core library of the MCPG control plane, the instances TLC checks, and theorems TLAPS proves
about them for every value of their constants.

The crate is a library: types, migrations and shared policy that a control-plane server, a provisioner, a billing
federation and the gateways link against or talk to. Those programs are not in this repository. Everything they do is
modelled only as far as this code, its migrations and its comments say what they do, and is called *external* here.

## Inventory

| Component | Source | State | Operations | What is hard about it | Model |
|---|---|---|---|---|---|
| Tenant isolation | `migrations/postgres`, `src/migrations.rs` | the row-security posture of each table, rows, `mcpg.org_id` of each pooled connection | one migration at a time, each a transaction; scoped and unscoped statements | 43 migrations that create the tables and move all but eleven of them from no policy to a forced one under live traffic; connections reused across orgs; policies that read other tables; backfills that need row security lifted, one of them under a unique index; a crash at any statement | `RlsDdl`, `RlsCatalog`, `RowLevelSecurity`, `TunnelLabels` |
| Rate limiter | `src/ratelimit.rs` | a token bucket per address behind a mutex | `client_ip`, `check`, `check_at` | the clock is read before the mutex is taken; eviction; the boundary of a whole token; a caller that polls faster than a token refills | `TokenBucket`, `SlidingWindow`, `RateLimiter`, `RateWaits`, `RatePolling` |
| Envelope encryption | `src/cipher.rs` | the cipher a process built at boot; stored rows | `build`, `build_strict`, `encrypt`, `decrypt` of three ciphers | replicas with different settings over the same rows; crashes between encrypting and saving; rows the database holds in the wrong place | `EnvelopeCipher` |
| Tenant secrets | `secrets_digest` in `src/publish_guard.rs`, migrations 20260911 and 20260912, `StatusReport` | a registered set, a mounted one, a running one, a reported digest | register, unregister, deliver, reload, report | four copies move apart, compared only by a digest; every side iterates in its own order; the repository says twice, differently, what the gateway digests | `SecretsDelivery` |
| Publish guard | `src/publish_guard.rs` | none (pure), over the org's keys and claims | the checks of a managed publish, its warnings | a config is judged once and runs while plan, keys, release and scale move; aliases; a quota of 0; what the scan of a value or a URL steps over | `PublishGuard`, `ManagedPublish`, `ConfigScan`, `PublishedDocuments` |
| Target validation | `src/target_validate.rs` | none, over the blessed release | `validate_against_gateway` | must agree with what the gateway refuses at load | `PublishGuard`, `ManagedPublish` |
| Plugin layouts | `src/plugin_layout.rs` | none, over a registry | `candidates`, `split_sources`, `assess` | must read the artefacts the gateway would fetch, in its order; a registry that fails or moves; colons and slashes of several meanings | `PluginLayout`, `PluginReferences`, `ReleaseFleet` |
| Gateway builds | `src/gateway_build.rs`, migration 20260830 | the blessed release | `Ord`, `at_least`, `before_overflow_split`, `overflow_split_refusal` | pre-release identifiers of two kinds; a per-channel table of refused builds | `GatewayBuild`, `ReleaseFleet` |
| Serving limits | `src/serving_limits.rs` | none | `calendar_period`; wire types | the boundary of a month and of a year | `BillingPeriod` |
| Agent protocol | `proto/mcpg/cp/v1/agent.proto` | none here | messages and their documented rules | replica claims, configuration acknowledgement, refused deliveries | one message |
| Billing wire types | `src/subscription_change.rs`, `src/plan_notice.rs`, `src/usage_report.rs` | none | serde derivations | renamed fields that default to zero, which tests pin | no |
| Domain model, provider trait, errors | `src/model.rs`, `src/provider.rs`, `src/error.rs` | none | conversions between enums and names | — | no |
| Environment aliases, TLS provider | `src/env_aliases.rs`, `src/tls_init.rs` | the environment; a `Once` | one pass at start; one call | — | no |

Interactions. The publish guard reads the registered keys of tenant secrets and the org's claims, and target
validation reads the blessed release; `ManagedPublish` composes the three with the platform's render. The blessed
release is also what plugin layouts are judged against and what `gateway_build` admits; `ReleaseFleet` composes these
with a registry. Tenant secrets are stored in a table of the tenant schema (`tenant_secrets`, in `RlsCatalog`) and
sealed by the envelope cipher. The rate limiter stands alone, in front of public routes.

`PROJECT.json` lists the hazards found in reading this code, each at its line, with the properties that cover it or
the reason none does.

## Modules

| Module | Role |
|---|---|
| `RlsDdl` | the schema statements that matter to row security, and their effect on a table's posture |
| `RlsCatalog` | the PostgreSQL migrations that create a table, change its row security or rewrite its rows, as scripts of those statements |
| `RowLevelSecurity` | migrator, connections, rows; reads and writes under row security |
| `TunnelLabels` | the UPDATE of migration 20260916 on a set of rows |
| `TokenBucket` | the arithmetic of one bucket, used by both models of the limiter |
| `SlidingWindow` | what the limiter promises, without buckets: the abstract specification |
| `RateLimiter` | the token buckets called by several threads, with history; implements `SlidingWindow` |
| `RateWaits` | the limiter beside an account of what it let through and how long its callers waited for the mutex |
| `RatePolling` | the same critical section over unbounded time, with ages for instants; liveness |
| `EnvelopeCipher` | builders, ciphers, replicas that boot, crash, seal and save |
| `SecretsDelivery` | one gateway's secrets from registry to report |
| `GatewayBuild`, `PluginLayout` | the pure algorithms of those files, as operators |
| `PluginReferences` | the text of a reference against `PluginLayout`'s candidates, beside the fleet |
| `ReleaseFleet` | a fleet around both: admin, registry, publish, enrollment |
| `PublishGuard` | the pure verdicts of a managed publish, as operators |
| `ManagedPublish` | an instance around them: plan, keys, release, scale, publish, render |
| `ConfigScan` | how the guard finds, in values, URLs and flags, what `PublishGuard` decides on |
| `PublishedDocuments` | `ConfigScan` against `PublishGuard`, beside a publishing instance |
| `BillingPeriod` | `calendar_period` |
| `MC…` | the instances TLC checks |
| `…Proofs` | the theorems; `OperatorProofs` has those of `BillingPeriod` and `TunnelLabels` |

### RowLevelSecurity

`catalog[t]` is a table's committed posture: existing, enabled, forced, the USING and WITH CHECK predicates of its
policy. `Migrations[n]` is the script of the n-th migration; `BeginMigration`, `MigrationStep`, `CommitMigration` and
`AbortMigration` run it on one connection as one transaction, as the sqlx migrator does. Every schema statement holds
its table's lock until its transaction ends, so the posture changes for everyone at the commit. `rows[t][i]` is the org
of a row, or its parent's id in the three tables whose policy reads a parent. `altered` and `draft` are what the
migrating transaction sees of the posture and of the rows to backfill. `guc[c]` is the setting `mcpg.org_id`:
NULL on a new connection (`Unset`), `''` once a scoped transaction ended (`Empty`), an org inside one. `missing` holds
the rows a backfill has yet to rewrite.

The rules the files keep are stated of their text alone: a file that lifts FORCE restores it (`RestoresForce`), a
backfill stands where its file has lifted FORCE (`LiftsForBackfills`), a transitive table is enforced no earlier than
its parent (`ParentsFirst`), a file that names a FORCEd org-keyed table leaves it a policy that casts (`CastsForced`),
and all files together leave a table enforced under a policy that checks what it hides (`Completes`). `Lawful` is
the set of files that keep the first four, `Completed` that of the tables of the fifth. They are what the theorems
assume of the migrations, and `RulesAreKept` is how TLC checks them of the real ones.

`RlsCatalog` lists every file with a CREATE TABLE, so that a table no file protects is a table of the model all the
same. `RolloutComplete` is that the tables enforced at the end are exactly those not in the constant `Open`, and
`RulesAreKept` that the files leave exactly these alone (`LeftOpen`). `Open` is named table by table: nine whose rows
name no org (`OrglessTables`), and two that have an `org_id` and no row security (`OpenOrgTables`: `instance_slugs` of
20260610, whose slugs are unique across orgs, and `config_artifacts` of 20260612). The properties of rows are about the
tables with a policy and claim nothing of those eleven.

How PostgreSQL acts on a posture is external. The migrations say the same of it (owners are subject to row security
only under FORCE, `''::uuid` raises, FORCE hides rows from a backfill) but in one place: five of them say that a policy
without WITH CHECK leaves writes unconstrained, where PostgreSQL checks the new row by USING. `CheckClause` follows
PostgreSQL; see *What disagreed*. Foreign keys and cascades act past row security. Columns, indexes and the server's own
queries are abstracted.

### RateLimiter, SlidingWindow, RateWaits, RatePolling

A call is two steps, because `check` reads `Instant::now()` before `check_at` takes the mutex: `Arrive` and `Check`.
Tokens are counted in sixtieths, so that the refill of `per_min / 60` a second is an integer; rounding of `f64` is
left out. `served` is history: what was let through, by arrival. `MaxTime` bounds the clock.

`SlidingWindow` is the contract: it has no buckets, remembers every arrival, and lets a request through exactly when no
window that contains it would then hold more than the burst and the window's refill. `RateLimiter` instantiates it
(`Window == INSTANCE SlidingWindow WITH …`) with the same clock, calls and history; the map of buckets is what the
refinement hides. `Check` implements
`Admit` or `Refuse`. With two callers it does not: see *What disagreed*.

`RateWaits` says what does hold with any number of callers. Each of its actions is the limiter's and adds to two
histories: `passed[ip][s]` counts the requests let through in calls answered at second s or later, `waited[ip][s]` the
seconds those calls spent between reading the clock and holding the mutex. Both go by the second in which `check_at`
runs, not by arrival, because that is the order in which a bucket changes. A late call sets `last` back to its own
arrival, and the next call refills from there, so the time it waited refills twice: `WaitsAreTheSlack` is that nothing
else does. An account of how far `last` is set back would be too small: a late call that creates the bucket sets
nothing back, and its wait refills all the same. `LateDenialIsDue` is the other direction, and needs no slack: a denied
caller's address was let through what the burst and the time up to the caller's arrival are worth.

Liveness needs time without end, so `RatePolling` replaces instants by ages: an entry and a call carry the seconds
since their instant, which is all `check_at` uses (`saturating_duration_since`). An entry's age stops at `MaxAge`,
where it would be evicted or be full in any case (`AgesSuffice`), and a second does not pass over a call that has
waited `MaxWait`.

### TunnelLabels

The rows are a set, `Updated` is what the UPDATE makes of it. `ALTER TABLE ... NO FORCE` before it holds the table's
lock, so no other statement is between the rows read and the rows written. The regular expression of a DNS label is the
constant `DnsLabels`; names and the text of org ids stand for their places in their order.

### EnvelopeCipher

`rows[c]` is the stored row of a context, `pending[r]` what replica r has sealed and not saved. `Boot` picks any
setting and any builder the deployment would use; `Halt` is a stop or a crash. `Misplace` is a database that holds the
row of one context under another. AES-GCM is ideal: a row opens under its key and its context, and under nothing else.
`origin` and `written` are history. An encryption that fails changes nothing, and is not a step.

### SecretsDelivery

Values are sequences of symbols, so that a value can hold the text the digest puts between entries. sha256 is ideal:
a digest is the text that is hashed, `Hashed`, the loop of `secrets_digest` over the sorted names, an entry (`Line`)
at a time. Each side iterates in any order.

What a gateway digests is told twice. By `agent.proto` (StatusReport) it is the directory the runtime was built from,
whatever the config uses of it, and empty when the directory holds no key. By migration 20260912 and the comment of
`secrets_digest` it is what the running config was resolved with, and empty when it resolves nothing. The gateway is
not in this repository, so the model takes both: `reading` is the account a gateway follows, chosen once; `Reload`
reads the directory and lets the config resolve any of its keys (`uses`); `Sent` is the set that is digested. Under
either account `LiveIsTrue` is that live is said only where that set is the registered one. `CurrentIsLive` says how
far the converse goes: a gateway that runs the registered set is shown as pending only under the second account, when
its config leaves a registered key unused. The comment of migration 20260911 still says values arrive as
`${env.TENANT_…}`; the guard refuses every `${env.` and the values are files, which is what the model follows.

### ReleaseFleet

`registry` maps an artefact's name to what it holds; `Publish` judges a config's sources as the control plane does:
`Probe` (external) reads the candidates in order, `Assess` gives outcomes, violations and warnings. `Fetched` and
`Loads` (external) say what a gateway does with the same source. They are written apart from `Candidates`, from the
description of the gateway in the comments of `plugin_layout.rs`, and the properties relate the two. `judged` is
dropped when the release or the registry moves: a verdict is about the registry it read. Text identifiers of a version
are kept as ranks, an identifier that does not fit a `u64` as text. The text of versions is not parsed.

`PluginReferences` is `candidates` and `ArtefactRef::parse` over a reference's separators. It relates the text a config
writes to the structured `Source` of `PluginLayout`: parsing each candidate text gives the host, repository and
reference of the corresponding artefact. What can be written is a grammar of symbols (`IsReference`): a host without
`/` and `@` (it may have a port), a path without `:` and `@`, a tag without separators that does not itself end in a
platform, a platform suffix, a digest. A name between two separators is one symbol, a platform suffix is one, and so is
the floating tag of a release. A tag beside a digest (`host/repo:tag@digest`) is left out by name
(`TaggedDigest`): the code leaves the tag in the repository, and the registry is asked for one that does not exist.

### ManagedPublish

A config is what the guards find in it (`Config`); `ConfigScan` is how they find the first part of it. A `source.path` is the
plugin it is the file of (`file`) and the ids its text matches (`told`), because the code accepts a path that merely
ends in a baked plugin's id; that no published path does so is an assumption with a name (`PathsTellFiles`), which
`AdmittedLoads` needs. `Admits` is the conjunction of the guards a managed publish runs, under the plugin
policy the claims give. `Render` is the managed render as `managed_publish_warnings` and `MANAGED_SIGNATURE_POLICY`
describe it: the platform's `cluster` block, its coordinator when the instance has more than one replica, whatever the
plan ("the platform, not the tenant's plan, decides"), and its default signature policy. No guard of a publish looks at
the scale, and whether an instance of a plan without coordination may have a second replica is decided outside this
repository, so `Scale` takes any. `AdmittedLoads` is therefore an equivalence: until something is lost, the render
loads if and only if the instance has one replica or the claims admit the coordinator. `Loads` is the gateway's own check, by manifest and not by alias. `under` and `lost` are
history: the claims a config was admitted under, and whether claims, keys or release have lost something since.
`MayLoad` and `AdmitsCoordinator` are the two questions the guard asks the license crate; their answer there is
external.

### ConfigScan and PublishedDocuments

A text is a sequence of symbols: an opener, a scheme, a host label or a bracket is one symbol, so lengths are counted
in symbols and the limits of `is_secret_key` and `truncate` are constants in the proportion the code relies on
(`SnippetsHoldKeys`: an opener, the longest key and a brace fit in a snippet). A document is the set of its leaves.
`CheckLeafValue` is the walk's visitor with the loops over tokens and schemes; `GatedUpstreamHost` cuts the host out
of a URL in the code's order; `IpIsPrivate` works on octets and segments. The addresses that `IpAddr` parses are a
table (`AddressOf`).

Against these stands what a reader of the whole text finds (`HostReads`, `Inners`, `Credential`), written without a
scan: every opener with the brace that ends it, at any place (`Closes` is that brace: the first one after the opener).
What a URL can be is a grammar (`IsUrl`: userinfo up to an `@`, a host, bracketed or without colons, a port, and a rest
that begins with one of `AuthorityEnds`), and which hosts are inside is what the address table and the local names say
of them (`HostsAreSorted`). `PublishedDocuments` says that the guard refuses a
document exactly when `PublishGuard`'s `Published` refuses what the reader finds in it, with the keys registered in the
current state. Two things the scan does not see are left out of the claim by name: a credential opener inside a
credential token is read as part of its target (`CredsNest`), and `collect_private_backends` does not descend beneath a
block that is itself called `allow_private_backends` (`PathsAreSearched`: the set `Paths` holds no path of that kind),
although its comment says "Every `allow_private_backends: true` in the document". A scheme is one symbol and is written
in lower case: `gated_upstream_host` compares it as it stands, so `HTTP://` is let through unread, and such a URL is
outside the grammar.

### BillingPeriod

An instant is a year, a month and the seconds since the month began; `chrono`'s order and its month arithmetic are
external and modelled on these.

## Runs

| Run | Instance | Shows |
|---|---|---|
| `rls_cascade` | 20260503, 20260504, 20260622, 20260623; invocations and payloads; two orgs, two ids, an owner's connection and an application's | without a scope nothing is read; a forgotten scope on a reused connection is an error once the table is forced; writes stay in the org, at any point of the rollout |
| `rls_catalogue` | all 43 scripts; every table, the eleven open ones included; rows, with one id, of workspaces and environments and in the two tables a backfill rewrites | chains stay airtight, FORCE is never lost, backfills reach every org, the last migration leaves every table enforced but the eleven named; no connection reads another org's rows between any two statements of the whole history; every file keeps the rules the theorems assume |
| `rls_logs_comment` | 20260706 | **violated**: "an unset scope THROWS". A connection that never had a scope reads NULL and gets an empty answer |
| `rate_sequential` | one caller, two addresses, a map of one, 30 a minute, burst 2, seven seconds | the limiter implements the sliding window; what is let through is at most the burst and the refill of any window, and a denial is always due |
| `rate_waiting` | two callers, one address, 40 a minute, burst 2, five seconds, eviction after three | late callers gain what they waited and no more; a denial of a late caller is due |
| `rate_polling` | two callers, two addresses, a map of one, a token every three seconds, burst 2, unbounded time | an address that keeps calling keeps being let through |
| `rate_concurrent` | two callers, one address, five seconds | **violated**: the bound. A caller that waited for the mutex moves the bucket's instant back |
| `cipher_required` | two replicas, contexts, values and keys, a derived Vault key, encryption required | reads return the context's own values; a failed read is due; nothing is saved in the clear |
| `secrets_one_line` | two keys, three values without line feeds, both accounts of the digest | live is said only of a gateway that digested the registered set; one that runs it is pending only for a key its config leaves unused, and only by the second account |
| `secrets_several_lines` | two keys, values with a line feed, the whole directory digested | **violated**: "comparing the two says whether a registered value is live" |
| `release_fleet` | one gateway, ten versions, three releases of two layouts, three artefact names, four configs; references with and without scheme, port, path, tag, suffix and digest | references are read as written; held configs would not load, silent ones load; floors and admission survive upgrades |
| `managed_publish` | 67 configs, four plans, three releases, one key, any scale; values of up to three pieces, 2700 URLs, four flag paths | admitted configs load as rendered unless scaled under a plan without coordination, within quota and signatures; upgrades keep admission; values, URLs and flags are read as a reader reads them |

Bounds and why they are enough. In `RowLevelSecurity` two orgs are the tenant and the other one, two ids let a row be
moved between parents of different orgs, and two connections with different roles give a migrating owner beside an
application; every chain of the schema has the shape of one of the two checked with rows: invocations and their payloads with two
ids, workspaces and their environments with one beside the whole history of migrations (two ids for those are left to
the theorems, which are for any number). The catalogue run checks that all chains are enforced in the right order. In `RateLimiter` the window of seven seconds holds more than one
full refill of a bucket of two at a token every two seconds, so exhaustion, refill, clamping and eviction
occur; the run takes an `IDLE_EVICT` within which a bucket refills (`EvictionIsSafe`), as the code's ten minutes do for
a burst of up to ten times `per_min`. In `rate_waiting` a token takes a second and a half, so that a late caller meets
fractions; waits of up to four seconds are longer than the eviction of three, so that one caller evicts the bucket that
another arrived to find, and both callers can wait at once. In `EnvelopeCipher` two of each are the owner and the other one. In
`SecretsDelivery` the values spell each other's entries, which is the only way for two different sets to share a text.
`MCVersions` has a version on each side of every branch of the order and of the split; the configs of `MCReleaseFleet`
have every kind of pin; the configs of `MCManagedPublish` have one on each side of every guard, and plugin lists with
an alias in both directions.

Runs that disable the deadlock check are of models that really stop: migrations end, a bounded clock ends.

The pieces of `managed_publish` hold every opener, an admitted and a refused name, a name one symbol too long (which
`truncate` cuts), braces, boundaries and both parts of a credential; three of them make two tokens beside each other
and a token inside a token. The URLs put an `@`, a bracket or a colon in every part that could be taken for the host.
In `rate_polling` an address that calls every second earns a third of a token each time, so a model that lost a
fraction would starve it; the second caller overtakes the first with an earlier or a later instant.

## Fairness

One specification has fairness, `RatePolling`: weak fairness of `Tick`, because a monotonic clock advances, and of
each caller's `Check`, because a thread in `check_at` waits only for the mutex, and whoever holds it does arithmetic
and returns: nothing is awaited, nothing fails, no other lock is taken. `std::sync::Mutex` promises no order among
waiters, so this assumes a scheduler that does not pass one thread over forever. Nobody is obliged to call: the
property `PollersAreServed` is about an address whose calls never end. Nothing else in this repository runs on
its own: it has no thread, timer or retry whose scheduling would justify an assumption, and every such loop
is in the programs around it.

## Theorems

Each holds for every value of the constants that satisfies the assumptions named in the modules.

**RowLevelSecurityProofs** — `TypeCorrect` for any list of migrations (and the lemma `ReferencesHold`, PostgreSQL's foreign keys); the rest for
any list of migrations that keep the rules (`AllLawful`: each file is in `Lawful`), for any number of orgs, connections
and rows. The rules speak of the text of the files; `RulesAreKept` in `rls_catalogue` is that the 43 real ones keep
them, so that together the theorems hold of the schema. Two layers:

* The posture. `CatalogueIsRecorded` is an invariant in two parts. `Recorded`: the committed posture of a table is what
  the committed files say of it (enabled when some file enabled it, FORCEd when some file did, the clauses of the last
  POLICY). `Drafted`: what the migrating transaction sees is the committed posture as far as its statements have run,
  with FORCE lifted only where a later statement of the same file restores it. `Drafted` is needed because the posture
  between two statements satisfies none of the rules: the file as a whole does. From it follow `RolloutIsChained`
  (in no committed posture is a transitive table enforced where its parent is not, `ChainAirtight`),
  `ForceIsNeverLifted` (an action property: the two files that lift FORCE for a backfill included), and, when the files
  complete every table that is not open and leave the open ones alone, `RolloutCompletes`. `BackfillsReachAll` adds `Awaited`: a row that a backfill has not reached
  waits for a statement to come, those inserted by other connections while the file runs included.
* The rows. With `ChainAirtight`, whoever is subject to a child's policy is subject to the parent's (`SubjectToParent`),
  so that the rows a policy's subquery finds are themselves the scope's own (`HoldsMeansOwn`); a cascade deletes only
  children of a row that was visible. This gives `ReadsAreIsolated`, `UnscopedReadsNothing`, `WritesAreIsolated` at every
  moment of the rollout. `ForgottenScopesAreLoud` needs `Recorded` too: that a FORCEd org-keyed table's policy casts,
  and for a transitive table that the foreign key leaves it a parent row on which the parent's policy throws.

**SecretsDeliveryProofs** — `DigestNamesTheSet`: two sets of one-line values that hash to one text are the same set. The
text is read from the front: the first line feed ends the first value (`LinesEnd`), its name tells the entry, and the
rests are equal in turn (`OneIsTold`); a name is a symbol of its own and sorts before those that follow
(`TextsBegin`), so two sets cannot differ in whether they have it. `ReportsAreDigests` is the invariant: the reported
digest is that of the set the gateway sent, by either account and whatever order its side iterated in.
`CurrentIsAlwaysLive` follows for all values, `LiveIsAlwaysTrue` for values without a line feed (`OneLineValues`); `secrets_several_lines` shows that the
hypothesis is needed.

**EnvelopeCipherProofs** — `TypeCorrect`, `ReadsReturnOwn`, `NoRowIsLost`, `NeverInTheClear`. The properties are not
inductive: what a read returns depends on how the row came to be. The invariant `Inv` adds that a row of known origin
is bound to its context under the cipher that saved it (`OriginOK`), that a write in flight was asked for
(`PendingOK`), that whatever is not plaintext was encrypted by a caller, in place or not (`SealedOK`), and that
required encryption leaves no replica in the clear (`CiphersOK`).

**RateLimiterProofs** — `TypeCorrect` for any number of callers. `LimiterImplementsWindow`, `AdmissionIsBounded` and
`DenialsAreDue` for one caller at a time (`Threads = {t}`) and an `IDLE_EVICT` within which a bucket refills
(`EvictionIsSafe`): for any rate, burst, number of addresses and size of the map. The first hypothesis is what the
concurrent code falls short of; the second holds of the code's ten minutes for any burst of up to ten times `per_min`,
and `RateLimiter::new` does not enforce it. The properties are not inductive: they do not mention
the buckets. The invariant (`Metered`, `MetersHold`) relates a bucket to its history in both directions: for each start of a
window, what was served since plus what the bucket holds is at most the burst plus the refill, and for some start it
is equal. The first gives the bound, the second that a denial is due; an evicted or fresh bucket has both
because a full bucket's window is the moment itself.

`WaitsBoundAdmission` and `LateDenialsAreDue` are of `RateWaits`, for any number of callers, who may wait as long and be
overtaken as often as they like; the second does not need `EvictionIsSafe`. The invariant for the first is that of each
second s (`Backed`): either nothing was let through or waited for since s, or what was let through and what the bucket
holds are at most the burst and the refill of `last - s` plus the waits. `last` may stand before s here: the wait that
set it back makes up for it. Where there is no bucket any more, what was let through is at most the refill alone, since
the evicted bucket had refilled (`Repaid`). For the second (`Accounted`): since some second, all that the
burst and the time since are worth was let through or is in the bucket; a late call moves `last` back, which only makes
that less.

**RatePollingProofs** — `TypeCorrect`, and `KeptAgesAnswerAlike`: the sweep and the refill treat an entry whose age
stopped at `MaxAge` as they would treat its true age, so the model of unbounded time is not short of a behaviour.

**ReleaseFleetProofs** — `BuildsAreOrdered` and `FloorsAreKept` are that `Ord` is a total order, for pre-releases of any
length: two sequences that differ have a first difference (`FirstDifference`, from a least-number argument), on which
identifiers are trichotomous and transitive (`IdLaws`). `UpgradesAreAdmitted` holds for every table of channels.
`HoldsAreDue` and `CleanConfigsBoot` rest on `ReadAgreesWithLoad`: the first candidate present is the artefact a
gateway fetches. They are one inductive invariant, kept by every step because a verdict is dropped when the release
or registry moves. `TypeCorrect` also says that no source both holds and warns. `ReferencesAreMeant`: for every
reference of the grammar, of any length, the artefact texts and their parse name what it means. Where a text is cut is
settled once for `split_once`, `rfind` and the rest (`FindIs`, `RFindIs`): the last slash of a reference stands before
any tag and not before a port (`ColonsAre`), so the tag found is the one written (`TagIsFound`), and what is appended
to it does not move the marks that the parse looks for (`ParsedIs`). `ReferencesAreAlwaysRead` is this for whichever
release is blessed.

**ManagedPublishProofs** — `UpgradesKeepAdmission`: every guard is monotone in the claims, 0 being the greatest quota
(`MoreAdmitsMore`). `AdmittedConfigsLoad` uses the invariant that until something is lost the running config would
still be admitted (`AdmittedNow`); the render adds one entry that is not the tenant's, so the whole loads exactly when that
entry does (`AdmitsInjected`). `PlatformVouchesForAll`
and `QuotaCapsLoads` use what admission says of the claims it was given under (`AdmittedUnder`). `TypeCorrect` says
that nothing a publish always refuses ever runs. `SilentRendersKeep`: the running config's render differs from it only
by the platform's own entry when no warning was due (`PrefixKept`). `ValuesAreFaithful`: for every text, whatever
stands around its openers, the guard refuses it exactly when the reader finds a host read, a secret that is not
registered or a malformed credential. The scan's loop is read from its end (`FromTheEnd`): it returns exactly the
openers in the text, each cut at the brace that ends it (`TokensClose`, `TokensCover`), and a name that registers is
short enough for the snippet to hold it whole (`KeysFit`). It assumes of the symbols that an opener is not a character
of a key (`OpenersAreNoLetters`), and `CredsNest` is excluded as above. `HostsAreFound`: of every URL of the grammar the
text that `GatedUpstreamHost` cuts out is the host. `ValuesAreAlwaysRead` and `ReachIsAlwaysRead` are these in every
reachable state; the second assumes `HostsAreSorted` and `PathsAreSearched`, which TLC evaluates on the run's URLs and
paths.

**OperatorProofs** — `OnePeriodEach`, `PeriodsMeet`: periods cover time without gap or overlap, so that every service that
counts by them counts a call once. `UpdateMeetsTheIndex`: from any table that satisfies its key and
its index the UPDATE leaves one that does, because two rows that are both selected for one label are equal in an order
that is total on the key (`OrderIsTotal`); `OldestKeepsTheLabel` is the migration's "the oldest registration keeps it".

What a loop computes over a text of any length is proved without an induction schema: the loops are recursive
functions, and a set that holds the end of a text and, with each place, the one before it holds them all
(`FromTheEnd`, from the well-foundedness of the naturals).

Only model-checked: `RulesAreKept`, a fact about 43 given scripts, which the theorems about them take as their
hypothesis; and `PollersAreServed`, a liveness property, whose proof would need ENABLED under fairness.

## What disagreed

* `rate_concurrent`: `check` reads the clock outside the mutex and `check_at` stores it unconditionally, so a late
  caller lets the same seconds be refilled twice. `WaitsAreTheSlack` says by how much: what its callers waited.
* `secrets_several_lines`: `secrets_digest` is not injective when values hold line feeds.
* `rls_logs_comment`: a comment of a migration promises an error where the policy answers with nothing.
* `rls_cascade`, in the other direction: five migrations (20260613:26-27, 20260614:15-16, 20260615:12-13,
  20260617:11-12, 20260618:11-12) say that the first policies, USING without WITH CHECK, left writes unconstrained ("let
  a scoped caller write any org_id"). PostgreSQL checks new rows by USING where there is no WITH CHECK, and
  `WriteIsolation` holds from the first policies on; under the comments' reading (`MayWrite_NoFallback`) it fails.
* Without a run: what `secrets_digest` covers. 20260912:1-6 and `publish_guard.rs:117-120` say the values the running
  config was resolved with, empty when it resolves none; `agent.proto:264-270` says the whole directory, empty when it
  holds no key. By the first, a gateway that is up to date and leaves a registered key unused never leaves "pending".
* Without a run: `publish_guard.rs:762-763` says "a config the publish admits must load". The platform injects its
  coordinator at the second replica whatever the plan, and a plan that does not admit the coordinator then does not load
  the render; nothing here keeps such an instance at one replica.
* Without a run: `instance_slugs` (20260610) and `config_artifacts` (20260612) have an `org_id` and no row security, and
  their comments, unlike that of 20260830, do not say so.
* Without a run: line 157 of 20260428 says its policies are "disabled by default" and lines 160 to 167 ENABLE them, so
  a role that does not own the tables is subject to them at once; and the three exclusions of `ConfigScan` above.

## Not modelled

Parsing (YAML, TOML, versions, the text of addresses), the lookups of `check_events`,
`licensed_config_surfaces` and `custom_plugin_surfaces` beyond what they find, wording of refusals, wire types and their
serialisation, the SQLite schema (single-tenant, without row security), the PostgreSQL migrations that
create no table, change no row security and rewrite no rows across orgs, `env_aliases` and `tls_init` (one call each,
before or around any concurrency).

The agent protocol is declared here and handled elsewhere: replica claims and configuration acknowledgements are
comments on messages, so a model of them would have no code under it. Memory and time of the limiter's sweep are not
modelled: admission does not depend on entries that stay.

## Plan

The modules were written in this order: tenant isolation, rate limiter, envelope encryption, secrets, release and
layouts, publish guard; the limiter's abstract specification and liveness; the scan of documents and of references; the
billing period and the labels of tunnels. Then the theorems, component by component: the state machines first, the
limiter's refinement, the migrations as files that keep rules, and last what the text operators compute: the digest, the
scan of values and URLs, the references.

Left:

1. `AdmittedLoads` without `PathsTellFiles`, from the text of paths.
2. The rules of the migration files derived from the scripts by proof, one file at a time, in place of `RulesAreKept`.
