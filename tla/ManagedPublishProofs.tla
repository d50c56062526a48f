------------------------- MODULE ManagedPublishProofs -------------------------
(***************************************************************************)
(* What ManagedPublish satisfies for all plugins, plans, configs and       *)
(* releases, and what the guard reads of every value.                      *)
(*                                                                         *)
(* AdmittedNow is the inductive fact behind AdmittedLoads: as long as      *)
(* nothing is taken away, the running config would be published again.     *)
(* Of a value, the loop that finds tokens is a recursive function; what it *)
(* finds from a place on follows from what it finds from every later one.  *)
(***************************************************************************)
EXTENDS PublishedDocuments, FiniteSetTheorems, TLAPS

AdmittedNow ==
    running # Nothing /\ ~lost => Admits(running, registered, claims, release)

AdmittedUnder ==
    running # Nothing => Licensed(running, under) /\ WithinQuotas(running, under)

\* What runs is a config the publish accepted.
THEOREM TypeCorrect == Spec => []TypeOK
<1>1. Init => TypeOK
  BY DEF Init, TypeOK
<1>2. TypeOK /\ [Next]_vars => TypeOK'
  <2> SUFFICES ASSUME TypeOK, [Next]_vars PROVE TypeOK'
    OBVIOUS
  <2> USE DEF TypeOK
  <2>1. ASSUME NEW new \in AllClaims, Renew(new) PROVE TypeOK'
    <3>1. (lost \/ ~Covers(new, claims)) \in BOOLEAN
      BY DEF Covers
    <3> QED BY <2>1, <3>1 DEF Renew
  <2>2. ASSUME NEW name \in Secrets, Register(name) \/ Unregister(name) PROVE TypeOK'
    BY <2>2 DEF Register, Unregister
  <2>3. ASSUME NEW r \in Releases, Bless(r) PROVE TypeOK'
    BY <2>3 DEF Bless
  <2>4. CASE Scale
    BY <2>4 DEF Scale
  <2>5. ASSUME NEW c \in Configs, Publish(c) PROVE TypeOK'
    BY <2>5 DEF Publish, Admits, Published
  <2>6. CASE UNCHANGED vars
    BY <2>6 DEF vars
  <2> QED BY <2>1, <2>2, <2>3, <2>4, <2>5, <2>6 DEF Next
<1> QED BY <1>1, <1>2, PTL DEF Spec

-----------------------------------------------------------------------------
(***************************************************************************)
(* Claims that grant more admit more.                                      *)
(***************************************************************************)
LEMMA CountedIsFinite ==
    ASSUME NEW c \in Config
    PROVE  Cardinality(Counted(c)) \in Nat
<1>1. DOMAIN c.plugins = 1..Len(c.plugins) /\ Len(c.plugins) \in Nat
  BY DEF Config
<1>2. IsFiniteSet(1..Len(c.plugins))
  BY <1>1, FS_Interval
<1>3. Counted(c) \subseteq 1..Len(c.plugins)
  BY <1>1 DEF Counted
<1>4. IsFiniteSet(Counted(c))
  BY <1>2, <1>3, FS_Subset
<1> QED BY <1>4, FS_CardinalityType

LEMMA QuotasGrow ==
    ASSUME NEW n \in Nat, NEW old \in Nat, NEW new \in Nat,
           AtLeastQuota(new, old), Within(n, old)
    PROVE  Within(n, new)
BY DEF AtLeastQuota, Within

LEMMA MoreAdmitsMore ==
    ASSUME NEW c \in Config, NEW old \in Claims, NEW new \in Claims,
           NEW keys, NEW rel, Covers(new, old), Admits(c, keys, old, rel)
    PROVE  Admits(c, keys, new, rel)
<1>1. AllowsCustom(old) => AllowsCustom(new)
  BY DEF Covers, AllowsCustom
<1>2. Entitled(c, new)
  <2>1. ASSUME NEW plugin, AdmitsCoordinator(old, plugin) \/ MayLoad(old, plugin)
        PROVE  AdmitsCoordinator(new, plugin) \/ MayLoad(new, plugin)
    BY <2>1 DEF AdmitsCoordinator, MayLoad, Covers
  <2> QED BY <2>1 DEF Admits, Licensed, Entitled
<1>3. Licensed(c, new)
  BY <1>1, <1>2 DEF Admits, Licensed, Covers
<1>4. WithinQuotas(c, new)
  <2>1. Cardinality(Counted(c)) \in Nat /\ c.eventTypes \in Nat
    BY CountedIsFinite DEF Config
  <2>2. /\ old.plugins \in Nat /\ old.eventTypes \in Nat
        /\ new.plugins \in Nat /\ new.eventTypes \in Nat
    BY DEF Claims
  <2> QED BY <2>1, <2>2, QuotasGrow DEF Admits, WithinQuotas, Covers
<1>5. FitsRelease(c, rel, new)
  BY <1>1 DEF Admits, FitsRelease
<1> QED BY <1>3, <1>4, <1>5 DEF Admits

\* A plan upgrade never makes a running config unpublishable.
THEOREM UpgradesKeepAdmission == Spec => UpgradeKeepsAdmission
<1>1. TypeOK /\ TypeOK' /\ [Next]_vars =>
        [/\ running # Nothing
         /\ Covers(claims', claims)
         /\ Admits(running, registered, claims, release)
         => Admits(running, registered, claims', release)]_claims
  <2> SUFFICES ASSUME TypeOK, TypeOK', running # Nothing, Covers(claims', claims),
                      Admits(running, registered, claims, release)
               PROVE  Admits(running, registered, claims', release)
    OBVIOUS
  <2>1. running \in Config /\ claims \in Claims /\ claims' \in Claims
    BY PublishAssumption DEF TypeOK
  <2> QED BY <2>1, MoreAdmitsMore
<1> QED BY <1>1, TypeCorrect, PTL DEF Spec, UpgradeKeepsAdmission

-----------------------------------------------------------------------------
(***************************************************************************)
(* The inductive facts.                                                    *)
(***************************************************************************)
LEMMA AdmissionLasts ==
    ASSUME TypeOK, [Next]_vars, AdmittedNow
    PROVE  AdmittedNow'
<1> USE DEF AdmittedNow
<1>1. ASSUME NEW new \in AllClaims, Renew(new) PROVE AdmittedNow'
  <2> SUFFICES ASSUME running # Nothing, ~lost, Covers(new, claims)
               PROVE  Admits(running, registered, new, release)
    BY <1>1 DEF Renew
  <2>1. running \in Config /\ claims \in Claims /\ new \in Claims
    BY PublishAssumption DEF TypeOK
  <2> QED BY <2>1, MoreAdmitsMore
<1>2. ASSUME NEW name \in Secrets, Register(name) PROVE AdmittedNow'
  BY <1>2 DEF Register, Admits, Published
<1>3. ASSUME NEW name \in Secrets, Unregister(name) PROVE AdmittedNow'
  BY <1>3 DEF Unregister
<1>4. ASSUME NEW r \in Releases, Bless(r) PROVE AdmittedNow'
  BY <1>4 DEF Bless
<1>5. CASE Scale
  BY <1>5 DEF Scale
<1>6. ASSUME NEW c \in Configs, Publish(c) PROVE AdmittedNow'
  BY <1>6 DEF Publish
<1>7. CASE UNCHANGED vars
  BY <1>7 DEF vars
<1> QED BY <1>1, <1>2, <1>3, <1>4, <1>5, <1>6, <1>7 DEF Next

LEMMA AdmissionIsRemembered ==
    ASSUME [Next]_vars, AdmittedUnder
    PROVE  AdmittedUnder'
<1>1. ASSUME NEW c \in Configs, Publish(c) PROVE AdmittedUnder'
  BY <1>1 DEF AdmittedUnder, Publish, Admits
<1>2. CASE UNCHANGED <<running, under>>
  BY <1>2 DEF AdmittedUnder
<1> QED BY <1>1, <1>2 DEF Next, Renew, Register, Unregister, Bless, Scale, vars

\* The render lists the tenant's entries, then perhaps the coordinator.
LEMMA RenderedPlugins ==
    ASSUME NEW c \in Config
    PROVE  LET r == Render(c)
           IN  /\ r.plugins = IF replicas THEN Append(c.plugins, Injected)
                                 ELSE c.plugins
               /\ r.registry = c.registry /\ r.surfaces = c.surfaces
               /\ r.secrets = c.secrets /\ r.settings = c.settings
               /\ r.defaultPolicy = "enforce" /\ r.cluster = replicas
BY DEF Render, Config

LEMMA RenderedEntries ==
    ASSUME NEW c \in Config, NEW i \in DOMAIN Render(c).plugins
    PROVE  \/ /\ i \in DOMAIN c.plugins
              /\ Render(c).plugins[i] = c.plugins[i]
              /\ c.plugins[i] \in PluginEntry
           \/ Render(c).plugins[i] = Injected /\ replicas
<1>1. c.plugins \in Seq(PluginEntry)
  BY DEF Config
<1>2. CASE Render(c).plugins = c.plugins
  BY <1>1, <1>2
<1>3. CASE Render(c).plugins = Append(c.plugins, Injected) /\ replicas
  <2>1. i \in 1..(Len(c.plugins) + 1)
    BY <1>1, <1>3
  <2>2. CASE i = Len(c.plugins) + 1
    BY <1>1, <1>3, <2>2
  <2>3. CASE i \in 1..Len(c.plugins)
    BY <1>1, <1>3, <2>3
  <2> QED BY <1>1, <2>1, <2>2, <2>3
<1> QED BY <1>2, <1>3, RenderedPlugins

-----------------------------------------------------------------------------
\* What the tenant published loads while nothing is taken away, at any scale,
\* and the render with it exactly when the claims admit what a second replica
\* adds.
THEOREM AdmittedConfigsLoad == Spec => []AdmittedLoads
<1>1. Init => AdmittedNow
  BY DEF Init, AdmittedNow
<1>2. TypeOK /\ AdmittedNow => AdmittedLoads
  <2> SUFFICES ASSUME TypeOK, running # Nothing,
                      Admits(running, registered, claims, release)
               PROVE  Loads(Render(running)) <=> (replicas => AdmitsInjected)
    BY DEF AdmittedNow, AdmittedLoads
  <2>1. running \in Config
    BY PublishAssumption DEF TypeOK
  <2>2. ASSUME NEW i \in DOMAIN Render(running).plugins
        PROVE  LET e == Render(running).plugins[i]
               IN  /\ (replicas => AdmitsInjected) =>
                         \/ AdmitsCoordinator(claims, Manifest(e))
                         \/ MayLoad(claims, Manifest(e))
                   /\ e.source = "path" => e.file \in release.baked
    <3>1. CASE /\ i \in DOMAIN running.plugins
               /\ Render(running).plugins[i] = running.plugins[i]
               /\ running.plugins[i] \in PluginEntry
      <4>1. Manifest(running.plugins[i])
               \in {running.plugins[i].id, running.plugins[i].ref} \ {NoRef}
        BY <3>1, GuardAssumption DEF Manifest, PluginEntry
      <4>2. running.plugins[i].told \subseteq {running.plugins[i].file}
        BY <3>1, PathsTellFiles DEF TypeOK
      <4>3. running.plugins[i].source = "path"
               => running.plugins[i].file \in release.baked
        BY <3>1, <4>2 DEF Admits, FitsRelease
      <4> QED BY <3>1, <4>1, <4>3 DEF Admits, Licensed, Entitled
    <3>2. CASE Render(running).plugins[i] = Injected /\ replicas
      BY <3>2 DEF Injected, Manifest, AdmitsInjected
    <3> QED BY <2>1, <3>1, <3>2, RenderedEntries
  <2>3. /\ Render(running).surfaces \subseteq claims.features
        /\ Render(running).secrets \subseteq registered
        /\ Render(running).settings \subseteq release.settings
    BY <2>1, RenderedPlugins DEF Admits, Licensed, Published, FitsRelease
  <2>4. ASSUME replicas, Loads(Render(running)) PROVE AdmitsInjected
    <3> DEFINE last == Len(running.plugins) + 1
    <3>1. running.plugins \in Seq(PluginEntry)
      BY <2>1 DEF Config
    <3>2. Render(running).plugins = Append(running.plugins, Injected)
      BY <2>1, <2>4, RenderedPlugins
    <3>3. last \in DOMAIN Render(running).plugins
          /\ Render(running).plugins[last] = Injected
      BY <3>1, <3>2
    <3>4. \/ AdmitsCoordinator(claims, Manifest(Injected))
          \/ MayLoad(claims, Manifest(Injected))
      BY <2>4, <3>3 DEF Loads
    <3>5. Manifest(Injected) = Coordinator
      BY DEF Injected, Manifest
    <3> QED BY <3>4, <3>5 DEF AdmitsInjected
  <2> QED BY <2>2, <2>3, <2>4 DEF Loads
<1> QED BY <1>1, <1>2, AdmissionLasts, TypeCorrect, PTL DEF Spec

\* Without custom plugins the platform vouches for every artefact.
THEOREM PlatformVouchesForAll == Spec => []PlatformVouches
<1>1. Init => AdmittedUnder
  BY DEF Init, AdmittedUnder
<1>2. TypeOK /\ AdmittedUnder => PlatformVouches
  <2> SUFFICES ASSUME TypeOK, running # Nothing, ~AllowsCustom(under),
                      FirstPartyOnly(running)
               PROVE  LET c == Render(running)
                      IN  /\ ~c.registry
                          /\ \A i \in DOMAIN c.plugins :
                                /\ c.plugins[i].source # "theirs"
                                /\ ~c.plugins[i].keys
                                /\ EffectivePolicy(c, c.plugins[i]) = "enforce"
    BY DEF AdmittedUnder, PlatformVouches, Licensed
  <2>1. running \in Config
    BY PublishAssumption DEF TypeOK
  <2>2. ~Render(running).registry /\ Render(running).defaultPolicy = "enforce"
    BY <2>1, RenderedPlugins DEF FirstPartyOnly
  <2>3. ASSUME NEW i \in DOMAIN Render(running).plugins
        PROVE  LET e == Render(running).plugins[i]
               IN  /\ e.source # "theirs"
                   /\ ~e.keys
                   /\ EffectivePolicy(Render(running), e) = "enforce"
    <3>1. CASE /\ i \in DOMAIN running.plugins
               /\ Render(running).plugins[i] = running.plugins[i]
               /\ running.plugins[i] \in PluginEntry
      BY <2>2, <3>1 DEF FirstPartyOnly, EffectivePolicy, PluginEntry
    <3>2. CASE Render(running).plugins[i] = Injected
      BY <2>2, <3>2 DEF Injected, EffectivePolicy
    <3> QED BY <2>1, <3>1, <3>2, RenderedEntries
  <2> QED BY <2>2, <2>3
<1> QED BY <1>1, <1>2, AdmissionIsRemembered, TypeCorrect, PTL DEF Spec

\* The plugin quota caps what loads.
THEOREM QuotaCapsLoads == Spec => []QuotaCapsWhatLoads
<1>1. Init => AdmittedUnder
  BY DEF Init, AdmittedUnder
<1>2. TypeOK /\ AdmittedUnder => QuotaCapsWhatLoads
  <2> SUFFICES ASSUME TypeOK, running # Nothing, WithinQuotas(running, under)
               PROVE  Within(Cardinality(Counted(Render(running))), under.plugins)
    BY DEF AdmittedUnder, QuotaCapsWhatLoads, Counted
  <2>1. running \in Config /\ running.plugins \in Seq(PluginEntry)
    BY PublishAssumption DEF TypeOK, Config
  <2>2. CASE Render(running).plugins = running.plugins
    BY <2>2 DEF Counted, WithinQuotas
  <2>3. CASE Render(running).plugins = Append(running.plugins, Injected)
    <3>1. DOMAIN Render(running).plugins = 1..(Len(running.plugins) + 1)
      BY <2>1, <2>3
    <3>2. \A i \in DOMAIN running.plugins :
             /\ i \in DOMAIN Render(running).plugins
             /\ Render(running).plugins[i] = running.plugins[i]
      BY <2>1, <2>3
    <3>3. ASSUME NEW i \in DOMAIN Render(running).plugins, i \notin DOMAIN running.plugins
          PROVE  Manifest(Render(running).plugins[i]) = Coordinator
      <4>1. Render(running).plugins[i] = Injected
        BY <2>1, <3>3, RenderedEntries
      <4> QED BY <4>1 DEF Injected, Manifest
    <3>4. Counted(Render(running)) = Counted(running)
      BY <3>2, <3>3 DEF Counted
    <3> QED BY <3>4 DEF WithinQuotas
  <2> QED BY <2>1, <2>2, <2>3, RenderedPlugins
<1> QED BY <1>1, <1>2, AdmissionIsRemembered, TypeCorrect, PTL DEF Spec

LEMMA PrefixKept ==
    ASSUME NEW S, NEW s \in Seq(S), NEW x, NEW t, t = s \/ t = Append(s, x)
    PROVE  SubSeq(t, 1, Len(s)) = s
<1> DEFINE p == SubSeq(t, 1, Len(s))
<1>1. Len(s) \in Nat /\ s = [i \in 1..Len(s) |-> s[i]]
  OBVIOUS
<1>2. p = [i \in 1..Len(s) |-> t[i]]
  BY <1>1
<1>3. \A i \in 1..Len(s) : t[i] = s[i]
  OBVIOUS
<1> QED BY <1>1, <1>2, <1>3

\* A config that draws no warning is rendered with its own plugins first and
\* every policy it states.
THEOREM SilentRendersKeep == Spec => []SilentRunsAsWritten
<1>1. TypeOK => SilentRunsAsWritten
  <2> SUFFICES ASSUME TypeOK, running # Nothing, Warnings(running) = {}
               PROVE  SilentRunsAsWritten
    BY DEF SilentRunsAsWritten
  <2>1. running \in Config /\ running.plugins \in Seq(PluginEntry)
    BY PublishAssumption DEF TypeOK, Config
  <2>2. ~running.cluster /\ running.defaultPolicy # "relaxed"
    BY DEF Warnings
  <2>3. running.defaultPolicy \in {"unset", "enforce", "relaxed"}
    BY <2>1 DEF Config
  <2>4. Render(running).defaultPolicy = "enforce"
    BY <2>1, RenderedPlugins
  <2>5. SubSeq(Render(running).plugins, 1, Len(running.plugins)) = running.plugins
    <3>1. \/ Render(running).plugins = running.plugins
          \/ Render(running).plugins = Append(running.plugins, Injected)
      BY <2>1, RenderedPlugins
    <3> QED BY <2>1, <3>1, PrefixKept
  <2>6. ASSUME NEW i \in DOMAIN running.plugins
        PROVE  EffectivePolicy(running, running.plugins[i]) \in
                   {"unset", EffectivePolicy(Render(running), running.plugins[i])}
    BY <2>2, <2>3, <2>4 DEF EffectivePolicy
  <2> QED BY <2>2, <2>3, <2>4, <2>5, <2>6 DEF SilentRunsAsWritten
<1> QED BY <1>1, TypeCorrect, PTL DEF Spec

-----------------------------------------------------------------------------
(***************************************************************************)
(* Least elements, and induction from the end of a text.                   *)
(***************************************************************************)
\* A set of numbers has a least one.
LEMMA LeastOf ==
    ASSUME NEW S, S \subseteq Nat, S # {}
    PROVE  Min(S) \in S /\ \A y \in S : Min(S) <= y
<1>1. PICK x \in S : \A y \in S : ~ (<<y, x>> \in OpToRel(<, Nat))
    BY NatLessThanWellFounded, WFMin
<1>2. \A y \in S : ~ (y < x)
    BY <1>1 DEF OpToRel
<1>3. \A y \in S : x <= y
    BY <1>2
<1> QED BY <1>3 DEF Min

\* Induction from the end, where every later place may be used.
LEMMA FromTheEnd ==
    ASSUME NEW n \in Nat, NEW T,
           \A k \in 1..n : (\A j \in k + 1..n : j \in T) => k \in T
    PROVE  1..n \subseteq T
<1> DEFINE Missed == {m \in Nat : m < n /\ n - m \notin T}
<1>1. SUFFICES ASSUME Missed # {} PROVE FALSE
    <2>1. SUFFICES ASSUME NEW k \in 1..n, k \notin T PROVE FALSE
        OBVIOUS
    <2>2. n - k \in Missed
        <3>1. n - (n - k) = k
            OBVIOUS
        <3> QED BY <2>1, <3>1
    <2> QED BY <1>1, <2>2
<1> DEFINE m == Min(Missed)
<1>2. m \in Missed /\ \A l \in Missed : m <= l
    <2>1. Missed \subseteq Nat
        OBVIOUS
    <2> HIDE DEF Missed
    <2> QED BY <1>1, <2>1, LeastOf
<1> HIDE DEF m
<1>3. m \in Nat /\ m < n /\ n - m \notin T
    BY <1>2
<1>4. PICK j \in (n - m) + 1..n : j \notin T
    BY <1>3
<1>5. n - j \in Missed /\ n - j < m
    <2>1. n - (n - j) = j
        BY <1>3
    <2> QED BY <1>3, <1>4, <2>1
<1> QED BY <1>2, <1>3, <1>5

-----------------------------------------------------------------------------
(***************************************************************************)
(* The tokens of a value.                                                  *)
(***************************************************************************)
\* find gives the first place there is.
LEMMA FindIsFirst ==
    ASSUME NEW t \in Seq(Symbols), NEW i \in Nat \ {0}, NEW S
    PROVE  /\ Find(t, i, S) = 0 => \A k \in i..Len(t) : t[k] \notin S
           /\ Find(t, i, S) # 0 =>
                  /\ Find(t, i, S) \in i..Len(t) /\ t[Find(t, i, S)] \in S
                  /\ \A k \in i..(Find(t, i, S) - 1) : t[k] \notin S
<1> DEFINE at == {k \in i..Len(t) : t[k] \in S}
<1>1. Find(t, i, S) = IF at = {} THEN 0 ELSE Min(at)
    BY DEF Find
<1>2. Len(t) \in Nat
    OBVIOUS
<1>3. CASE at = {}
    BY <1>1, <1>3
<1>4. CASE at # {}
    <2>1. at \subseteq Nat
        BY <1>2
    <2>2. Min(at) \in at /\ \A y \in at : Min(at) <= y
        <3> HIDE DEF at
        <3> QED BY <1>4, <2>1, LeastOf
    <2>3. Find(t, i, S) = Min(at)
        BY <1>1, <1>4
    <2> DEFINE m == Min(at)
    <2> HIDE DEF m
    <2>4. m \in at /\ \A y \in at : m <= y
        BY <2>2 DEF m
    <2>5. \A k \in i..(m - 1) : t[k] \notin S
        BY <1>2, <2>4
    <2>6. m \in i..Len(t) /\ t[m] \in S /\ m # 0
        BY <1>2, <2>4
    <2>7. Find(t, i, S) = m
        BY <2>3 DEF m
    <2> QED BY <2>5, <2>6, <2>7
<1> QED BY <1>3, <1>4

\* The token that is found from place i on.
Start(t, opener, i) == Find(t, i, {opener})
Close(t, opener, i) == Find(t, Start(t, opener, i) + 1, {Brace})

\* The loop that tokens_from and cred_token_inners share.
LEMMA TokensLoop ==
    ASSUME NEW t \in Seq(Symbols), NEW opener
    PROVE  \E from :
               /\ Tokens(t, opener) = from[1]
               /\ \A i \in 1..Len(t) + 1 :
                      from[i] = IF Start(t, opener, i) = 0 \/ Close(t, opener, i) = 0
                                THEN {}
                                ELSE {SubSeq(t, Start(t, opener, i), Close(t, opener, i))}
                                         \cup from[Close(t, opener, i) + 1]
<1> DEFINE n == Len(t) + 1
           Step(g, i) == LET start == Find(t, i, {opener})
                             close == Find(t, start + 1, {Brace})
                         IN  IF start = 0 \/ close = 0 THEN {}
                             ELSE {SubSeq(t, start, close)} \cup g[close + 1]
           Fixed(g, k) == g = [i \in k..n |-> Step(g, i)]
           Done == {k \in 1..n : \E g : Fixed(g, k)}
<1>0. n \in Nat /\ 1 \in 1..n
    OBVIOUS
<1>1. Tokens(t, opener) = (CHOOSE g : g = [i \in 1..n |-> Step(g, i)])[1]
    BY DEF Tokens
<1>2. ASSUME NEW k \in 1..n, \A j \in k + 1..n : j \in Done PROVE k \in Done
    \* What one round looks at lies behind it.
    <2>1. ASSUME NEW g, NEW h, NEW i \in k..n, \A j \in i + 1..n : g[j] = h[j]
          PROVE  Step(g, i) = Step(h, i)
        <3> DEFINE start == Find(t, i, {opener})
                   close == Find(t, start + 1, {Brace})
        <3>0. i \in Nat \ {0} /\ Len(t) \in Nat
            BY <1>0
        <3>1. start # 0 => start \in i..Len(t)
            BY <3>0, FindIsFirst
        <3>2. start # 0 /\ close # 0 => close \in start + 1..Len(t)
            <4> SUFFICES ASSUME start # 0 PROVE close # 0 => close \in start + 1..Len(t)
                OBVIOUS
            <4> HIDE DEF start
            <4>1. start + 1 \in Nat \ {0}
                BY <3>0, <3>1
            <4> QED BY <4>1, FindIsFirst
        <3>3. start # 0 /\ close # 0 => close + 1 \in i + 1..n
            <4> HIDE DEF start, close
            <4> QED BY <3>0, <3>1, <3>2
        <3> HIDE DEF start, close
        <3>4. start # 0 /\ close # 0 => g[close + 1] = h[close + 1]
            BY <2>1, <3>3
        <3> QED BY <3>4 DEF start, close
    <2>2. \E g : \A i \in k + 1..n : g[i] = Step(g, i)
        <3>1. CASE k = n
            <4>1. k + 1..n = {}
                BY <1>0, <3>1
            <4> HIDE DEF Step
            <4> QED BY <4>1
        <3>2. CASE k # n
            <4>1. k + 1 \in Done
                <5> HIDE DEF Done
                <5>1. k + 1 \in k + 1..n
                    BY <1>0, <3>2
                <5> QED BY <1>2, <5>1
            <4>2. PICK g : Fixed(g, k + 1)
                <5> HIDE DEF Fixed
                <5> QED BY <4>1
            <4>3. \A i \in k + 1..n : g[i] = Step(g, i)
                <5> HIDE DEF Step
                <5> QED BY <4>2
            <4> HIDE DEF Step
            <4> QED BY <4>3
        <3> HIDE DEF Step
        <3> QED BY <3>1, <3>2
    <2>3. PICK g : \A i \in k + 1..n : g[i] = Step(g, i)
        <3> HIDE DEF Step
        <3> QED BY <2>2
    <2> HIDE DEF Step
    <2> DEFINE h == [i \in k..n |-> IF i = k THEN Step(g, k) ELSE g[i]]
    <2>4. \A i \in k + 1..n : h[i] = g[i]
        BY <1>0
    <2>5. \A i \in k..n : h[i] = Step(g, i)
        <3>1. \A i \in k..n : i = k \/ i \in k + 1..n
            BY <1>0
        <3> QED BY <2>3, <3>1
    <2>6. \A i \in k..n : Step(h, i) = Step(g, i)
        <3> SUFFICES ASSUME NEW i \in k..n PROVE Step(h, i) = Step(g, i)
            OBVIOUS
        <3>1. \A j \in i + 1..n : h[j] = g[j]
            BY <1>0, <2>4
        <3> HIDE DEF h
        <3> QED BY <2>1, <3>1
    <2>7. Fixed(h, k)
        BY <2>5, <2>6
    <2> HIDE DEF Fixed, h
    <2> QED BY <2>7
<1>3. 1 \in Done
    <2> HIDE DEF Done
    <2>1. 1..n \subseteq Done
        BY <1>0, <1>2, FromTheEnd
    <2> QED BY <1>0, <2>1
<1> DEFINE from == CHOOSE g : g = [i \in 1..n |-> Step(g, i)]
<1>4. from = [i \in 1..n |-> Step(from, i)]
    <2> HIDE DEF Step
    <2>1. \E g : g = [i \in 1..n |-> Step(g, i)]
        BY <1>3
    <2> QED BY <2>1
<1>5. Tokens(t, opener) = from[1]
    BY <1>1
<1> HIDE DEF from
<1>6. \A i \in 1..n : from[i] = Step(from, i)
    <2> HIDE DEF Step
    <2> QED BY <1>4
<1> QED BY <1>5, <1>6 DEF Start, Close

LEMMA InnersAre ==
    ASSUME NEW t \in Seq(Symbols), NEW opener, NEW x
    PROVE  x \in Inners(t, opener) <=>
               \E i, j \in 1..Len(t) : Closes(t, opener, i, j) /\ x = SubSeq(t, i + 1, j - 1)
<1>1. x \in Inners(t, opener) <=>
          \E p \in (DOMAIN t) \X (DOMAIN t) :
              Closes(t, opener, p[1], p[2]) /\ x = SubSeq(t, p[1] + 1, p[2] - 1)
    BY DEF Inners
<1>2. DOMAIN t = 1..Len(t)
    OBVIOUS
<1>3. ASSUME NEW i \in 1..Len(t), NEW j \in 1..Len(t), Closes(t, opener, i, j),
             x = SubSeq(t, i + 1, j - 1)
      PROVE  x \in Inners(t, opener)
    <2>1. <<i, j>> \in (DOMAIN t) \X (DOMAIN t) /\ <<i, j>>[1] = i /\ <<i, j>>[2] = j
        BY <1>2
    <2> QED BY <1>1, <1>3, <2>1
<1>4. ASSUME x \in Inners(t, opener)
      PROVE  \E i, j \in 1..Len(t) :
                 Closes(t, opener, i, j) /\ x = SubSeq(t, i + 1, j - 1)
    <2>1. PICK p \in (DOMAIN t) \X (DOMAIN t) :
              Closes(t, opener, p[1], p[2]) /\ x = SubSeq(t, p[1] + 1, p[2] - 1)
        BY <1>1, <1>4
    <2>2. p[1] \in 1..Len(t) /\ p[2] \in 1..Len(t)
        BY <1>2
    <2> QED BY <2>1, <2>2
<1> QED BY <1>3, <1>4

\* One round: the first opener and the first brace behind it.
LEMMA RoundFinds ==
    ASSUME NEW t \in Seq(Symbols), NEW opener, NEW i \in 1..Len(t) + 1, opener # Brace
    PROVE  LET start == Start(t, opener, i)
               close == Close(t, opener, i)
           IN  /\ start # 0 /\ close # 0 =>
                      /\ start \in i..Len(t) /\ close \in start + 1..Len(t)
                      /\ Closes(t, opener, start, close)
               /\ \A p, q \in 1..Len(t) :
                      i <= p /\ Closes(t, opener, p, q) =>
                          /\ start # 0 /\ close # 0 /\ start <= p
                          /\ close < p \/ close = q
<1> DEFINE start == Start(t, opener, i)
           close == Close(t, opener, i)
<1>0. Len(t) \in Nat /\ i \in Nat \ {0}
    OBVIOUS
<1>1. /\ start = 0 => \A k \in i..Len(t) : t[k] # opener
      /\ start # 0 => start \in i..Len(t) /\ t[start] = opener
                      /\ \A k \in i..(start - 1) : t[k] # opener
    BY <1>0, FindIsFirst DEF Start
<1> HIDE DEF start
<1>2. start # 0 =>
          /\ close = 0 => \A k \in start + 1..Len(t) : t[k] # Brace
          /\ close # 0 => close \in start + 1..Len(t) /\ t[close] = Brace
                          /\ \A k \in start + 1..(close - 1) : t[k] # Brace
    <2> SUFFICES ASSUME start # 0
                 PROVE  /\ close = 0 => \A k \in start + 1..Len(t) : t[k] # Brace
                        /\ close # 0 => close \in start + 1..Len(t) /\ t[close] = Brace
                                        /\ \A k \in start + 1..(close - 1) : t[k] # Brace
        OBVIOUS
    <2> DEFINE j == start + 1
    <2>1. j \in Nat \ {0}
        BY <1>0, <1>1
    <2>2. close = Find(t, j, {Brace})
        BY DEF Close, start
    <2> HIDE DEF j, close
    <2>3. /\ close = 0 => \A k \in j..Len(t) : t[k] # Brace
          /\ close # 0 => close \in j..Len(t) /\ t[close] = Brace
                          /\ \A k \in j..(close - 1) : t[k] # Brace
        BY <2>1, <2>2, FindIsFirst
    <2> QED BY <2>3 DEF j
<1> HIDE DEF close
<1>3. ASSUME start # 0, close # 0
      PROVE  /\ start \in i..Len(t) /\ close \in start + 1..Len(t)
             /\ Closes(t, opener, start, close)
    <2>1. \A k \in start..(close - 1) : k = start \/ k \in start + 1..(close - 1)
        BY <1>0, <1>1, <1>2, <1>3
    <2> QED BY <1>0, <1>1, <1>2, <1>3, <2>1 DEF Closes
<1>4. ASSUME NEW p \in 1..Len(t), NEW q \in 1..Len(t), i <= p, Closes(t, opener, p, q)
      PROVE  start # 0 /\ close # 0 /\ start <= p /\ (close < p \/ close = q)
    <2>1. t[p] = opener /\ t[q] = Brace /\ p < q /\ \A k \in p..(q - 1) : t[k] # Brace
        BY <1>4 DEF Closes
    <2>2. start # 0 /\ start <= p
        BY <1>0, <1>1, <1>4, <2>1
    <2>3. close # 0 /\ close <= q
        BY <1>0, <1>1, <1>2, <2>1, <2>2
    <2>4. close < p \/ close = q
        BY <1>0, <1>2, <2>1, <2>2, <2>3
    <2> QED BY <2>2, <2>3, <2>4
<1> QED BY <1>3, <1>4 DEF start, close

\* Each token runs from an opener to the first brace behind it.
LEMMA TokensClose ==
    ASSUME NEW t \in Seq(Symbols), NEW opener, NEW token,
           opener # Brace, token \in Tokens(t, opener)
    PROVE  \E i, j \in 1..Len(t) : Closes(t, opener, i, j) /\ token = SubSeq(t, i, j)
<1>0. Len(t) \in Nat
    OBVIOUS
<1>1. PICK from :
          /\ Tokens(t, opener) = from[1]
          /\ \A i \in 1..Len(t) + 1 :
                 from[i] = IF Start(t, opener, i) = 0 \/ Close(t, opener, i) = 0
                           THEN {}
                           ELSE {SubSeq(t, Start(t, opener, i), Close(t, opener, i))}
                                    \cup from[Close(t, opener, i) + 1]
    BY TokensLoop
<1> DEFINE Good(x) == \E i, j \in 1..Len(t) : Closes(t, opener, i, j) /\ x = SubSeq(t, i, j)
           All == {k \in 1..Len(t) + 1 : \A x \in from[k] : Good(x)}
<1>2. ASSUME NEW k \in 1..Len(t) + 1, \A j \in k + 1..Len(t) + 1 : j \in All
      PROVE  k \in All
    <2> DEFINE start == Start(t, opener, k)
               close == Close(t, opener, k)
    <2>1. from[k] = IF start = 0 \/ close = 0 THEN {}
                    ELSE {SubSeq(t, start, close)} \cup from[close + 1]
        BY <1>1, Zenon
    <2>2. start # 0 /\ close # 0 =>
              /\ start \in k..Len(t) /\ close \in start + 1..Len(t)
              /\ Closes(t, opener, start, close)
        BY RoundFinds
    <2> HIDE DEF start, close, All
    <2>3. CASE start = 0 \/ close = 0
        BY <2>1, <2>3 DEF All
    <2>4. CASE start # 0 /\ close # 0
        <3>1. close + 1 \in k + 1..Len(t) + 1
            BY <1>0, <2>2, <2>4
        <3>2. \A x \in from[close + 1] : Good(x)
            BY <1>2, <3>1 DEF All
        <3>3. Good(SubSeq(t, start, close))
            <4>1. start \in 1..Len(t) /\ close \in 1..Len(t)
                BY <1>0, <2>2, <2>4
            <4> QED BY <2>2, <2>4, <4>1
        <3> HIDE DEF Good
        <3> QED BY <2>1, <2>4, <3>2, <3>3 DEF All
    <2> QED BY <2>3, <2>4
<1>3. 1..Len(t) + 1 \subseteq All
    <2>1. Len(t) + 1 \in Nat
        BY <1>0
    <2> HIDE DEF All
    <2> QED BY <1>2, <2>1, FromTheEnd
<1>4. 1 \in All
    <2> HIDE DEF All
    <2> QED BY <1>0, <1>3
<1> QED BY <1>1, <1>4

\* No reference is passed over: whatever ends at a brace is in the token that
\* ends there, from its own opener or from an earlier one.
LEMMA TokensCover ==
    ASSUME NEW t \in Seq(Symbols), NEW opener, NEW p \in 1..Len(t), NEW q \in 1..Len(t),
           opener # Brace, Closes(t, opener, p, q)
    PROVE  \E s \in 1..p : Closes(t, opener, s, q) /\ SubSeq(t, s, q) \in Tokens(t, opener)
<1>0. Len(t) \in Nat
    OBVIOUS
<1>1. PICK from :
          /\ Tokens(t, opener) = from[1]
          /\ \A i \in 1..Len(t) + 1 :
                 from[i] = IF Start(t, opener, i) = 0 \/ Close(t, opener, i) = 0
                           THEN {}
                           ELSE {SubSeq(t, Start(t, opener, i), Close(t, opener, i))}
                                    \cup from[Close(t, opener, i) + 1]
    BY TokensLoop
<1> DEFINE Told(k) == \E s \in 1..p : Closes(t, opener, s, q) /\ SubSeq(t, s, q) \in from[k]
           All == {k \in 1..Len(t) + 1 : k <= p => Told(k)}
<1>2. ASSUME NEW k \in 1..Len(t) + 1, \A j \in k + 1..Len(t) + 1 : j \in All
      PROVE  k \in All
    <2> SUFFICES ASSUME k <= p PROVE Told(k)
        OBVIOUS
    <2> DEFINE start == Start(t, opener, k)
               close == Close(t, opener, k)
    <2>1. from[k] = IF start = 0 \/ close = 0 THEN {}
                    ELSE {SubSeq(t, start, close)} \cup from[close + 1]
        BY <1>1, Zenon
    <2>2. start # 0 /\ close # 0 =>
              /\ start \in k..Len(t) /\ close \in start + 1..Len(t)
              /\ Closes(t, opener, start, close)
        BY RoundFinds
    <2>3. start # 0 /\ close # 0 /\ start <= p /\ (close < p \/ close = q)
        BY RoundFinds
    <2> HIDE DEF start, close, All
    <2>4. from[k] = {SubSeq(t, start, close)} \cup from[close + 1]
        BY <2>1, <2>3
    <2>5. CASE close < p
        <3>1. close + 1 \in k + 1..Len(t) + 1 /\ close + 1 <= p
            BY <1>0, <2>2, <2>3, <2>5
        <3>2. Told(close + 1)
            BY <1>2, <3>1 DEF All
        <3> QED BY <2>4, <3>2
    <2>6. CASE close = q
        <3>1. start \in 1..p
            BY <1>0, <2>2, <2>3
        <3> QED BY <2>2, <2>3, <2>4, <2>6, <3>1
    <2> QED BY <2>3, <2>5, <2>6
<1>3. 1..Len(t) + 1 \subseteq All
    <2>1. Len(t) + 1 \in Nat
        BY <1>0
    <2> HIDE DEF All
    <2> QED BY <1>2, <2>1, FromTheEnd
<1>4. 1 \in All
    <2> HIDE DEF All
    <2> QED BY <1>0, <1>3
<1> QED BY <1>0, <1>1, <1>4

-----------------------------------------------------------------------------
\* Parts of a text.
LEMMA Parts ==
    ASSUME NEW t \in Seq(Symbols), NEW i \in 1..Len(t), NEW j \in 1..Len(t), i < j
    PROVE  LET token == SubSeq(t, i, j)
               inner == SubSeq(t, i + 1, j - 1)
           IN  /\ token \in Seq(Symbols) /\ Len(token) = (j - i) + 1
               /\ inner \in Seq(Symbols) /\ Len(inner) = (j - i) - 1
               /\ token[Len(token)] = t[j]
               /\ SubSeq(token, 2, Len(token) - 1) = inner
               /\ \A k \in i + 1..j - 1 : inner[k - i] = t[k]
<1> DEFINE token == SubSeq(t, i, j)
           inner == SubSeq(t, i + 1, j - 1)
<1>0. Len(t) \in Nat
    OBVIOUS
<1>1. /\ token \in Seq(Symbols) /\ Len(token) = (j - i) + 1
      /\ \A k \in 1..(j - i) + 1 : token[k] = t[k + i - 1]
    BY <1>0
<1>2. /\ inner \in Seq(Symbols) /\ Len(inner) = (j - i) - 1
      /\ \A k \in 1..(j - i) - 1 : inner[k] = t[k + i]
    BY <1>0
<1>3. token[Len(token)] = t[j]
    <2> HIDE DEF token
    <2> QED BY <1>0, <1>1
<1>4. SubSeq(token, 2, Len(token) - 1) = inner
    <2> HIDE DEF token, inner
    <2> DEFINE middle == SubSeq(token, 2, Len(token) - 1)
    <2>1. /\ middle \in Seq(Symbols) /\ Len(middle) = (j - i) - 1
          /\ \A k \in 1..(j - i) - 1 : middle[k] = token[k + 1]
        BY <1>0, <1>1
    <2> HIDE DEF middle
    <2>2. ASSUME NEW k \in 1..(j - i) - 1 PROVE middle[k] = inner[k]
        <3>1. k + 1 \in 1..(j - i) + 1 /\ (k + 1) + i - 1 = k + i
            BY <1>0
        <3>2. token[k + 1] = t[k + i]
            BY <1>1, <3>1
        <3> QED BY <1>2, <2>1, <3>2
    <2>3. middle = [k \in 1..(j - i) - 1 |-> middle[k]]
        BY <2>1
    <2>4. inner = [k \in 1..(j - i) - 1 |-> inner[k]]
        BY <1>2
    <2> QED BY <2>2, <2>3, <2>4 DEF middle
<1>5. \A k \in i + 1..j - 1 : inner[k - i] = t[k]
    <2> HIDE DEF inner
    <2> QED BY <1>0, <1>2
<1> QED BY <1>1, <1>2, <1>3, <1>4, <1>5

LEMMA Marks ==
    /\ ENV_OPENER # Brace /\ SECRET_OPENER # Brace /\ CRED_OPENER # Brace
    /\ Ellipsis # Brace /\ Hash # Slash /\ Hash \notin Slashed /\ Slash \notin Slashed
BY Zenon DEF ENV_OPENER, SECRET_OPENER, CRED_OPENER, Brace, Ellipsis, Hash, Slash,
             Slashed, HOST_SECRET_SCHEMES, SchemeEnd

\* A snippet tells the name, unless it is cut short.
LEMMA SnippetNames ==
    ASSUME NEW t \in Seq(Symbols), NEW i \in 1..Len(t), NEW j \in 1..Len(t),
           i < j, t[j] = Brace
    PROVE  LET snippet == truncate(SubSeq(t, i, j))
           IN  NameIn(snippet) = IF (j - i) + 1 <= SnippetMax
                                 THEN SubSeq(t, i + 1, j - 1) ELSE <<>>
<1> DEFINE token == SubSeq(t, i, j)
<1>1. /\ token \in Seq(Symbols) /\ Len(token) = (j - i) + 1
      /\ token[Len(token)] = Brace
      /\ SubSeq(token, 2, Len(token) - 1) = SubSeq(t, i + 1, j - 1)
    BY Parts
<1> HIDE DEF token
<1>2. SnippetMax \in Nat /\ i \in Nat /\ j \in Nat
    BY SnippetsHoldKeys
<1>3. CASE Len(token) <= SnippetMax
    <2>1. truncate(token) = token
        BY <1>3 DEF truncate
    <2>2. NameIn(token) = SubSeq(token, 2, Len(token) - 1)
        BY <1>1 DEF NameIn, Last
    <2> QED BY <1>1, <1>3, <2>1, <2>2 DEF token
<1>4. CASE ~ (Len(token) <= SnippetMax)
    <2> DEFINE cut == SubSeq(token, 1, SnippetMax)
               snippet == cut \o <<Ellipsis>>
    <2>1. truncate(token) = snippet
        BY <1>4 DEF truncate
    <2>2. cut \in Seq(Symbols) /\ Len(cut) = SnippetMax
        BY <1>1, <1>2, <1>4
    <2>3. Len(snippet) = SnippetMax + 1 /\ snippet[SnippetMax + 1] = Ellipsis
        <3> HIDE DEF cut
        <3>1. cut \in Seq(Symbols \cup {Ellipsis}) /\ <<Ellipsis>> \in Seq(Symbols \cup {Ellipsis})
            BY <2>2
        <3> QED BY <1>2, <2>2, <3>1
    <2> HIDE DEF snippet
    <2>4. NameIn(snippet) = <<>>
        BY <2>3, Marks DEF NameIn, Last
    <2> QED BY <1>1, <1>4, <2>1, <2>4 DEF token
<1> QED BY <1>3, <1>4

LEMMA KeysFit ==
    ASSUME NEW name, is_secret_key(name)
    PROVE  /\ Len(name) >= 1 /\ Len(name) <= SECRET_KEY_MAX_LEN
           /\ \A k \in DOMAIN name : name[k] \in Letters \cup Digits
BY SnippetsHoldKeys DEF is_secret_key, ToSet

\* A value is refused for a name exactly when some reference in it is not to a
\* registered key.
LEMMA SecretsAreRead ==
    ASSUME NEW t \in Seq(Symbols), NEW keys \in SUBSET Secrets
    PROVE  (\E snippet \in TokensFrom(t, SECRET_OPENER) :
                ~ (is_secret_key(NameIn(snippet)) /\ NameIn(snippet) \in keys))
           <=> ~ (Inners(t, SECRET_OPENER) \subseteq keys)
<1>0. Len(t) \in Nat /\ SnippetMax \in Nat /\ SECRET_KEY_MAX_LEN \in Nat
      /\ SnippetMax >= SECRET_KEY_MAX_LEN + 2
    BY SnippetsHoldKeys
<1>1. ASSUME NEW snippet \in TokensFrom(t, SECRET_OPENER),
             Inners(t, SECRET_OPENER) \subseteq keys
      PROVE  is_secret_key(NameIn(snippet)) /\ NameIn(snippet) \in keys
    <2>1. PICK token \in Tokens(t, SECRET_OPENER) : snippet = truncate(token)
        BY DEF TokensFrom
    <2>2. PICK i \in 1..Len(t), j \in 1..Len(t) :
              Closes(t, SECRET_OPENER, i, j) /\ token = SubSeq(t, i, j)
        BY Marks, TokensClose
    <2> DEFINE inner == SubSeq(t, i + 1, j - 1)
    <2>3. i < j /\ t[j] = Brace
        BY <2>2 DEF Closes
    <2>4. inner \in keys
        BY <1>1, <2>2, InnersAre
    <2>5. is_secret_key(inner)
        BY <2>4, NamesAreTexts
    <2>6. Len(inner) = (j - i) - 1
        BY <2>3, Parts
    <2>7. NameIn(snippet) = IF (j - i) + 1 <= SnippetMax THEN inner ELSE <<>>
        BY <2>1, <2>2, <2>3, SnippetNames
    <2> HIDE DEF inner
    <2>8. (j - i) + 1 <= SnippetMax
        BY <1>0, <2>5, <2>6, KeysFit
    <2> QED BY <2>4, <2>5, <2>7, <2>8
<1>2. ASSUME ~ (Inners(t, SECRET_OPENER) \subseteq keys)
      PROVE  \E snippet \in TokensFrom(t, SECRET_OPENER) :
                 ~ (is_secret_key(NameIn(snippet)) /\ NameIn(snippet) \in keys)
    <2>1. PICK x \in Inners(t, SECRET_OPENER) : x \notin keys
        BY <1>2
    <2>2. PICK p \in 1..Len(t), q \in 1..Len(t) :
              Closes(t, SECRET_OPENER, p, q) /\ x = SubSeq(t, p + 1, q - 1)
        BY InnersAre
    <2>3. PICK s \in 1..p :
              Closes(t, SECRET_OPENER, s, q) /\ SubSeq(t, s, q) \in Tokens(t, SECRET_OPENER)
        BY <2>2, Marks, TokensCover
    <2>4. s \in 1..Len(t) /\ s < q /\ t[q] = Brace /\ p < q /\ t[p] = SECRET_OPENER
        BY <2>2, <2>3 DEF Closes
    <2> DEFINE snippet == truncate(SubSeq(t, s, q))
               inner == SubSeq(t, s + 1, q - 1)
    <2>5. NameIn(snippet) = IF (q - s) + 1 <= SnippetMax THEN inner ELSE <<>>
        BY <2>4, SnippetNames
    <2>6. snippet \in TokensFrom(t, SECRET_OPENER)
        BY <2>3 DEF TokensFrom
    <2>7. ~ is_secret_key(<<>>)
        <3>1. Len(<<>>) = 0
            OBVIOUS
        <3> QED BY <3>1, KeysFit
    <2>8. CASE s = p
        <3>1. inner = x
            BY <2>2, <2>8
        <3> HIDE DEF snippet, inner
        <3> QED BY <2>1, <2>5, <2>6, <2>7, <3>1
    <2>9. CASE s # p
        <3>1. /\ inner \in Seq(Symbols) /\ Len(inner) = (q - s) - 1
              /\ \A k \in s + 1..q - 1 : inner[k - s] = t[k]
            BY <2>4, Parts
        <3> HIDE DEF snippet, inner
        <3>2. p \in s + 1..q - 1 /\ p - s \in 1..(q - s) - 1
            BY <1>0, <2>4, <2>9
        <3>3. inner[p - s] = SECRET_OPENER /\ p - s \in DOMAIN inner
            BY <2>4, <3>1, <3>2
        <3>4. ~ is_secret_key(inner)
            BY <3>3, KeysFit, OpenersAreNoLetters
        <3> QED BY <2>5, <2>6, <2>7, <3>4
    <2> QED BY <2>8, <2>9
<1> QED BY <1>1, <1>2

\* Some token is found exactly where there is a reference.
LEMMA EnvsAreRead ==
    ASSUME NEW t \in Seq(Symbols)
    PROVE  TokensFrom(t, ENV_OPENER) = {} <=> Inners(t, ENV_OPENER) = {}
<1>1. ASSUME NEW snippet \in TokensFrom(t, ENV_OPENER) PROVE Inners(t, ENV_OPENER) # {}
    <2>1. PICK token \in Tokens(t, ENV_OPENER) : TRUE
        BY <1>1 DEF TokensFrom
    <2>2. PICK i \in 1..Len(t), j \in 1..Len(t) : Closes(t, ENV_OPENER, i, j)
        BY Marks, TokensClose
    <2>3. SubSeq(t, i + 1, j - 1) \in Inners(t, ENV_OPENER)
        BY <2>2, InnersAre
    <2> QED BY <2>3
<1>2. ASSUME NEW x \in Inners(t, ENV_OPENER) PROVE TokensFrom(t, ENV_OPENER) # {}
    <2>1. PICK p \in 1..Len(t), q \in 1..Len(t) : Closes(t, ENV_OPENER, p, q)
        BY InnersAre
    <2>2. PICK s \in 1..p : SubSeq(t, s, q) \in Tokens(t, ENV_OPENER)
        BY <2>1, Marks, TokensCover
    <2>3. truncate(SubSeq(t, s, q)) \in TokensFrom(t, ENV_OPENER)
        BY <2>2 DEF TokensFrom
    <2> QED BY <2>3
<1> QED BY <1>1, <1>2

\* Unless one credential stands in another, each is a token of its own.
LEMMA CredsAreTokens ==
    ASSUME NEW t \in Seq(Symbols), ~ CredsNest(t)
    PROVE  CredTokenInners(t) = Inners(t, CRED_OPENER)
<1>0. Len(t) \in Nat
    OBVIOUS
<1>1. ASSUME NEW x \in CredTokenInners(t) PROVE x \in Inners(t, CRED_OPENER)
    <2>1. PICK token \in Tokens(t, CRED_OPENER) : x = SubSeq(token, 2, Len(token) - 1)
        BY DEF CredTokenInners
    <2>2. PICK i \in 1..Len(t), j \in 1..Len(t) :
              Closes(t, CRED_OPENER, i, j) /\ token = SubSeq(t, i, j)
        BY Marks, TokensClose
    <2>3. i < j
        BY <2>2 DEF Closes
    <2>4. x = SubSeq(t, i + 1, j - 1)
        BY <2>1, <2>2, <2>3, Parts
    <2> QED BY <2>2, <2>4, InnersAre
<1>2. ASSUME NEW x \in Inners(t, CRED_OPENER) PROVE x \in CredTokenInners(t)
    <2>1. PICK p \in 1..Len(t), q \in 1..Len(t) :
              Closes(t, CRED_OPENER, p, q) /\ x = SubSeq(t, p + 1, q - 1)
        BY InnersAre
    <2>2. PICK s \in 1..p :
              Closes(t, CRED_OPENER, s, q) /\ SubSeq(t, s, q) \in Tokens(t, CRED_OPENER)
        BY <2>1, Marks, TokensCover
    <2>3. s \in 1..Len(t) /\ s < q /\ p < q /\ t[p] = CRED_OPENER
        BY <2>1, <2>2 DEF Closes
    <2> DEFINE inner == SubSeq(t, s + 1, q - 1)
               token == SubSeq(t, s, q)
    <2>4. /\ inner \in Seq(Symbols) /\ Len(inner) = (q - s) - 1
          /\ \A k \in s + 1..q - 1 : inner[k - s] = t[k]
          /\ SubSeq(token, 2, Len(token) - 1) = inner
        BY <2>3, Parts
    <2>5. inner \in Inners(t, CRED_OPENER)
        BY <2>2, <2>3, InnersAre
    <2>6. inner \in CredTokenInners(t)
        BY <2>2, <2>4 DEF CredTokenInners
    <2>7. s = p => inner = x
        BY <2>1
    <2> HIDE DEF inner, token
    <2>8. ASSUME s # p PROVE FALSE
        <3>1. p \in s + 1..q - 1 /\ p - s \in 1..(q - s) - 1
            BY <1>0, <2>3, <2>8
        <3>2. inner[p - s] = CRED_OPENER /\ p - s \in 1..Len(inner)
            BY <2>3, <2>4, <3>1
        <3>3. Contains(inner, CRED_OPENER)
            BY <3>2 DEF Contains
        <3> QED BY <2>5, <3>3 DEF CredsNest
    <2> QED BY <2>6, <2>7, <2>8
<1> QED BY <1>1, <1>2

\* The guard splits a credential the way a reader does.
LEMMA CredsAreSplit ==
    ASSUME NEW x \in Seq(Symbols)
    PROVE  IsWellFormedCred(x) <=> Credential(x)
<1> DEFINE n == Len(x)
           hash == Find(x, 1, {Hash})
           path == IF hash = 0 THEN x ELSE SubSeq(x, 1, hash - 1)
           m == IF hash = 0 THEN n ELSE hash - 1
           Slashes == {Slash} \cup Slashed
           slash == Find(path, 1, Slashes)
<1>0. n \in Nat /\ DOMAIN x = 1..n /\ Hash \notin Slashes /\ Slash \notin Slashed
    BY Marks
<1>1. /\ hash = 0 => \A k \in 1..n : x[k] # Hash
      /\ hash # 0 => hash \in 1..n /\ x[hash] = Hash /\ \A k \in 1..(hash - 1) : x[k] # Hash
    BY FindIsFirst
<1>2. IsWellFormedCred(x) <=> /\ hash # n \/ hash = 0
                              /\ slash # 0
                              /\ path[slash] = Slash => slash > 1 /\ slash < Len(path)
    BY Zenon DEF IsWellFormedCred
<1> HIDE DEF hash
<1>3. path \in Seq(Symbols)
    BY <1>0, <1>1
<1>4. m \in Nat /\ m <= n /\ Len(path) = m /\ \A k \in 1..m : path[k] = x[k]
    BY <1>0, <1>1
<1>5. \A k \in 1..m : x[k] # Hash
    BY <1>0, <1>1
<1>6. hash # 0 => hash \in 1..n /\ x[hash] = Hash /\ hash = m + 1
    BY <1>0, <1>1
<1>7. hash = 0 => m = n /\ \A k \in 1..n : x[k] # Hash
    BY <1>1
<1> HIDE DEF path, m, Slashes
<1>8. /\ slash = 0 => \A k \in 1..m : path[k] \notin Slashes
      /\ slash # 0 => slash \in 1..m /\ path[slash] \in Slashes
                      /\ \A k \in 1..(slash - 1) : path[k] \notin Slashes
    BY <1>3, <1>4, FindIsFirst
<1> HIDE DEF slash
<1>9. Credential(x) <=>
          \E i \in 1..n :
              /\ \A k \in 1..(i - 1) : x[k] \notin Slashed \cup {Slash, Hash}
              /\ \/ x[i] \in Slashed
                 \/ x[i] = Slash /\ i \in 2..(n - 1) /\ x[i + 1] # Hash
              /\ x[n] = Hash => \E h \in i..(n - 1) : x[h] = Hash
    BY <1>0, Zenon DEF Credential, Last
<1> HIDE DEF n
<1>10. ASSUME IsWellFormedCred(x) PROVE Credential(x)
    <2>1. slash \in 1..m /\ x[slash] \in Slashes
        BY <1>2, <1>4, <1>8, <1>10
    <2>2. \A k \in 1..(slash - 1) : x[k] \notin Slashes /\ x[k] # Hash
        BY <1>0, <1>2, <1>4, <1>5, <1>8, <1>10
    <2>3. \/ x[slash] \in Slashed
          \/ x[slash] = Slash /\ slash \in 2..(n - 1) /\ x[slash + 1] # Hash
        BY <1>0, <1>2, <1>4, <1>5, <1>10, <2>1 DEF Slashes
    <2>4. x[n] = Hash => \E h \in slash..(n - 1) : x[h] = Hash
        BY <1>0, <1>2, <1>4, <1>6, <1>7, <1>10, <2>1
    <2>5. slash \in 1..n
        BY <1>0, <1>4, <2>1
    <2>6. \A k \in 1..(slash - 1) : x[k] \notin Slashed \cup {Slash, Hash}
        BY <2>2 DEF Slashes
    <2> QED BY <1>9, <2>3, <2>4, <2>5, <2>6
<1>11. ASSUME Credential(x) PROVE IsWellFormedCred(x)
    <2>1. PICK i \in 1..n :
              /\ \A k \in 1..(i - 1) : x[k] \notin Slashed \cup {Slash, Hash}
              /\ \/ x[i] \in Slashed
                 \/ x[i] = Slash /\ i \in 2..(n - 1) /\ x[i + 1] # Hash
              /\ x[n] = Hash => \E h \in i..(n - 1) : x[h] = Hash
        BY <1>9, <1>11
    <2>2. x[i] \in Slashes
        BY <2>1 DEF Slashes
    <2>3. i <= m
        BY <1>0, <1>4, <1>6, <1>7, <2>1, <2>2
    <2>4. slash = i
        <3>1. \A k \in 1..(i - 1) : x[k] \notin Slashes
            BY <2>1 DEF Slashes
        <3>2. path[i] \in Slashes /\ \A k \in 1..(i - 1) : path[k] \notin Slashes
            BY <1>0, <1>4, <2>1, <2>2, <2>3, <3>1
        <3> QED BY <1>0, <1>4, <1>8, <2>1, <2>3, <3>2
    <2>5. path[i] = x[i]
        BY <1>0, <1>4, <2>1, <2>3
    <2>6. x[i] = Slash => i > 1 /\ i < m
        BY <1>0, <1>4, <1>6, <1>7, <2>1, <2>3
    <2>7. hash # n \/ hash = 0
        BY <1>0, <1>4, <1>5, <1>6, <1>7, <2>1
    <2> QED BY <1>0, <1>2, <1>4, <2>1, <2>4, <2>5, <2>6, <2>7
<1> QED BY <1>10, <1>11

-----------------------------------------------------------------------------
\* Nothing but its value is read of a leaf at a path of no meaning.
LEMMA PlainLeaf ==
    ASSUME NEW text, NEW keys
    PROVE  CheckPublishedConfig({Leaf(<<"x">>, text)}, keys) = CheckLeafValue(text, keys)
<1> DEFINE leaf == Leaf(<<"x">>, text)
<1>1. leaf.on = FALSE /\ leaf.path = <<"x">> /\ leaf.text = text
    BY DEF Leaf
<1>2. leaf.path # UpstreamUrl
    <2>1. Len(<<"x">>) = 1 /\ Len(UpstreamUrl) = 5
        BY DEF UpstreamUrl
    <2> QED BY <1>1, <2>1
<1> HIDE DEF leaf
<1>3. CheckSsrf({leaf}) = {}
    BY <1>1, <1>2, Zenon DEF CheckSsrf, CollectPrivateBackends
<1>4. UNION {CheckLeafValue(l.text, keys) : l \in {leaf}} = CheckLeafValue(text, keys)
    BY <1>1
<1>5. CheckPublishedConfig({leaf}, keys) = CheckLeafValue(text, keys)
    BY <1>3, <1>4 DEF CheckPublishedConfig
<1> QED BY <1>5 DEF leaf

\* A value is refused exactly when a reader finds something to refuse in it.
THEOREM ValuesAreFaithful ==
    ASSUME NEW text \in Seq(Symbols), NEW keys \in SUBSET Secrets
    PROVE  ValueFaithful(text, keys)
<1> SUFFICES ASSUME ~ CredsNest(text)
             PROVE  Faithful({Leaf(<<"x">>, text)}, Said(text), keys)
    BY DEF ValueFaithful
<1> DEFINE env == TokensFrom(text, ENV_OPENER) # {}
           secret == \E snippet \in TokensFrom(text, SECRET_OPENER) :
                         ~ (is_secret_key(NameIn(snippet)) /\ NameIn(snippet) \in keys)
           cred == \E inner \in CredTokenInners(text) : ~ IsWellFormedCred(inner)
           uri == \E scheme \in HOST_SECRET_SCHEMES : SchemeBoundaryMatches(text, scheme) # {}
<1>1. CheckLeafValue(text, keys) = {} <=> ~ env /\ ~ secret /\ ~ cred /\ ~ uri
    <2>1. CheckLeafValue(text, keys) =
              {kind \in {"host_env_interpolation"} : env}
              \cup {kind \in {"unregistered_secret"} : secret}
              \cup {kind \in {"malformed_cred_token"} : cred}
              \cup {kind \in {"host_secret_uri"} : uri}
        BY Zenon DEF CheckLeafValue
    <2> HIDE DEF env, secret, cred, uri
    <2> QED BY <2>1
<1>2. env <=> Inners(text, ENV_OPENER) # {}
    BY EnvsAreRead
<1>3. secret <=> ~ (Inners(text, SECRET_OPENER) \subseteq keys)
    BY SecretsAreRead
<1>4. cred <=> \E inner \in Inners(text, CRED_OPENER) : ~ Credential(inner)
    <2>1. ASSUME NEW inner \in Inners(text, CRED_OPENER) PROVE inner \in Seq(Symbols)
        <3>1. PICK i \in 1..Len(text), j \in 1..Len(text) :
                  Closes(text, CRED_OPENER, i, j) /\ inner = SubSeq(text, i + 1, j - 1)
            BY InnersAre
        <3>2. i < j
            BY <3>1 DEF Closes
        <3> QED BY <3>1, <3>2, Parts
    <2> QED BY <2>1, CredsAreTokens, CredsAreSplit
<1>5. uri <=> \E i \in DOMAIN text :
                  /\ text[i] \in HOST_SECRET_SCHEMES
                  /\ i = 1 \/ text[i - 1] \notin IdentifierEnds
    <2>1. \A i \in DOMAIN text : i > 1 <=> i # 1
        OBVIOUS
    <2> QED BY <2>1 DEF SchemeBoundaryMatches
<1>6. Published(Said(text), keys) <=> ~ env /\ ~ secret /\ ~ cred /\ ~ uri
    <2>1. /\ Said(text).reads = HostReads(text)
          /\ Said(text).secrets = Inners(text, SECRET_OPENER)
          /\ Said(text).refused = {}
        BY DEF Said
    <2> DEFINE badCred == \E inner \in Inners(text, CRED_OPENER) : ~ Credential(inner)
               hostUri == \E i \in DOMAIN text :
                              /\ text[i] \in HOST_SECRET_SCHEMES
                              /\ i = 1 \/ text[i - 1] \notin IdentifierEnds
    <2>2. HostReads(text) = {} <=> Inners(text, ENV_OPENER) = {} /\ ~ badCred /\ ~ hostUri
        <3>1. HostReads(text) = {read \in {"env"} : Inners(text, ENV_OPENER) # {}}
                  \cup {read \in {"bad_cred"} : badCred} \cup {read \in {"host_uri"} : hostUri}
            BY Zenon DEF HostReads
        <3> HIDE DEF badCred, hostUri
        <3> QED BY <3>1
    <2>3. Inners(text, SECRET_OPENER) \subseteq keys \cap Secrets
              <=> Inners(text, SECRET_OPENER) \subseteq keys
        OBVIOUS
    <2>4. Published(Said(text), keys) <=>
              /\ HostReads(text) = {}
              /\ Inners(text, SECRET_OPENER) \subseteq keys \cap Secrets
        BY <2>1, Zenon DEF Published
    <2> HIDE DEF env, secret, cred, uri, badCred, hostUri
    <2>5. (cred <=> badCred) /\ (uri <=> hostUri)
        BY <1>4, <1>5 DEF badCred, hostUri
    <2> QED BY <1>2, <1>3, <2>2, <2>3, <2>4, <2>5
<1> HIDE DEF env, secret, cred, uri
<1> QED BY <1>1, <1>6, PlainLeaf DEF Faithful

\* Whatever values a config holds and keys are registered, the guard reads
\* them faithfully.
THEOREM ValuesAreAlwaysRead == Spec => []ValuesAreRead
<1>1. TypeOK => ValuesAreRead
    <2> SUFFICES ASSUME TypeOK PROVE ValuesAreRead
        OBVIOUS
    <2>1. registered \in SUBSET Secrets
        BY DEF TypeOK
    <2>2. \A text \in Texts : ValueFaithful(text, registered)
        BY <2>1, NamesAreTexts, ValuesAreFaithful
    <2> QED BY <2>1, <2>2 DEF ValuesAreRead, ValueDecisions
<1> QED BY <1>1, TypeCorrect, PTL

-----------------------------------------------------------------------------
(***************************************************************************)
(* The host of a URL, and what a document of one leaf is refused for.      *)
(***************************************************************************)
\* A set of numbers up to a bound has a greatest one.
LEMMA GreatestOf ==
    ASSUME NEW n \in Nat, NEW S, S \subseteq 1..n, S # {}
    PROVE  Max(S) \in S /\ \A y \in S : y <= Max(S)
<1> DEFINE D == {n - y : y \in S}
<1>1. D \subseteq Nat /\ D # {}
    <2>1. \A y \in S : n - y \in Nat
        OBVIOUS
    <2>2. PICK y \in S : TRUE
        OBVIOUS
    <2>3. n - y \in D
        OBVIOUS
    <2> QED BY <2>1, <2>3
<1>2. Min(D) \in D /\ \A d \in D : Min(D) <= d
    <2> HIDE DEF D
    <2> QED BY <1>1, LeastOf
<1>3. PICK x \in S : Min(D) = n - x
    BY <1>2
<1>4. \A y \in S : n - x <= n - y
    BY <1>2, <1>3
<1>5. \A y \in S : x >= y
    BY <1>4
<1> QED BY <1>5 DEF Max

\* rfind gives the last place there is.
LEMMA RFindIsLast ==
    ASSUME NEW t \in Seq(Symbols), NEW c
    PROVE  /\ RFind(t, c) = 0 => \A k \in 1..Len(t) : t[k] # c
           /\ RFind(t, c) # 0 =>
                  /\ RFind(t, c) \in 1..Len(t) /\ t[RFind(t, c)] = c
                  /\ \A k \in RFind(t, c) + 1..Len(t) : t[k] # c
<1> DEFINE at == {k \in 1..Len(t) : t[k] = c}
<1>1. RFind(t, c) = IF at # {} THEN Max(at) ELSE 0
    BY DEF RFind, SelectLastInSeq
<1>2. Len(t) \in Nat
    OBVIOUS
<1>3. CASE at = {}
    BY <1>1, <1>3
<1>4. CASE at # {}
    <2>1. Max(at) \in at /\ \A y \in at : y <= Max(at)
        <3>1. at \subseteq 1..Len(t)
            OBVIOUS
        <3> HIDE DEF at
        <3> QED BY <1>2, <1>4, <3>1, GreatestOf
    <2> DEFINE m == Max(at)
    <2> HIDE DEF m
    <2>2. m \in at /\ \A y \in at : y <= m
        BY <2>1 DEF m
    <2>3. m \in 1..Len(t) /\ t[m] = c /\ \A k \in m + 1..Len(t) : t[k] # c
        BY <1>2, <2>2
    <2>4. RFind(t, c) = m
        BY <1>1, <1>4 DEF m
    <2> QED BY <2>3, <2>4
<1> QED BY <1>3, <1>4

LEMMA TwoTexts ==
    ASSUME NEW S, NEW a \in Seq(S), NEW b \in Seq(S)
    PROVE  /\ a \o b \in Seq(S) /\ Len(a \o b) = Len(a) + Len(b)
           /\ \A k \in 1..Len(a) : (a \o b)[k] = a[k]
           /\ \A k \in 1..Len(b) : (a \o b)[Len(a) + k] = b[k]
           /\ SubSeq(a \o b, 1, Len(a)) = a
           /\ SubSeq(a \o b, Len(a) + 1, Len(a \o b)) = b
<1> DEFINE t == a \o b
<1>0. Len(a) \in Nat /\ Len(b) \in Nat
    OBVIOUS
<1>1. t \in Seq(S) /\ Len(t) = Len(a) + Len(b)
    OBVIOUS
<1>2. \A k \in 1..Len(a) : t[k] = a[k]
    OBVIOUS
<1>3. \A k \in 1..Len(b) : t[Len(a) + k] = b[k]
    OBVIOUS
<1> HIDE DEF t
<1>4. SubSeq(t, 1, Len(a)) = a
    <2> DEFINE p == SubSeq(t, 1, Len(a))
    <2>1. p = [k \in 1..Len(a) |-> t[k]]
        BY <1>0, <1>1
    <2>2. a = [k \in 1..Len(a) |-> a[k]]
        OBVIOUS
    <2> QED BY <1>2, <2>1, <2>2
<1>5. SubSeq(t, Len(a) + 1, Len(t)) = b
    <2> DEFINE p == SubSeq(t, Len(a) + 1, Len(t))
    <2>1. p \in Seq(S) /\ Len(p) = Len(b) /\ \A k \in 1..Len(b) : p[k] = t[Len(a) + k]
        BY <1>0, <1>1
    <2> HIDE DEF p
    <2>2. p = [k \in 1..Len(b) |-> p[k]]
        BY <2>1
    <2>3. b = [k \in 1..Len(b) |-> b[k]]
        OBVIOUS
    <2> QED BY <1>3, <2>1, <2>2, <2>3 DEF p
<1> QED BY <1>1, <1>2, <1>3, <1>4, <1>5 DEF t

LEMMA NeitherHas ==
    ASSUME NEW a \in Seq(Symbols), NEW b \in Seq(Symbols), NEW S,
           ~ Has(a, S), ~ Has(b, S)
    PROVE  ~ Has(a \o b, S)
<1> DEFINE t == a \o b
<1>1. t \in Seq(Symbols)
    OBVIOUS
<1>2. /\ Len(t) = Len(a) + Len(b)
      /\ \A k \in 1..Len(a) : t[k] = a[k]
      /\ \A k \in 1..Len(b) : t[Len(a) + k] = b[k]
    BY TwoTexts
<1>3. Len(a) \in Nat /\ Len(b) \in Nat
    OBVIOUS
<1>4. (\A k \in 1..Len(a) : a[k] \notin S) /\ \A k \in 1..Len(b) : b[k] \notin S
    BY DEF Has
<1> HIDE DEF t
<1>5. DOMAIN t = 1..Len(a) + Len(b)
    BY <1>1, <1>2
<1>6. ASSUME NEW k \in DOMAIN t PROVE t[k] \notin S
    <2>1. CASE k <= Len(a)
        <3>1. k \in 1..Len(a)
            BY <1>3, <1>5, <2>1
        <3> QED BY <1>2, <1>4, <3>1
    <2>2. CASE ~ (k <= Len(a))
        <3>1. k - Len(a) \in 1..Len(b) /\ Len(a) + (k - Len(a)) = k
            BY <1>3, <1>5, <2>2
        <3> QED BY <1>2, <1>4, <3>1
    <2> QED BY <2>1, <2>2
<1> QED BY <1>6 DEF Has, t

\* What stands before the first of some marks.
LEMMA CutBefore ==
    ASSUME NEW a \in Seq(Symbols), NEW b \in Seq(Symbols), NEW S,
           ~ Has(a, S), b # <<>> => Head(b) \in S
    PROVE  Before(a \o b, Find(a \o b, 1, S)) = a
<1> DEFINE t == a \o b
           i == Find(t, 1, S)
<1>0. Len(a) \in Nat /\ Len(b) \in Nat
    OBVIOUS
<1>1. /\ t \in Seq(Symbols) /\ Len(t) = Len(a) + Len(b)
      /\ \A k \in 1..Len(a) : t[k] = a[k]
      /\ \A k \in 1..Len(b) : t[Len(a) + k] = b[k]
      /\ SubSeq(t, 1, Len(a)) = a
    BY TwoTexts
<1>2. \A k \in 1..Len(a) : t[k] \notin S
    BY <1>1 DEF Has
<1>3. b = <<>> => t = a
    OBVIOUS
<1>4. b # <<>> => Len(b) >= 1 /\ t[Len(a) + 1] \in S
    <2> SUFFICES ASSUME b # <<>> PROVE Len(b) >= 1 /\ t[Len(a) + 1] \in S
        OBVIOUS
    <2>1. Len(b) >= 1 /\ Head(b) = b[1]
        OBVIOUS
    <2> QED BY <1>0, <1>1, <2>1
<1>5. b = <<>> => Len(b) = 0
    OBVIOUS
<1> HIDE DEF t
<1>6. /\ i = 0 => \A k \in 1..Len(t) : t[k] \notin S
      /\ i # 0 => i \in 1..Len(t) /\ t[i] \in S /\ \A k \in 1..(i - 1) : t[k] \notin S
    <2>1. t \in Seq(Symbols) /\ 1 \in Nat \ {0}
        BY <1>1
    <2> QED BY <2>1, FindIsFirst
<1> HIDE DEF i
<1>7. CASE b = <<>>
    <2>1. i = 0
        BY <1>0, <1>1, <1>2, <1>5, <1>6, <1>7
    <2> QED BY <1>3, <1>7, <2>1 DEF Before, t, i
<1>8. CASE b # <<>>
    <2>1. i = Len(a) + 1
        BY <1>0, <1>1, <1>2, <1>4, <1>6, <1>8
    <2>2. i # 0 /\ i - 1 = Len(a)
        BY <1>0, <2>1
    <2>3. Before(t, i) = a
        BY <1>1, <2>2 DEF Before
    <2> QED BY <2>3 DEF t, i
<1> QED BY <1>7, <1>8

\* What stands behind the last of a mark, or up to it.
LEMMA CutBehind ==
    ASSUME NEW a \in Seq(Symbols), NEW b \in Seq(Symbols), NEW c,
           a # <<>> => Last(a) = c, ~ Has(b, {c})
    PROVE  RFind(a \o b, c) = Len(a)
<1> DEFINE t == a \o b
           i == RFind(t, c)
<1>0. Len(a) \in Nat /\ Len(b) \in Nat
    OBVIOUS
<1>1. /\ t \in Seq(Symbols) /\ Len(t) = Len(a) + Len(b)
      /\ \A k \in 1..Len(a) : t[k] = a[k]
      /\ \A k \in 1..Len(b) : t[Len(a) + k] = b[k]
    BY TwoTexts
<1>2. \A k \in 1..Len(b) : t[Len(a) + k] # c
    BY <1>1 DEF Has
<1>3. a # <<>> => Len(a) >= 1 /\ t[Len(a)] = c
    <2> SUFFICES ASSUME a # <<>> PROVE Len(a) >= 1 /\ t[Len(a)] = c
        OBVIOUS
    <2>1. Len(a) >= 1 /\ a[Len(a)] = c
        BY DEF Last
    <2> QED BY <1>0, <1>1, <2>1
<1>4. a = <<>> => Len(a) = 0
    OBVIOUS
<1> HIDE DEF t
<1>5. \A k \in Len(a) + 1..Len(t) : t[k] # c
    <2> SUFFICES ASSUME NEW k \in Len(a) + 1..Len(t) PROVE t[k] # c
        OBVIOUS
    <2>1. k - Len(a) \in 1..Len(b) /\ Len(a) + (k - Len(a)) = k
        BY <1>0, <1>1
    <2> QED BY <1>2, <2>1
<1>6. /\ i = 0 => \A k \in 1..Len(t) : t[k] # c
      /\ i # 0 => i \in 1..Len(t) /\ t[i] = c /\ \A k \in i + 1..Len(t) : t[k] # c
    BY <1>1, RFindIsLast
<1> HIDE DEF i
<1>7. i = Len(a)
    BY <1>0, <1>1, <1>3, <1>4, <1>5, <1>6
<1> QED BY <1>7 DEF i, t

LEMMA CutPort ==
    ASSUME NEW a \in Seq(Symbols), NEW b \in Seq(Symbols), NEW c, ~ Has(a, {c}),
           b # <<>> => Head(b) = c /\ ~ Has(Tail(b), {c})
    PROVE  Before(a \o b, RFind(a \o b, c)) = a
<1> DEFINE t == a \o b
           i == RFind(t, c)
<1>0. Len(a) \in Nat /\ Len(b) \in Nat
    OBVIOUS
<1>1. /\ t \in Seq(Symbols) /\ Len(t) = Len(a) + Len(b)
      /\ \A k \in 1..Len(a) : t[k] = a[k]
      /\ \A k \in 1..Len(b) : t[Len(a) + k] = b[k]
      /\ SubSeq(t, 1, Len(a)) = a
    BY TwoTexts
<1>2. \A k \in 1..Len(a) : t[k] # c
    BY <1>1 DEF Has
<1>3. b = <<>> => t = a /\ Len(b) = 0
    OBVIOUS
<1>4. b # <<>> => Len(b) >= 1 /\ b[1] = c /\ \A k \in 2..Len(b) : b[k] # c
    <2> SUFFICES ASSUME b # <<>>
                 PROVE  Len(b) >= 1 /\ b[1] = c /\ \A k \in 2..Len(b) : b[k] # c
        OBVIOUS
    <2>1. Len(b) >= 1 /\ Head(b) = b[1] /\ Len(Tail(b)) = Len(b) - 1
          /\ \A k \in 1..(Len(b) - 1) : Tail(b)[k] = b[k + 1]
        OBVIOUS
    <2>2. \A k \in 1..(Len(b) - 1) : b[k + 1] # c
        <3>1. Tail(b) \in Seq(Symbols)
            OBVIOUS
        <3>2. DOMAIN Tail(b) = 1..(Len(b) - 1)
            BY <2>1, <3>1
        <3> QED BY <2>1, <3>2 DEF Has
    <2>3. ASSUME NEW k \in 2..Len(b) PROVE b[k] # c
        <3>1. k - 1 \in 1..(Len(b) - 1) /\ (k - 1) + 1 = k
            BY <1>0
        <3> QED BY <2>2, <3>1
    <2> QED BY <2>1, <2>3
<1> HIDE DEF t
<1>5. /\ i = 0 => \A k \in 1..Len(t) : t[k] # c
      /\ i # 0 => i \in 1..Len(t) /\ t[i] = c /\ \A k \in i + 1..Len(t) : t[k] # c
    BY <1>1, RFindIsLast
<1> HIDE DEF i
<1>6. CASE b = <<>>
    <2>1. i = 0
        BY <1>0, <1>1, <1>2, <1>3, <1>5, <1>6
    <2> QED BY <1>3, <1>6, <2>1 DEF Before, t, i
<1>7. CASE b # <<>>
    <2>1. t[Len(a) + 1] = c /\ Len(a) + 1 \in 1..Len(t)
        BY <1>0, <1>1, <1>4, <1>7
    <2>2. ASSUME NEW k \in Len(a) + 2..Len(t) PROVE t[k] # c
        <3> DEFINE j == k - Len(a)
        <3>1. j \in 2..Len(b) /\ j \in 1..Len(b) /\ Len(a) + j = k
            BY <1>0, <1>1
        <3> HIDE DEF j
        <3>2. b[j] # c
            BY <1>4, <1>7, <3>1
        <3>3. t[Len(a) + j] = b[j]
            BY <1>1, <3>1
        <3> QED BY <3>1, <3>2, <3>3
    <2>3. i = Len(a) + 1
        BY <1>0, <1>1, <1>5, <2>1, <2>2
    <2>4. i # 0 /\ i - 1 = Len(a)
        BY <1>0, <2>3
    <2>5. Before(t, i) = a
        BY <1>1, <2>4 DEF Before
    <2> QED BY <2>5 DEF t, i
<1> QED BY <1>6, <1>7

\* Whatever stands around it, the guard takes the host of a URL for its host.
THEOREM HostsAreFound ==
    ASSUME NEW url, IsUrl(url)
    PROVE  GatedUpstreamHost(UrlText(url)) =
               IF url.scheme \in GatedSchemes THEN Unbracketed(url.host) ELSE <<>>
<1> DEFINE text == UrlText(url)
           hostPort == url.host \o url.port
           authority == url.user \o hostPort
           rest == authority \o url.tail
           head == <<url.scheme, SchemeEnd>>
<1>head. head \in Seq(Symbols)
    BY DEF IsUrl
<1>user. url.user \in Seq(Symbols)
    BY DEF IsUrl
<1>host. url.host \in Seq(Symbols)
    BY DEF IsUrl
<1>port. url.port \in Seq(Symbols)
    BY DEF IsUrl
<1>tail. url.tail \in Seq(Symbols)
    BY DEF IsUrl
<1>2. hostPort \in Seq(Symbols)
    BY <1>host, <1>port
<1>3. authority \in Seq(Symbols)
    BY <1>user, <1>2
<1>4. rest \in Seq(Symbols)
    BY <1>tail, <1>3
<1>5. text = head \o rest
    BY DEF UrlText
<1>6. url.scheme # SchemeEnd
    <2>1. SchemeEnd \notin GatedSchemes \cup {"tunnel"}
        BY Zenon DEF SchemeEnd, GatedSchemes
    <2> QED BY <2>1 DEF IsUrl
<1>7. Len(head) = 2 /\ head[1] = url.scheme /\ head[2] = SchemeEnd
    OBVIOUS
<1> HIDE DEF text, rest, authority, hostPort, head
\* The scheme.
<1>8. text \in Seq(Symbols) /\ text[1] = url.scheme /\ text[2] = SchemeEnd /\ 2 <= Len(text)
    <2>1. \A k \in 1..Len(head) : (head \o rest)[k] = head[k]
        BY <1>4, <1>head, TwoTexts
    <2>2. Len(head \o rest) = Len(head) + Len(rest) /\ Len(rest) \in Nat
        BY <1>4, <1>head, TwoTexts
    <2>3. head \o rest \in Seq(Symbols)
        BY <1>4, <1>head
    <2> QED BY <1>5, <1>7, <2>1, <2>2, <2>3
<1>9. Find(text, 1, {SchemeEnd}) = 2
    <2> DEFINE i == Find(text, 1, {SchemeEnd})
    <2>1. 1 \in Nat \ {0} /\ Len(text) \in Nat
        BY <1>8
    <2>2. /\ i = 0 => \A k \in 1..Len(text) : text[k] \notin {SchemeEnd}
          /\ i # 0 => /\ i \in 1..Len(text) /\ text[i] \in {SchemeEnd}
                      /\ \A k \in 1..(i - 1) : text[k] \notin {SchemeEnd}
        BY <1>8, <2>1, FindIsFirst
    <2> HIDE DEF i
    <2>3. i # 0 /\ i # 1
        BY <1>6, <1>8, <2>1, <2>2
    <2>4. i <= 2
        BY <1>8, <2>1, <2>2, <2>3
    <2>5. i = 2
        BY <2>1, <2>2, <2>3, <2>4
    <2> QED BY <2>5 DEF i
<1>10. SubSeq(text, 3, Len(text)) = rest
    <2>1. SubSeq(head \o rest, Len(head) + 1, Len(head \o rest)) = rest
        BY <1>4, <1>head, TwoTexts
    <2>2. Len(head) + 1 = 3
        BY <1>7
    <2> QED BY <1>5, <2>1, <2>2
\* The authority.
<1>11. ~ Has(hostPort, AuthorityEnds) /\ ~ Has(hostPort, {At})
    BY DEF IsUrl, Has, hostPort
<1>12. ~ Has(authority, AuthorityEnds)
    <2>1. ~ Has(url.user, AuthorityEnds)
        BY DEF IsUrl, Has
    <2> QED BY <1>user, <1>2, <1>11, <2>1, NeitherHas DEF authority
<1>13. Before(rest, Find(rest, 1, AuthorityEnds)) = authority
    <2>1. url.tail # <<>> => Head(url.tail) \in AuthorityEnds
        BY DEF IsUrl
    <2> QED BY <1>tail, <1>3, <1>12, <2>1, CutBefore DEF rest
\* The host and the port.
<1>14. AfterUserinfo(authority) = hostPort
    <2>1. url.user # <<>> => Last(url.user) = At
        BY DEF IsUrl
    <2>2. RFind(authority, At) = Len(url.user)
        BY <1>user, <1>2, <1>11, <2>1, CutBehind DEF authority
    <2> DEFINE user == url.user
    <2>3. user \in Seq(Symbols)
        BY <1>user
    <2> HIDE DEF user
    <2>4. SubSeq(user \o hostPort, Len(user) + 1, Len(user \o hostPort)) = hostPort
        BY <1>2, <2>3, TwoTexts
    <2> QED BY <2>2, <2>4 DEF AfterUserinfo, authority, user
<1> DEFINE close == RFind(hostPort, CloseBracket)
           host == IF close # 0 THEN SubSeq(hostPort, 1, close)
                   ELSE Before(hostPort, RFind(hostPort, Colon))
<1>15. host = url.host
    <2>1. ~ Has(url.port, {CloseBracket})
        BY DEF IsUrl
    <2>2. CASE url.host # <<>> /\ Last(url.host) = CloseBracket
        <3>1. close = Len(url.host)
            BY <1>host, <1>port, <2>1, <2>2, CutBehind DEF hostPort
        <3>2. Len(url.host) # 0
            BY <1>host, <2>2
        <3>3. SubSeq(hostPort, 1, Len(url.host)) = url.host
            BY <1>host, <1>port, TwoTexts DEF hostPort
        <3> QED BY <3>1, <3>2, <3>3
    <2>3. CASE ~ Has(url.host, {Colon, CloseBracket})
        <3>1. ~ Has(url.host, {Colon}) /\ ~ Has(url.host, {CloseBracket})
            BY <2>3 DEF Has
        <3>2. close = 0
            <4>1. ~ Has(hostPort, {CloseBracket})
                BY <1>host, <1>port, <2>1, <3>1, NeitherHas DEF hostPort
            <4>2. DOMAIN hostPort = 1..Len(hostPort)
                BY <1>2
            <4> QED BY <1>2, <4>1, <4>2, RFindIsLast DEF Has
        <3>3. url.port # <<>> => Head(url.port) = Colon /\ ~ Has(Tail(url.port), {Colon})
            BY DEF IsUrl
        <3>4. Before(hostPort, RFind(hostPort, Colon)) = url.host
            BY <1>host, <1>port, <3>1, <3>3, CutPort DEF hostPort
        <3> QED BY <3>2, <3>4
    <2> QED BY <2>2, <2>3 DEF IsUrl
<1>16. GatedUpstreamHost(text) =
           IF text[1] \in GatedSchemes THEN Unbracketed(host) ELSE <<>>
    <2> DEFINE i == Find(text, 1, {SchemeEnd})
               r == SubSeq(text, i + 1, Len(text))
               a == Before(r, Find(r, 1, AuthorityEnds))
               hp == AfterUserinfo(a)
    <2>1. r = rest
        <3>1. i + 1 = 3
            BY <1>9
        <3> HIDE DEF i
        <3> QED BY <1>10, <3>1
    <2>2. a = authority
        BY <1>13, <2>1
    <2>3. hp = hostPort
        BY <1>14, <2>2
    <2>4. GatedUpstreamHost(text) =
              IF i = 2 /\ text[1] \in GatedSchemes
              THEN Unbracketed(IF RFind(hp, CloseBracket) # 0
                               THEN SubSeq(hp, 1, RFind(hp, CloseBracket))
                               ELSE Before(hp, RFind(hp, Colon)))
              ELSE <<>>
        BY Zenon DEF GatedUpstreamHost
    <2> HIDE DEF hp
    <2> QED BY <1>9, <2>3, <2>4
<1> QED BY <1>8, <1>15, <1>16 DEF text

-----------------------------------------------------------------------------
\* A text without openers and schemes says nothing.
LEMMA PlainTexts ==
    ASSUME NEW text \in Seq(Symbols), NEW keys \in SUBSET Secrets,
           ~ Has(text, {ENV_OPENER, SECRET_OPENER, CRED_OPENER} \cup HOST_SECRET_SCHEMES)
    PROVE  CheckLeafValue(text, keys) = {}
<1>1. DOMAIN text = 1..Len(text)
    OBVIOUS
<1>2. ASSUME NEW opener \in {ENV_OPENER, SECRET_OPENER, CRED_OPENER}
      PROVE  Inners(text, opener) = {}
    <2>1. SUFFICES ASSUME NEW x \in Inners(text, opener) PROVE FALSE
        OBVIOUS
    <2>2. PICK i \in 1..Len(text), j \in 1..Len(text) : Closes(text, opener, i, j)
        BY InnersAre
    <2> QED BY <1>1, <2>2 DEF Closes, Has
<1>3. \A i \in DOMAIN text : text[i] \notin HOST_SECRET_SCHEMES
    BY DEF Has
<1>4. ~ CredsNest(text)
    BY <1>2 DEF CredsNest
<1>5. Published(Said(text), keys)
    <2>1. HostReads(text) = {}
        BY <1>2, <1>3, Zenon DEF HostReads
    <2> QED BY <1>2, <2>1 DEF Published, Said
<1> QED BY <1>4, <1>5, ValuesAreFaithful, PlainLeaf DEF ValueFaithful, Faithful

LEMMA OneLeaf ==
    ASSUME NEW x, NEW keys, CheckLeafValue(x.text, keys) = {}
    PROVE  CheckPublishedConfig({x}, keys) = CheckSsrf({x})
<1>1. \A k : k \in CheckPublishedConfig({x}, keys) <=> k \in CheckSsrf({x})
    <2> SUFFICES ASSUME NEW k
                 PROVE  k \in CheckPublishedConfig({x}, keys) <=> k \in CheckSsrf({x})
        OBVIOUS
    <2> DEFINE Told(v) == CheckLeafValue(v, keys)
    <2>1. \A leaf \in {x} : Told(leaf.text) = {}
        OBVIOUS
    <2> HIDE DEF Told
    <2>2. k \notin UNION {Told(leaf.text) : leaf \in {x}}
        BY <2>1
    <2> QED BY <2>2 DEF CheckPublishedConfig, Told
<1> QED BY <1>1

\* An upstream is refused exactly when its host is inside.
LEMMA UpstreamsAreFaithful ==
    ASSUME NEW url \in Urls, NEW keys \in SUBSET Secrets
    PROVE  UpstreamFaithful(url, keys)
<1> DEFINE text == UrlText(url)
           leaf == Leaf(UpstreamUrl, text)
           private == url.scheme # "tunnel" /\ url.host \in Inside
<1>1. IsUrl(url) /\ (url.host \in Inside <=> IsPrivateOrLocalHost(Unbracketed(url.host)))
    BY HostsAreSorted
<1>2. text \in Seq(Symbols)
    <2>1. <<url.scheme, SchemeEnd>> \in Seq(Symbols)
        BY <1>1 DEF IsUrl
    <2>2. url.user \in Seq(Symbols)
        BY <1>1 DEF IsUrl
    <2>3. url.host \o url.port \in Seq(Symbols)
        <3>1. url.host \in Seq(Symbols)
            BY <1>1 DEF IsUrl
        <3>2. url.port \in Seq(Symbols)
            BY <1>1 DEF IsUrl
        <3> QED BY <3>1, <3>2
    <2>4. url.tail \in Seq(Symbols)
        BY <1>1 DEF IsUrl
    <2>5. (url.user \o (url.host \o url.port)) \o url.tail \in Seq(Symbols)
        BY <2>2, <2>3, <2>4
    <2> QED BY <2>1, <2>5 DEF UrlText
<1>3. CheckLeafValue(text, keys) = {}
    BY <1>1, <1>2, PlainTexts DEF IsUrl
<1>4. GatedUpstreamHost(text) =
          IF url.scheme \in GatedSchemes THEN Unbracketed(url.host) ELSE <<>>
    BY <1>1, HostsAreFound
<1>5. url.scheme \in GatedSchemes <=> url.scheme # "tunnel"
    BY <1>1, Zenon DEF IsUrl, GatedSchemes
<1>6. leaf.path = UpstreamUrl /\ leaf.text = text /\ leaf.on = FALSE
    BY DEF Leaf
<1> HIDE DEF text, leaf
<1>7. CheckSsrf({leaf}) = {} <=> ~ private
    <2>1. CheckSsrf({leaf}) =
              {kind \in {"private_federation_upstream"} :
                  GatedUpstreamHost(text) # <<>> /\ IsPrivateOrLocalHost(GatedUpstreamHost(text))}
        BY <1>6, Zenon DEF CheckSsrf, CollectPrivateBackends
    <2>2. Unbracketed(url.host) # <<>>
        BY <1>1 DEF IsUrl
    <2> QED BY <1>1, <1>4, <1>5, <2>1, <2>2
<1>8. CheckPublishedConfig({leaf}, keys) = CheckSsrf({leaf})
    BY <1>3, <1>6, OneLeaf
<1>9. Published(Refusing({r \in {"private_upstream"} : private}), keys) <=> ~ private
    BY DEF Published, Refusing
<1> QED BY <1>7, <1>8, <1>9 DEF UpstreamFaithful, Faithful, leaf, text

LEMMA FlagsAreFaithful ==
    ASSUME NEW path \in Paths, NEW on \in BOOLEAN, NEW keys \in SUBSET Secrets
    PROVE  FlagFaithful(path, on, keys)
<1> DEFINE leaf == Flag(path, on)
           set == on /\ Last(path) = PRIVATE_BACKENDS_KEY
<1>1. leaf.path = path /\ leaf.text = <<>> /\ leaf.on = on
    BY DEF Flag
<1>2. CheckLeafValue(<<>>, keys) = {}
    <2>1. <<>> \in Seq(Symbols) /\ DOMAIN <<>> = {}
        OBVIOUS
    <2> QED BY <2>1, PlainTexts DEF Has
<1>3. GatedUpstreamHost(<<>>) = <<>>
    <2>1. Find(<<>>, 1, {SchemeEnd}) = 0
        BY DEF Find
    <2> QED BY <2>1 DEF GatedUpstreamHost
<1> HIDE DEF leaf
<1>4. CheckSsrf({leaf}) = {} <=> ~ set
    <2>1. CollectPrivateBackends({leaf}) = {} <=> ~ set
        BY <1>1, PathsAreSearched DEF CollectPrivateBackends
    <2>2. CheckSsrf({leaf}) =
              {kind \in {"private_backends_enabled"} : CollectPrivateBackends({leaf}) # {}}
        BY <1>1, <1>3, Zenon DEF CheckSsrf
    <2> QED BY <2>1, <2>2
<1>5. CheckPublishedConfig({leaf}, keys) = CheckSsrf({leaf})
    BY <1>1, <1>2, OneLeaf
<1>6. Published(Refusing({r \in {"private_backends"} : set}), keys) <=> ~ set
    BY DEF Published, Refusing
<1> QED BY <1>4, <1>5, <1>6 DEF FlagFaithful, Faithful, leaf

\* Whatever upstreams and flags a config holds, the guard reads them faithfully.
THEOREM ReachIsAlwaysRead == Spec => []ReachIsRead
<1>1. TypeOK => ReachIsRead
    <2> SUFFICES ASSUME TypeOK PROVE ReachIsRead
        OBVIOUS
    <2>1. registered \in SUBSET Secrets
        BY DEF TypeOK
    <2>2. /\ \A url \in Urls : UpstreamFaithful(url, registered)
          /\ \A path \in Paths, on \in BOOLEAN : FlagFaithful(path, on, registered)
        BY <2>1, UpstreamsAreFaithful, FlagsAreFaithful
    <2> QED BY <2>1, <2>2 DEF ReachIsRead, ReachDecisions
<1> QED BY <1>1, TypeCorrect, PTL
=============================================================================
