-------------------------- MODULE ReleaseFleetProofs --------------------------
(***************************************************************************)
(* What ReleaseFleet satisfies for all versions, releases, registries and  *)
(* configs: release versions are totally ordered, upgrades keep every      *)
(* floor and are not refused, the layout assessment agrees with the load   *)
(* it stands for, and the registry is asked for what a reference means.    *)
(***************************************************************************)
EXTENDS PluginReferences, SequenceTheorems, WellFoundedInduction, TLAPS

LEMMA ElementsAreTyped ==
    ASSUME NEW T, NEW s \in Seq(T), NEW i \in 1..Len(s)
    PROVE  s[i] \in T
OBVIOUS

LEMMA IdLaws ==
    ASSUME NEW a \in Identifier, NEW b \in Identifier, NEW c \in Identifier
    PROVE  /\ IdBefore(a, b) \/ IdEqual(a, b) \/ IdBefore(b, a)
           /\ ~(IdEqual(a, b) /\ IdBefore(a, b))
           /\ IdBefore(a, b) /\ IdBefore(b, c) => IdBefore(a, c)
           /\ IdBefore(a, b) /\ IdEqual(b, c) => IdBefore(a, c)
           /\ IdEqual(a, b) /\ IdBefore(b, c) => IdBefore(a, c)
           /\ IdEqual(a, b) /\ IdEqual(b, c) => IdEqual(a, c)
           /\ IdEqual(a, b) => IdEqual(b, a)
BY DEF Identifier, IdBefore, IdEqual

-----------------------------------------------------------------------------
(***************************************************************************)
(* The order of versions.                                                  *)
(***************************************************************************)
LEMMA LeastNatural ==
    ASSUME NEW S \in SUBSET Nat, S # {}
    PROVE  \E x \in S : \A y \in S : x <= y
<1> DEFINE R == {ss \in Nat \X Nat : ss[1] < ss[2]}
<1>1. IsWellFoundedOn(R, Nat)
  BY NatLessThanWellFounded DEF OpToRel
<1>2. PICK x \in S : \A y \in S : <<y, x>> \notin R
  <2> HIDE DEF R
  <2> QED BY <1>1, WFMin
<1>3. \A y \in S : ~(y < x)
  BY <1>2
<1> QED BY <1>3

\* Two sequences of identifiers differ first at some index, or one is a
\* prefix of the other.
LEMMA FirstDifference ==
    ASSUME NEW p \in Seq(Identifier), NEW q \in Seq(Identifier)
    PROVE  \/ Agree(p, q, Len(p))
           \/ Agree(p, q, Len(q))
           \/ \E i \in 1..Len(p) :
                 i <= Len(q) /\ Agree(p, q, i - 1) /\ ~IdEqual(p[i], q[i])
<1> DEFINE D == {i \in 1..Len(p) : i <= Len(q) /\ ~IdEqual(p[i], q[i])}
<1>1. CASE D = {}
  <2>1. \A i \in 1..Len(p) : i <= Len(q) => IdEqual(p[i], q[i])
    BY <1>1
  <2> QED BY <2>1 DEF Agree
<1>2. CASE D # {}
  <2>1. D \in SUBSET Nat
    OBVIOUS
  <2>2. PICK i \in D : \A j \in D : i <= j
    BY <1>2, <2>1, LeastNatural
  <2>3. ASSUME NEW j \in 1..(i - 1)
        PROVE  IdEqual(p[j], q[j])
    <3>1. j \in 1..Len(p) /\ j <= Len(q) /\ ~(i <= j)
      OBVIOUS
    <3>2. j \notin D
      BY <2>2, <3>1
    <3> QED BY <3>1, <3>2
  <2>4. Agree(p, q, i - 1)
    BY <2>3 DEF Agree
  <2> QED BY <2>2, <2>4
<1> QED BY <1>1, <1>2

LEMMA PreTotal ==
    ASSUME NEW p \in Seq(Identifier), NEW q \in Seq(Identifier)
    PROVE  \/ PreBefore(p, q)
           \/ PreBefore(q, p)
           \/ Len(p) = Len(q) /\ Agree(p, q, Len(p))
<1>1. CASE p = <<>> \/ q = <<>>
  BY <1>1 DEF PreBefore, Agree
<1>2. CASE p # <<>> /\ q # <<>>
  <2>1. CASE Agree(p, q, Len(p))
    BY <1>2, <2>1 DEF PreBefore, Agree
  <2>2. CASE Agree(p, q, Len(q))
    <3>1. Agree(q, p, Len(q))
      BY <2>2 DEF Agree, IdEqual
    <3> QED BY <1>2, <2>2, <3>1 DEF PreBefore, Agree
  <2>3. ASSUME NEW i \in 1..Len(p), i <= Len(q), Agree(p, q, i - 1),
               ~IdEqual(p[i], q[i])
        PROVE  PreBefore(p, q) \/ PreBefore(q, p)
    <3>1. p[i] \in Identifier /\ q[i] \in Identifier
      BY <2>3, ElementsAreTyped
    <3>2. IdBefore(p[i], q[i]) \/ IdBefore(q[i], p[i])
      BY <2>3, <3>1, IdLaws
    <3>3. Agree(q, p, i - 1)
      BY <2>3 DEF Agree, IdEqual
    <3> QED BY <1>2, <2>3, <3>2, <3>3 DEF PreBefore
  <2> QED BY <2>1, <2>2, <2>3, FirstDifference
<1> QED BY <1>1, <1>2

LEMMA PreTransitive ==
    ASSUME NEW p \in Seq(Identifier), NEW q \in Seq(Identifier),
           NEW r \in Seq(Identifier), PreBefore(p, q), PreBefore(q, r)
    PROVE  PreBefore(p, r)
<1>1. p # <<>> /\ q # <<>>
  BY DEF PreBefore
<1> SUFFICES ASSUME r # <<>> PROVE PreBefore(p, r)
  BY <1>1 DEF PreBefore
<1> DEFINE First(a, b, i) ==
      i \in 1..Len(a) /\ i <= Len(b) /\ Agree(a, b, i - 1) /\ IdBefore(a[i], b[i])
<1> DEFINE Prefix(a, b) == Agree(a, b, Len(a)) /\ Len(a) < Len(b)
<1>2. Prefix(p, q) \/ \E i \in Nat : First(p, q, i)
  BY <1>1 DEF PreBefore
<1>3. Prefix(q, r) \/ \E i \in Nat : First(q, r, i)
  BY <1>1 DEF PreBefore
<1>4. Prefix(p, r) => PreBefore(p, r)
  BY <1>1 DEF PreBefore
<1>5. \A i \in Nat : First(p, r, i) => PreBefore(p, r)
  BY <1>1 DEF PreBefore
<1>6. ASSUME NEW n \in Int, Agree(p, q, n), Agree(q, r, n)
      PROVE  Agree(p, r, n)
  BY <1>6 DEF Agree, IdEqual
<1>7. ASSUME NEW n \in Int, NEW m \in Int, m <= n
      PROVE  /\ Agree(p, q, n) => Agree(p, q, m)
             /\ Agree(q, r, n) => Agree(q, r, m)
  BY <1>7 DEF Agree
<1>8. CASE Prefix(p, q) /\ Prefix(q, r)
  <2>1. Agree(p, r, Len(p))
    BY <1>6, <1>7, <1>8
  <2> QED BY <1>4, <1>8, <2>1
<1>9. ASSUME Prefix(p, q), NEW j \in Nat, First(q, r, j)
      PROVE  PreBefore(p, r)
  <2>1. CASE j > Len(p)
    <3>1. Agree(p, r, Len(p))
      BY <1>6, <1>7, <1>9, <2>1
    <3> QED BY <1>4, <1>9, <2>1, <3>1
  <2>2. CASE j <= Len(p)
    <3>1. Agree(p, r, j - 1)
      BY <1>6, <1>7, <1>9, <2>2
    <3>2. p[j] \in Identifier /\ q[j] \in Identifier /\ r[j] \in Identifier
      BY <1>9, <2>2, ElementsAreTyped
    <3>3. IdBefore(p[j], r[j])
      BY <1>9, <2>2, <3>2, IdLaws DEF Agree
    <3> QED BY <1>5, <1>9, <2>2, <3>1, <3>3
  <2> QED BY <1>9, <2>1, <2>2
<1>10. ASSUME NEW i \in Nat, First(p, q, i), Prefix(q, r)
       PROVE  PreBefore(p, r)
  <2>1. Agree(p, r, i - 1)
    BY <1>6, <1>7, <1>10
  <2>2. p[i] \in Identifier /\ q[i] \in Identifier /\ r[i] \in Identifier
    BY <1>10, ElementsAreTyped DEF Agree
  <2>3. IdBefore(p[i], r[i])
    BY <1>10, <2>2, IdLaws DEF Agree
  <2> QED BY <1>5, <1>10, <2>1, <2>3 DEF Agree
<1>11. ASSUME NEW i \in Nat, First(p, q, i), NEW j \in Nat, First(q, r, j)
       PROVE  PreBefore(p, r)
  <2>1. CASE i < j
    <3>1. Agree(p, r, i - 1)
      BY <1>6, <1>7, <1>11, <2>1
    <3>2. p[i] \in Identifier /\ q[i] \in Identifier /\ r[i] \in Identifier
      BY <1>11, <2>1, ElementsAreTyped
    <3>3. IdBefore(p[i], r[i])
      BY <1>11, <2>1, <3>2, IdLaws DEF Agree
    <3> QED BY <1>5, <1>11, <2>1, <3>1, <3>3
  <2>2. CASE i = j
    <3>1. Agree(p, r, i - 1)
      BY <1>6, <1>11, <2>2
    <3>2. p[i] \in Identifier /\ q[i] \in Identifier /\ r[i] \in Identifier
      BY <1>11, <2>2, ElementsAreTyped
    <3>3. IdBefore(p[i], r[i])
      BY <1>11, <2>2, <3>2, IdLaws
    <3> QED BY <1>5, <1>11, <2>2, <3>1, <3>3
  <2>3. CASE i > j
    <3>1. Agree(p, r, j - 1)
      BY <1>6, <1>7, <1>11, <2>3
    <3>2. p[j] \in Identifier /\ q[j] \in Identifier /\ r[j] \in Identifier
      BY <1>11, <2>3, ElementsAreTyped
    <3>3. IdBefore(p[j], r[j])
      BY <1>11, <2>3, <3>2, IdLaws DEF Agree
    <3> QED BY <1>5, <1>11, <2>3, <3>1, <3>3
  <2> QED BY <2>1, <2>2, <2>3
<1> QED BY <1>2, <1>3, <1>8, <1>9, <1>10, <1>11

LEMMA PreIrreflexive ==
    ASSUME NEW p \in Seq(Identifier), NEW q \in Seq(Identifier),
           Len(p) = Len(q), Agree(p, q, Len(p))
    PROVE  ~PreBefore(p, q)
<1>1. ASSUME NEW i \in 1..Len(p)
      PROVE  ~IdBefore(p[i], q[i])
  <2>1. p[i] \in Identifier /\ q[i] \in Identifier /\ IdEqual(p[i], q[i])
    BY ElementsAreTyped DEF Agree
  <2> QED BY <2>1, IdLaws
<1> QED BY <1>1 DEF PreBefore

-----------------------------------------------------------------------------
LEMMA CoreLaws ==
    ASSUME NEW a \in Nat \X Nat \X Nat, NEW b \in Nat \X Nat \X Nat,
           NEW c \in Nat \X Nat \X Nat
    PROVE  /\ CoreBefore(a, b) \/ a = b \/ CoreBefore(b, a)
           /\ ~(CoreBefore(a, b) /\ CoreBefore(b, a))
           /\ a = b => ~CoreBefore(a, b)
           /\ CoreBefore(a, b) /\ CoreBefore(b, c) => CoreBefore(a, c)
BY DEF CoreBefore

\* Of two versions one comes before the other or they are the same release.
LEMMA Trichotomy ==
    ASSUME NEW v \in Version, NEW w \in Version
    PROVE  /\ Before(v, w) \/ Same(v, w) \/ Before(w, v)
           /\ ~(Before(v, w) /\ Before(w, v))
           /\ Same(v, w) => ~Before(v, w) /\ ~Before(w, v)
<1>0. v.core \in Nat \X Nat \X Nat /\ w.core \in Nat \X Nat \X Nat
  BY DEF Version
<1>1. CoreBefore(v.core, w.core) \/ v.core = w.core \/ CoreBefore(w.core, v.core)
  BY <1>0, CoreLaws
<1>2. /\ ~(CoreBefore(v.core, w.core) /\ CoreBefore(w.core, v.core))
      /\ v.core = w.core => ~CoreBefore(v.core, w.core) /\ ~CoreBefore(w.core, v.core)
  BY <1>0, CoreLaws
<1>3. v.pre \in Seq(Identifier) /\ w.pre \in Seq(Identifier)
  BY DEF Version
<1>4. Len(v.pre) = Len(v.pre) /\ Agree(v.pre, v.pre, Len(v.pre))
  BY <1>3 DEF Agree, IdEqual
<1>5. ~(PreBefore(v.pre, w.pre) /\ PreBefore(w.pre, v.pre))
  BY <1>3, <1>4, PreTransitive, PreIrreflexive
<1>6. Same(v, w) => ~PreBefore(v.pre, w.pre) /\ ~PreBefore(w.pre, v.pre)
  <2> SUFFICES ASSUME Same(v, w)
               PROVE  ~PreBefore(v.pre, w.pre) /\ ~PreBefore(w.pre, v.pre)
    OBVIOUS
  <2>1. Agree(w.pre, v.pre, Len(w.pre))
    BY <1>3 DEF Same, Agree, IdEqual
  <2> QED BY <1>3, <2>1, PreIrreflexive DEF Same
<1>7. \/ PreBefore(v.pre, w.pre)
      \/ PreBefore(w.pre, v.pre)
      \/ Len(v.pre) = Len(w.pre) /\ Agree(v.pre, w.pre, Len(v.pre))
  BY <1>3, PreTotal
<1> QED BY <1>1, <1>2, <1>5, <1>6, <1>7 DEF Before, Same

LEMMA BeforeTransitive ==
    ASSUME NEW u \in Version, NEW v \in Version, NEW w \in Version,
           Before(u, v), Before(v, w)
    PROVE  Before(u, w)
<1>1. CoreBefore(u.core, v.core) /\ CoreBefore(v.core, w.core)
        => CoreBefore(u.core, w.core)
  <2>1. /\ u.core \in Nat \X Nat \X Nat
        /\ v.core \in Nat \X Nat \X Nat
        /\ w.core \in Nat \X Nat \X Nat
    BY DEF Version
  <2> QED BY <2>1, CoreLaws
<1>2. u.pre \in Seq(Identifier) /\ v.pre \in Seq(Identifier) /\ w.pre \in Seq(Identifier)
  BY DEF Version
<1>3. PreBefore(u.pre, v.pre) /\ PreBefore(v.pre, w.pre) => PreBefore(u.pre, w.pre)
  BY <1>2, PreTransitive
<1> QED BY <1>1, <1>3 DEF Before

-----------------------------------------------------------------------------
(***************************************************************************)
(* The read and the load.                                                  *)
(***************************************************************************)
\* The state is well-typed, and every judged source has one outcome.
THEOREM TypeCorrect == Spec => []TypeOK
<1>1. Init => TypeOK
  BY DEF Init, TypeOK, NotJudged
<1>2. TypeOK /\ [Next]_vars => TypeOK'
  <2> SUFFICES ASSUME TypeOK, [Next]_vars PROVE TypeOK'
    OBVIOUS
  <2> USE DEF TypeOK
  <2>1. ASSUME NEW r \in Releases, Bless(r) PROVE TypeOK'
    BY <2>1 DEF Bless, NotJudged
  <2>2. ASSUME NEW a \in Published, NEW p \in Packaged, Push(a, p) PROVE TypeOK'
    BY <2>2, FleetAssumption DEF Push, NotJudged
  <2>3. ASSUME NEW a \in Published, Withdraw(a) PROVE TypeOK'
    BY <2>3, FleetAssumption DEF Withdraw, NotJudged
  <2>4. CASE Outage
    BY <2>4 DEF Outage
  <2>5. ASSUME NEW sources \in Configs, Publish(sources) PROVE TypeOK'
    <3>1. /\ DOMAIN judged'.verdict.outcomes = DOMAIN judged'.sources
          /\ judged'.verdict.violations \cap judged'.verdict.warnings = {}
          /\ judged'.sources = sources
      BY <2>5 DEF Publish, Assess
    <3> QED BY <2>5, <3>1 DEF Publish
  <2>6. ASSUME NEW g \in Gateways, NEW v \in Versions \cup {NotAVersion}, Enroll(g, v)
        PROVE  TypeOK'
    <3>1. BeforeSplit(v) \in BOOLEAN
      BY DEF BeforeSplit
    <3> QED BY <2>6, <3>1 DEF Enroll
  <2>7. CASE UNCHANGED vars
    BY <2>7 DEF vars
  <2> QED BY <2>1, <2>2, <2>3, <2>4, <2>5, <2>6, <2>7 DEF Next
<1> QED BY <1>1, <1>2, PTL DEF Spec

\* What a read of a source finds is what a gateway would load.
LEMMA ReadAgreesWithLoad ==
    ASSUME TypeOK, NEW src \in Source
    PROVE  /\ Probe(src) = Missing => registry[Fetched(src)] = NotThere
           /\ Probe(src).kind = "recorded" =>
                  /\ registry[Fetched(src)] # NotThere
                  /\ registry[Fetched(src)].layout = Probe(src).layout
           /\ Probe(src).kind = "missing" => Probe(src) = Missing
<1> DEFINE tried == Candidates(src, release.floating)
           there == {i \in DOMAIN tried : registry[tried[i]] # NotThere}
           least == CHOOSE i \in there : \A j \in there : i <= j
<1>1. CASE src.pin = "written"
  <2>1. DOMAIN tried = {1} /\ tried[1] = Fetched(src)
    BY <1>1 DEF Candidates, Fetched
  <2>2. there # {} => least = 1
    BY <2>1
  <2> QED BY <2>1, <2>2 DEF Probe, Missing, Unreadable, NotRecorded, Recorded
<1>2. CASE src.pin # "written"
  <2>1. /\ DOMAIN tried = {1, 2}
        /\ registry[tried[1]] # NotThere => tried[1] = Fetched(src)
        /\ registry[tried[1]] = NotThere => tried[2] = Fetched(src)
    BY <1>2 DEF Candidates, Fetched, At
  <2>2. registry[tried[1]] # NotThere => there # {} /\ least = 1
    BY <2>1
  <2>3. registry[tried[1]] = NotThere /\ there # {} => there = {2}
    BY <2>1
  <2>4. there = {2} => least = 2
    OBVIOUS
  <2>5. there # {} => tried[least] = Fetched(src) /\ registry[Fetched(src)] # NotThere
    BY <2>1, <2>2, <2>3, <2>4
  <2>6. there = {} => registry[Fetched(src)] = NotThere
    BY <2>1
  <2> HIDE DEF tried, there, least
  <2>7. Probe(src) = IF ~readable THEN Unreadable
                     ELSE IF there = {} THEN Missing
                     ELSE LET p == registry[tried[least]]
                          IN  IF p.recorded THEN Recorded(p.layout) ELSE NotRecorded
    BY DEF Probe, tried, there, least
  <2> QED BY <2>5, <2>6, <2>7 DEF Missing, Unreadable, NotRecorded, Recorded
<1> QED BY <1>1, <1>2

\* A step that does not publish keeps the load of the judged sources, or
\* forgets them.
LEMMA UnjudgedSteps ==
    ASSUME TypeOK, [Next]_vars, \A sources \in Configs : ~Publish(sources)
    PROVE  \/ judged' = NotJudged
           \/ UNCHANGED <<release, registry, judged>>
BY DEF Next, Bless, Push, Withdraw, Outage, Enroll, vars

\* What one publish concludes.
LEMMA PublishJudges ==
    ASSUME TypeOK, NEW sources \in Configs, Publish(sources)
    PROVE  HeldIsDue' /\ CleanBoots'
<1> DEFINE found == [i \in DOMAIN sources |-> Probe(sources[i])]
           outcome == [i \in DOMAIN sources |->
                          IF i \in Read(sources) THEN Outcome(found[i], release.layout)
                          ELSE "custom"]
<1>1. /\ judged'.sources = sources
      /\ judged'.verdict.violations =
            {i \in DOMAIN sources : outcome[i] \in {"mismatch", "missing"}}
      /\ judged'.verdict.warnings =
            {i \in DOMAIN sources :
                outcome[i] \in {"not_recorded", "unreadable", "custom"}}
  BY DEF Publish, Assess
<1>2. \A i \in DOMAIN sources : sources[i] \in Source
  BY FleetAssumption
<1>3. ASSUME NEW i \in DOMAIN sources
      PROVE  /\ outcome[i] \in {"mismatch", "missing"} => ~Loads(sources[i])
             /\ outcome[i] = "ok" => Loads(sources[i])
             /\ outcome[i] \in {"mismatch", "missing", "ok",
                                "not_recorded", "unreadable", "custom"}
  <2>1. Probe(sources[i]).kind \in {"unreadable", "missing", "not_recorded", "recorded"}
    BY DEF Probe, Unreadable, Missing, NotRecorded, Recorded
  <2>2. /\ Probe(sources[i]).kind = "missing"
              => registry[Fetched(sources[i])] = NotThere
        /\ Probe(sources[i]).kind = "recorded" =>
              /\ registry[Fetched(sources[i])] # NotThere
              /\ registry[Fetched(sources[i])].layout = Probe(sources[i]).layout
    BY <1>2, ReadAgreesWithLoad
  <2>3. outcome[i] = IF i \in Read(sources)
                     THEN Outcome(Probe(sources[i]), release.layout) ELSE "custom"
    OBVIOUS
  <2> QED BY <2>1, <2>2, <2>3 DEF Outcome, Loads
<1>4. UNCHANGED <<release, registry>>
  BY DEF Publish
<1>5. \A i \in DOMAIN sources : Loads(sources[i])' = Loads(sources[i])
  BY <1>1, <1>4 DEF Loads, Fetched, At, Publish
<1> HIDE DEF outcome
<1>6. HeldIsDue'
  BY <1>1, <1>3, <1>5 DEF HeldIsDue
<1>7. CleanBoots'
  BY <1>1, <1>3, <1>5 DEF CleanBoots
<1> QED BY <1>6, <1>7

LEMMA VerdictsHold ==
    ASSUME TypeOK, [Next]_vars, HeldIsDue, CleanBoots
    PROVE  HeldIsDue' /\ CleanBoots'
<1>1. CASE \E sources \in Configs : Publish(sources)
  BY <1>1, PublishJudges
<1>2. CASE judged' = NotJudged
  BY <1>2 DEF HeldIsDue, CleanBoots, NotJudged
<1>3. CASE UNCHANGED <<release, registry, judged>>
  BY <1>3 DEF HeldIsDue, CleanBoots, Loads, Fetched, At
<1> QED BY <1>1, <1>2, <1>3, UnjudgedSteps

\* A source that holds a publish is one the gateway would refuse.
THEOREM HoldsAreDue == Spec => []HeldIsDue
<1>1. Init => HeldIsDue /\ CleanBoots
  BY DEF Init, NotJudged, HeldIsDue, CleanBoots
<1> QED BY <1>1, VerdictsHold, TypeCorrect, PTL DEF Spec

\* A config neither held nor warned about boots.
THEOREM CleanConfigsBoot == Spec => []CleanBoots
<1>1. Init => HeldIsDue /\ CleanBoots
  BY DEF Init, NotJudged, HeldIsDue, CleanBoots
<1> QED BY <1>1, VerdictsHold, TypeCorrect, PTL DEF Spec

-----------------------------------------------------------------------------
(***************************************************************************)
(* Builds.                                                                 *)
(***************************************************************************)
\* Every gateway's build and the blessed release are ordered one way.
THEOREM BuildsAreOrdered == Spec => []OrderIsTotal
<1>1. TypeOK => OrderIsTotal
  <2> SUFFICES ASSUME TypeOK, NEW g \in Gateways, fleet[g].build # NotAVersion
               PROVE  LET v == fleet[g].build
                          w == release.version
                      IN  /\ Before(v, w) \/ Same(v, w) \/ Before(w, v)
                          /\ ~(Before(v, w) /\ Before(w, v))
                          /\ Same(v, w) => ~Before(v, w) /\ ~Before(w, v)
    BY DEF OrderIsTotal
  <2>1. fleet[g].build \in Version /\ release.version \in Version
    BY VersionsAreParsed, FleetAssumption DEF TypeOK
  <2> QED BY <2>1, Trichotomy
<1> QED BY <1>1, TypeCorrect, PTL

\* A gateway that moves to a later build keeps every floor it met.
THEOREM FloorsAreKept == Spec => UpgradeKeepsFloors
<1>1. ASSUME TypeOK, TypeOK', NEW g \in Gateways, NEW r \in Releases,
             AtLeast(fleet[g].build, r.version),
             fleet'[g].build # NotAVersion,
             Before(fleet[g].build, fleet'[g].build)
      PROVE  AtLeast(fleet'[g].build, r.version)
  <2>1. /\ fleet[g].build \in Version /\ fleet'[g].build \in Version
        /\ r.version \in Version
    BY <1>1, VersionsAreParsed, FleetAssumption DEF TypeOK, AtLeast
  <2>2. Before(fleet'[g].build, r.version) => Before(fleet[g].build, r.version)
    BY <1>1, <2>1, BeforeTransitive
  <2> QED BY <1>1, <2>2 DEF AtLeast
<1>2. TypeOK /\ TypeOK' /\ [Next]_vars =>
        [\A g \in Gateways, r \in Releases :
            LET old == fleet[g].build
                new == fleet'[g].build
            IN  /\ AtLeast(old, r.version)
                /\ new # NotAVersion /\ Before(old, new)
                => AtLeast(new, r.version)]_vars
  BY <1>1
<1> QED BY <1>2, TypeCorrect, PTL DEF Spec, UpgradeKeepsFloors

\* What follows a build from after the split is from after it too.
LEMMA SplitIsPassedOnce ==
    ASSUME NEW v \in Version, NEW w \in Version,
           ~IsUnreleased(v), ~BeforeSplit(v), Follows(v, w)
    PROVE  ~BeforeSplit(w)
<1>1. v # NotAVersion /\ w # NotAVersion
  BY VersionsAreParsed
<1>2. /\ v.core \in Nat \X Nat \X Nat /\ w.core \in Nat \X Nat \X Nat
      /\ SplitCore \in Nat \X Nat \X Nat
  BY DEF Version, SplitCore
<1>3. CoreBefore(v.core, w.core) \/ v.core = w.core
  BY DEF Follows, Before
<1>4. ~CoreBefore(v.core, SplitCore)
  BY <1>1 DEF BeforeSplit
<1>5. ~CoreBefore(w.core, SplitCore)
  BY <1>2, <1>3, <1>4, CoreLaws
<1>6. ASSUME w.core = SplitCore, Released(w), NEW last \in LastBeforeSplit,
             last[1] = w.pre[1].val, w.pre[2].val <= last[2]
      PROVE  FALSE
  <2>1. v.core = w.core
    BY <1>2, <1>3, <1>4, <1>6, CoreLaws
  <2>2. PreBefore(v.pre, w.pre)
    BY <1>2, <2>1, CoreLaws DEF Follows, Before
  <2>3. Released(v) /\ IdEqual(v.pre[1], w.pre[1])
    BY <1>6, <2>1 DEF Follows, Released
  <2>4. v.pre \in Seq(Identifier) /\ w.pre \in Seq(Identifier)
    BY DEF Version
  <2>5. Len(v.pre) = 2 /\ Len(w.pre) = 2
    BY <1>6, <2>3 DEF Released
  <2>6. \A i \in 1..2 : v.pre[i] \in Identifier /\ w.pre[i] \in Identifier
    BY <2>4, <2>5, ElementsAreTyped
  <2>7. PICK i \in 1..2 : IdBefore(v.pre[i], w.pre[i])
    BY <2>2, <2>5 DEF PreBefore
  <2>8. i = 2
    BY <2>3, <2>6, <2>7, IdLaws
  <2>9. v.pre[2].val < w.pre[2].val
    BY <1>6, <2>3, <2>7, <2>8 DEF IdBefore, Released
  <2>10. /\ last[2] \in Nat /\ v.pre[2].val \in Nat /\ w.pre[2].val \in Nat
    BY <2>6, VersionsAreParsed DEF Identifier
  <2>11. v.pre[2].val <= last[2] /\ last[1] = v.pre[1].val
    BY <1>6, <2>3, <2>9, <2>10 DEF IdEqual
  <2>12. v.core = SplitCore
    BY <1>6, <2>1
  <2> QED BY <1>1, <2>3, <2>11, <2>12 DEF BeforeSplit
<1> QED BY <1>5, <1>6 DEF BeforeSplit

\* An admitted gateway that moves to a build that follows is not refused.
THEOREM UpgradesAreAdmitted == Spec => UpgradeStaysAdmitted
<1> DEFINE Sound == \A g \in Gateways :
                       fleet[g].admitted => ~BeforeSplit(fleet[g].build)
<1>1. Init => Sound
  BY DEF Init
<1>2. TypeOK /\ Sound /\ [Next]_vars => Sound'
  <2> SUFFICES ASSUME TypeOK, Sound, [Next]_vars PROVE Sound'
    OBVIOUS
  <2>1. ASSUME NEW g \in Gateways, NEW v \in Versions \cup {NotAVersion}, Enroll(g, v)
        PROVE  Sound'
    <3>1. ASSUME NEW h \in Gateways, fleet'[h].admitted
          PROVE  ~BeforeSplit(fleet'[h].build)
      BY <2>1, <3>1 DEF Enroll, TypeOK
    <3> QED BY <3>1
  <2>2. CASE UNCHANGED fleet
    BY <2>2
  <2> QED BY <2>1, <2>2 DEF Next, Bless, Push, Withdraw, Outage, Publish, vars
<1>3. TypeOK /\ TypeOK' /\ Sound /\ [Next]_vars =>
        [\A g \in Gateways :
            LET old == fleet[g].build
                new == fleet'[g].build
            IN  /\ fleet[g].admitted
                /\ old # NotAVersion /\ new # NotAVersion
                /\ ~IsUnreleased(old)
                /\ Follows(old, new)
                => fleet'[g].admitted]_vars
  <2> SUFFICES ASSUME TypeOK, TypeOK', Sound, [Next]_vars, NEW g \in Gateways,
                      fleet[g].admitted,
                      fleet[g].build # NotAVersion, fleet'[g].build # NotAVersion,
                      ~IsUnreleased(fleet[g].build),
                      Follows(fleet[g].build, fleet'[g].build)
               PROVE  fleet'[g].admitted
    OBVIOUS
  <2>1. fleet[g].build \in Version /\ fleet'[g].build \in Version
    BY VersionsAreParsed DEF TypeOK
  <2>2. ~BeforeSplit(fleet'[g].build)
    BY <2>1, SplitIsPassedOnce
  <2>3. ASSUME NEW h \in Gateways, NEW v \in Versions \cup {NotAVersion}, Enroll(h, v)
        PROVE  fleet'[g].admitted
    BY <2>2, <2>3 DEF Enroll, TypeOK
  <2>4. CASE UNCHANGED fleet
    BY <2>4
  <2> QED BY <2>3, <2>4 DEF Next, Bless, Push, Withdraw, Outage, Publish, vars
<1> QED BY <1>1, <1>2, <1>3, TypeCorrect, PTL DEF Spec, UpgradeStaysAdmitted

-----------------------------------------------------------------------------
(***************************************************************************)
(* The texts of references.  Positions of separators are found by the      *)
(* first or the last that holds one; a text is a body behind a scheme, and *)
(* a body is cut at its marks.                                             *)
(***************************************************************************)
LEMMA LeastIs ==
    ASSUME NEW S, NEW m \in S, S \subseteq Int, \A y \in S : m <= y
    PROVE  Min(S) = m
<1>1. \A x \in S : (\A y \in S : x <= y) => x = m
    OBVIOUS
<1> QED BY <1>1 DEF Min

LEMMA GreatestIs ==
    ASSUME NEW S, NEW m \in S, S \subseteq Int, \A y \in S : y <= m
    PROVE  Max(S) = m
<1>1. \A x \in S : (\A y \in S : x >= y) => x = m
    OBVIOUS
<1>2. \A y \in S : m >= y
    OBVIOUS
<1> QED BY <1>1, <1>2 DEF Max

LEMMA FindIs ==
    ASSUME NEW t \in Seq(Symbols), NEW c, NEW i \in 1..Len(t),
           t[i] = c, \A k \in 1..(i - 1) : t[k] # c
    PROVE  Find(t, c) = i
<1> DEFINE at == {k \in 1..Len(t) : t[k] = c}
<1>1. Find(t, c) = IF at # {} THEN Min(at) ELSE 0
    BY DEF Find, SelectInSeq
<1>2. i \in at /\ at \subseteq Int /\ \A y \in at : i <= y
    OBVIOUS
<1> HIDE DEF at
<1> QED BY <1>1, <1>2, LeastIs

LEMMA FindsNone ==
    ASSUME NEW t, NEW c, \A k \in 1..Len(t) : t[k] # c
    PROVE  Find(t, c) = 0 /\ RFind(t, c) = 0
<1> DEFINE at == {k \in 1..Len(t) : t[k] = c}
<1>1. Find(t, c) = IF at # {} THEN Min(at) ELSE 0
    BY DEF Find, SelectInSeq
<1>2. RFind(t, c) = IF at # {} THEN Max(at) ELSE 0
    BY DEF RFind, SelectLastInSeq
<1>3. at = {}
    OBVIOUS
<1> QED BY <1>1, <1>2, <1>3

LEMMA RFindIs ==
    ASSUME NEW t \in Seq(Symbols), NEW c, NEW i \in 1..Len(t),
           t[i] = c, \A k \in i + 1..Len(t) : t[k] # c
    PROVE  RFind(t, c) = i
<1> DEFINE at == {k \in 1..Len(t) : t[k] = c}
<1>1. RFind(t, c) = IF at # {} THEN Max(at) ELSE 0
    BY DEF RFind, SelectLastInSeq
<1>2. i \in at /\ at \subseteq Int /\ \A y \in at : y <= i
    OBVIOUS
<1> HIDE DEF at
<1> QED BY <1>1, <1>2, GreatestIs

\* Where a mark stands, the last one stands there or behind.
LEMMA RFindReaches ==
    ASSUME NEW t \in Seq(Symbols), NEW c, NEW i \in 1..Len(t), t[i] = c
    PROVE  RFind(t, c) \in i..Len(t) /\ t[RFind(t, c)] = c
<1> DEFINE n == Len(t)
           far == {d \in Nat : d <= n /\ n - d \in 1..n /\ t[n - d] = c}
<1>0. n \in Nat
    OBVIOUS
<1>1. n - i \in far
    <2>1. n - (n - i) = i /\ n - i \in Nat
        BY <1>0
    <2> QED BY <1>0, <2>1
<1>2. PICK d \in far : \A e \in far : d <= e
    <2>1. far \in SUBSET Nat
        OBVIOUS
    <2> HIDE DEF far
    <2> QED BY <1>1, <2>1, LeastNatural
<1> DEFINE m == n - d
<1>3. d \in Nat /\ m \in 1..n /\ t[m] = c
    BY <1>2
<1>4. m >= i
    <2>1. d <= n - i
        <3> HIDE DEF far
        <3> QED BY <1>1, <1>2
    <2> QED BY <1>0, <1>3, <2>1
<1>5. ASSUME NEW k \in m + 1..n PROVE t[k] # c
    <2>1. SUFFICES ASSUME t[k] = c PROVE FALSE
        OBVIOUS
    <2>2. n - (n - k) = k /\ n - k \in Nat
        BY <1>0, <1>3
    <2>3. n - k \in far
        BY <1>0, <1>3, <2>1, <2>2
    <2>4. d <= n - k
        BY <1>2, <2>3
    <2> QED BY <1>0, <1>3, <2>4
<1>6. RFind(t, c) = m
    <2> HIDE DEF far, m
    <2> QED BY <1>3, <1>5, RFindIs
<1> QED BY <1>0, <1>3, <1>4, <1>6

-----------------------------------------------------------------------------
LEMMA ThreeMarks ==
    ASSUME NEW S, NEW a \in S, NEW b \in S, NEW c \in S
    PROVE  <<a>> \o <<b, c>> = <<a, b, c>>
<1> DEFINE one == <<a>>
           two == <<b, c>>
           t == one \o two
<1>one. one \in Seq(S)
    OBVIOUS
<1>two. two \in Seq(S)
    OBVIOUS
<1>0. Len(one) = 1 /\ one[1] = a /\ Len(two) = 2 /\ two[1] = b /\ two[2] = c
    OBVIOUS
<1> HIDE DEF one, two
<1>t. t \in Seq(S)
    BY <1>one, <1>two, ConcatProperties, Zenon
<1>l. Len(t) = Len(one) + Len(two)
    BY <1>one, <1>two, ConcatProperties, Zenon
<1>e. \A i \in 1..(Len(one) + Len(two)) : t[i] = IF i <= Len(one) THEN one[i] ELSE two[i - Len(one)]
    BY <1>one, <1>two, ConcatProperties, Zenon
<1> HIDE DEF t
<1>1. Len(t) = 3
    BY <1>l, <1>0
<1>2. t[1] = a /\ t[2] = b /\ t[3] = c
    <2>1. Len(one) + Len(two) = 3 /\ 1 \in 1..3 /\ 2 \in 1..3 /\ 3 \in 1..3
        BY <1>0
    <2>2. t[1] = one[1] /\ t[2] = two[2 - 1] /\ t[3] = two[3 - 1]
        BY <1>e, <1>0, <2>1
    <2> QED BY <1>0, <2>2
<1>3. t = <<t[1], t[2], t[3]>>
    BY <1>t, <1>1
<1> QED BY <1>2, <1>3 DEF t, one, two

LEMMA TwoTexts ==
    ASSUME NEW S, NEW a \in Seq(S), NEW b \in Seq(S)
    PROVE  /\ a \o b \in Seq(S) /\ Len(a \o b) = Len(a) + Len(b)
           /\ \A k \in 1..Len(a) : (a \o b)[k] = a[k]
           /\ \A k \in 1..Len(b) : (a \o b)[Len(a) + k] = b[k]
           /\ SubSeq(a \o b, 1, Len(a)) = a
           /\ SubSeq(a \o b, Len(a) + 1, Len(a \o b)) = b
<1> DEFINE t == a \o b
<1>0. Len(a) \in Nat /\ Len(b) \in Nat
    OBVIOUS
<1>1. t \in Seq(S) /\ Len(t) = Len(a) + Len(b)
    OBVIOUS
<1>2. \A k \in 1..Len(a) : t[k] = a[k]
    OBVIOUS
<1>3. \A k \in 1..Len(b) : t[Len(a) + k] = b[k]
    OBVIOUS
<1> HIDE DEF t
<1>4. SubSeq(t, 1, Len(a)) = a
    <2> DEFINE p == SubSeq(t, 1, Len(a))
    <2>1. p = [k \in 1..Len(a) |-> t[k]]
        BY <1>0, <1>1
    <2>2. a = [k \in 1..Len(a) |-> a[k]]
        OBVIOUS
    <2> QED BY <1>2, <2>1, <2>2
<1>5. SubSeq(t, Len(a) + 1, Len(t)) = b
    <2> DEFINE p == SubSeq(t, Len(a) + 1, Len(t))
    <2>1. p \in Seq(S) /\ Len(p) = Len(b) /\ \A k \in 1..Len(b) : p[k] = t[Len(a) + k]
        BY <1>0, <1>1
    <2> HIDE DEF p
    <2>2. p = [k \in 1..Len(b) |-> p[k]]
        BY <2>1
    <2>3. b = [k \in 1..Len(b) |-> b[k]]
        OBVIOUS
    <2> QED BY <1>3, <2>1, <2>2, <2>3 DEF p
<1> QED BY <1>1, <1>2, <1>3, <1>4, <1>5 DEF t

LEMMA PrefixOf ==
    ASSUME NEW S, NEW a \in Seq(S), NEW b \in Seq(S)
    PROVE  IsPrefix(a, a \o b)
<1> DEFINE t == a \o b
<1>1. Len(t) = Len(a) + Len(b) /\ SubSeq(t, 1, Len(a)) = a
    BY TwoTexts
<1>2. SubSeq(a, 1, Len(a)) = a /\ Len(a) \in Nat /\ Len(b) \in Nat
    OBVIOUS
<1> HIDE DEF t
<1>3. IsPrefix(a, t)
    BY <1>1, <1>2 DEF IsPrefix
<1> QED BY <1>3 DEF t

\* A text that is cut at a mark.
LEMMA CutAt ==
    ASSUME NEW a \in Seq(Symbols), NEW c \in Symbols, NEW b \in Seq(Symbols)
    PROVE  LET t == a \o (<<c>> \o b)
           IN  /\ t \in Seq(Symbols) /\ Len(t) = Len(a) + 1 + Len(b)
               /\ \A k \in 1..Len(a) : t[k] = a[k]
               /\ t[Len(a) + 1] = c
               /\ \A k \in 1..Len(b) : t[Len(a) + 1 + k] = b[k]
               /\ SubSeq(t, 1, Len(a)) = a
               /\ SubSeq(t, Len(a) + 2, Len(t)) = b
<1> DEFINE mark == <<c>>
           tail == mark \o b
           t == a \o tail
<1>0. Len(a) \in Nat /\ Len(b) \in Nat /\ Len(mark) = 1 /\ mark[1] = c
    OBVIOUS
<1>mark. mark \in Seq(Symbols)
    OBVIOUS
<1> HIDE DEF mark
<1>1. /\ tail \in Seq(Symbols) /\ Len(tail) = 1 + Len(b) /\ tail[1] = c
      /\ \A k \in 1..Len(b) : tail[1 + k] = b[k]
    <2>1. /\ tail \in Seq(Symbols) /\ Len(tail) = Len(mark) + Len(b)
          /\ \A k \in 1..Len(mark) : tail[k] = mark[k]
          /\ \A k \in 1..Len(b) : tail[Len(mark) + k] = b[k]
        BY <1>mark, TwoTexts
    <2> QED BY <1>0, <2>1
<1>tail. tail \in Seq(Symbols)
    BY <1>1
<1> HIDE DEF tail
<1>2. /\ t \in Seq(Symbols) /\ Len(t) = Len(a) + Len(tail)
      /\ \A k \in 1..Len(a) : t[k] = a[k]
      /\ \A k \in 1..Len(tail) : t[Len(a) + k] = tail[k]
      /\ SubSeq(t, 1, Len(a)) = a
    BY <1>tail, TwoTexts
<1>3. t[Len(a) + 1] = c
    BY <1>0, <1>1, <1>2
<1>4. ASSUME NEW k \in 1..Len(b) PROVE t[Len(a) + 1 + k] = b[k]
    <2>1. 1 + k \in 1..Len(tail) /\ Len(a) + (1 + k) = Len(a) + 1 + k
        BY <1>0, <1>1
    <2> QED BY <1>1, <1>2, <2>1
<1>5. Len(t) = Len(a) + 1 + Len(b)
    BY <1>0, <1>1, <1>2
<1>6. SubSeq(t, Len(a) + 2, Len(t)) = b
    <2> DEFINE head == a \o mark
    <2>1. head \in Seq(Symbols) /\ Len(head) = Len(a) + 1
        <3>1. head \in Seq(Symbols) /\ Len(head) = Len(a) + Len(mark)
            BY <1>mark, TwoTexts
        <3> QED BY <1>0, <3>1
    <2>2. t = head \o b
        BY <1>mark, ConcatAssociative DEF tail
    <2> HIDE DEF head, t
    <2>3. SubSeq(t, Len(head) + 1, Len(t)) = b
        BY <2>1, <2>2, TwoTexts
    <2>4. Len(head) + 1 = Len(a) + 2
        BY <1>0, <2>1
    <2> QED BY <2>3, <2>4
<1> QED BY <1>2, <1>3, <1>4, <1>5, <1>6 DEF tail, mark

LEMMA HasNot ==
    ASSUME NEW t \in Seq(Symbols), NEW S, ~ Has(t, S)
    PROVE  \A k \in 1..Len(t) : t[k] \notin S
BY DEF Has

\* No part of a text has what the whole has not.
LEMMA NeitherHas ==
    ASSUME NEW a \in Seq(Symbols), NEW b \in Seq(Symbols), NEW S,
           ~ Has(a, S), ~ Has(b, S)
    PROVE  ~ Has(a \o b, S)
<1> DEFINE t == a \o b
<1>1. t \in Seq(Symbols)
    OBVIOUS
<1>2. /\ Len(t) = Len(a) + Len(b)
      /\ \A k \in 1..Len(a) : t[k] = a[k]
      /\ \A k \in 1..Len(b) : t[Len(a) + k] = b[k]
    BY TwoTexts
<1>3. Len(a) \in Nat /\ Len(b) \in Nat
    OBVIOUS
<1>4. (\A k \in 1..Len(a) : a[k] \notin S) /\ \A k \in 1..Len(b) : b[k] \notin S
    BY DEF Has
<1> HIDE DEF t
<1>5. DOMAIN t = 1..Len(a) + Len(b)
    BY <1>1, <1>2
<1>6. ASSUME NEW k \in DOMAIN t PROVE t[k] \notin S
    <2>1. CASE k <= Len(a)
        <3>1. k \in 1..Len(a)
            BY <1>3, <1>5, <2>1
        <3> QED BY <1>2, <1>4, <3>1
    <2>2. CASE ~ (k <= Len(a))
        <3>1. k - Len(a) \in 1..Len(b) /\ Len(a) + (k - Len(a)) = k
            BY <1>3, <1>5, <2>2
        <3> QED BY <1>2, <1>4, <3>1
    <2> QED BY <2>1, <2>2
<1> QED BY <1>6 DEF Has, t

-----------------------------------------------------------------------------
LEMMA Marks ==
    /\ Slash \in Symbols /\ Colon \in Symbols /\ AtSign \in Symbols /\ Dash \in Symbols
    /\ Slash # Colon /\ Slash # AtSign /\ Colon # AtSign /\ Dash \notin Separators
    /\ Oci # Slash
<1>1. /\ Slash # Colon /\ Slash # AtSign /\ Colon # AtSign /\ Dash \notin Separators
      /\ Oci # Slash
    BY Zenon DEF Slash, Colon, AtSign, Dash, Oci, Separators
<1>2. Slash \in Symbols /\ Colon \in Symbols /\ AtSign \in Symbols /\ Dash \in Symbols
    BY SuffixesAreKnown, Zenon DEF Separators
<1> QED BY <1>1, <1>2

\* A scheme is taken off, and nothing else.
LEMMA StrippedIs ==
    ASSUME NEW scheme, NEW body \in Seq(Symbols),
           scheme \in {<<>>, <<Oci>>, <<Oci, Slash, Slash>>},
           body # <<>>, Head(body) # Oci, Head(body) # Slash
    PROVE  Stripped(scheme \o body) = body
<1> DEFINE All == Symbols \cup {Oci, Slash}
           text == scheme \o body
<1>0. Len(body) \in Nat /\ Len(body) >= 1 /\ body[1] # Oci /\ body[1] # Slash
    OBVIOUS
<1>1. body = [k \in 1..Len(body) |-> body[k]]
    OBVIOUS
<1>body. body \in Seq(All)
    BY <1>0
<1>2. CASE scheme = <<>>
    <2>1. text = body
        BY <1>2
    <2>2. ~ IsPrefix(<<Oci, Slash, Slash>>, body)
        <3>1. SUFFICES ASSUME Len(body) >= 3, <<Oci, Slash, Slash>> = SubSeq(body, 1, 3)
                       PROVE  FALSE
            BY DEF IsPrefix
        <3>2. SubSeq(body, 1, 3)[1] = body[1]
            BY <1>0, <3>1
        <3> QED BY <1>0, <3>1, <3>2
    <2>3. ~ IsPrefix(<<Oci>>, body)
        <3>1. SUFFICES ASSUME <<Oci>> = SubSeq(body, 1, 1) PROVE FALSE
            BY DEF IsPrefix
        <3>2. SubSeq(body, 1, 1)[1] = body[1]
            BY <1>0
        <3> QED BY <1>0, <3>1, <3>2
    <2> QED BY <2>1, <2>2, <2>3 DEF Stripped
<1>3. CASE scheme = <<Oci>>
    <2>0. <<Oci>> \in Seq(All) /\ Len(<<Oci>>) = 1
        OBVIOUS
    <2>1. text \in Seq(All) /\ Len(text) = 1 + Len(body) /\ text[1] = Oci
          /\ \A k \in 1..Len(body) : text[k + 1] = body[k]
        BY <1>0, <1>3, <1>body, <2>0
    <2> HIDE DEF text
    <2>2. ~ IsPrefix(<<Oci, Slash, Slash>>, text)
        <3>1. SUFFICES ASSUME Len(text) >= 3, <<Oci, Slash, Slash>> = SubSeq(text, 1, 3)
                       PROVE  FALSE
            BY DEF IsPrefix
        <3>2. SubSeq(text, 1, 3)[2] = text[2] /\ text[2] = body[1]
            BY <1>0, <2>1, <3>1
        <3> QED BY <1>0, <3>1, <3>2
    <2>3. IsPrefix(<<Oci>>, text)
        <3>1. <<Oci>> \in Seq(All)
            OBVIOUS
        <3> QED BY <1>3, <1>body, <3>1, PrefixOf DEF text
    <2>4. Tail(text) = body
        <3> DEFINE p == Tail(text)
        <3>1. p \in Seq(All) /\ Len(p) = Len(body)
              /\ \A k \in 1..Len(body) : p[k] = text[k + 1]
            BY <1>0, <2>1
        <3> HIDE DEF p
        <3>2. p = [k \in 1..Len(body) |-> p[k]]
            BY <3>1
        <3> QED BY <1>1, <2>1, <3>1, <3>2 DEF p
    <2> QED BY <2>2, <2>3, <2>4 DEF Stripped, text
<1>4. CASE scheme = <<Oci, Slash, Slash>>
    <2>0. <<Oci, Slash, Slash>> \in Seq(All) /\ Len(<<Oci, Slash, Slash>>) = 3
        OBVIOUS
    <2>1. text \in Seq(All) /\ Len(text) = 3 + Len(body)
          /\ text[1] = Oci /\ text[2] = Slash /\ text[3] = Slash
          /\ \A k \in 1..Len(body) : text[k + 3] = body[k]
        BY <1>0, <1>4, <1>body, <2>0
    <2> HIDE DEF text
    <2>2. IsPrefix(<<Oci, Slash, Slash>>, text)
        <3>1. <<Oci, Slash, Slash>> \in Seq(All)
            OBVIOUS
        <3> QED BY <1>4, <1>body, <3>1, PrefixOf DEF text
    <2>3. SubSeq(text, 4, Len(text)) = body
        <3> DEFINE p == SubSeq(text, 4, Len(text))
        <3>1. p \in Seq(All) /\ Len(p) = Len(body)
              /\ \A k \in 1..Len(body) : p[k] = text[k + 3]
            BY <1>0, <2>1
        <3> HIDE DEF p
        <3>2. p = [k \in 1..Len(body) |-> p[k]]
            BY <3>1
        <3> QED BY <1>1, <2>1, <3>1, <3>2 DEF p
    <2> QED BY <2>2, <2>3 DEF Stripped, text
<1> QED BY <1>2, <1>3, <1>4

\* The registry is asked for the host, the repository and the reference.
LEMMA ParsedIs ==
    ASSUME NEW host \in Seq(Symbols), NEW p \in Seq(Symbols), NEW ref \in Seq(Symbols),
           NEW sep \in {Colon, AtSign},
           host # <<>>, ~ Has(host, {Slash}), p # <<>>, ~ Has(p, {Colon, AtSign}), ref # <<>>,
           sep = Colon => ~ Has(ref, {Colon, AtSign})
    PROVE  Parse(host \o (<<Slash>> \o (p \o (<<sep>> \o ref))))
               = [host |-> host, repository |-> p, reference |-> ref]
<1> DEFINE rest == p \o (<<sep>> \o ref)
           t == host \o (<<Slash>> \o rest)
           n == Len(host)
           m == Len(p)
<1>sep. sep \in Symbols
    BY Marks
<1>0. n \in Nat /\ n >= 1 /\ m \in Nat /\ m >= 1 /\ Len(ref) \in Nat /\ Len(ref) >= 1
    OBVIOUS
<1>1. /\ rest \in Seq(Symbols) /\ Len(rest) = m + 1 + Len(ref)
      /\ \A k \in 1..m : rest[k] = p[k]
      /\ rest[m + 1] = sep
      /\ \A k \in 1..Len(ref) : rest[m + 1 + k] = ref[k]
      /\ SubSeq(rest, 1, m) = p
      /\ SubSeq(rest, m + 2, Len(rest)) = ref
    BY <1>sep, CutAt
<1> HIDE DEF rest
<1>2. /\ t \in Seq(Symbols) /\ Len(t) = n + 1 + Len(rest)
      /\ \A k \in 1..n : t[k] = host[k]
      /\ t[n + 1] = Slash
      /\ SubSeq(t, 1, n) = host
      /\ SubSeq(t, n + 2, Len(t)) = rest
    <2>1. rest \in Seq(Symbols)
        BY <1>1
    <2>2. Slash \in Symbols
        BY Marks
    <2> QED BY <2>1, <2>2, CutAt
<1> HIDE DEF t
<1>3. Find(t, Slash) = n + 1
    <2>1. n + 1 \in 1..Len(t)
        BY <1>0, <1>1, <1>2
    <2>2. \A k \in 1..n : host[k] # Slash
        BY HasNot
    <2>3. \A k \in 1..((n + 1) - 1) : t[k] # Slash
        BY <1>0, <1>2, <2>2
    <2> QED BY <1>2, <2>1, <2>3, FindIs
<1>4. \A k \in 1..m : rest[k] # Colon /\ rest[k] # AtSign
    BY <1>1, HasNot
<1>5. m + 1 \in 1..Len(rest)
    BY <1>0, <1>1
<1>6. sep = AtSign => Find(rest, AtSign) = m + 1
    <2>1. \A k \in 1..((m + 1) - 1) : rest[k] # AtSign
        BY <1>0, <1>4
    <2> QED BY <1>1, <1>5, <2>1, FindIs
<1>7. sep = Colon => Find(rest, AtSign) = 0 /\ RFind(rest, Colon) = m + 1
    <2> SUFFICES ASSUME sep = Colon
                 PROVE  Find(rest, AtSign) = 0 /\ RFind(rest, Colon) = m + 1
        OBVIOUS
    <2>1. \A k \in 1..Len(ref) : ref[k] # Colon /\ ref[k] # AtSign
        BY HasNot
    <2>2. ASSUME NEW k \in m + 2..Len(rest) PROVE rest[k] # Colon /\ rest[k] # AtSign
        <3>1. k - (m + 1) \in 1..Len(ref) /\ m + 1 + (k - (m + 1)) = k
            BY <1>0, <1>1
        <3> QED BY <1>1, <2>1, <3>1
    <2>3. \A k \in 1..Len(rest) : rest[k] # AtSign
        <3>1. \A k \in 1..Len(rest) : k \in 1..m \/ k = m + 1 \/ k \in m + 2..Len(rest)
            BY <1>0, <1>1
        <3> QED BY <1>1, <1>4, <2>2, <3>1, Marks
    <2>4. \A k \in (m + 1) + 1..Len(rest) : rest[k] # Colon
        BY <1>0, <2>2
    <2> QED BY <1>1, <1>5, <2>3, <2>4, FindsNone, RFindIs
<1> DEFINE slash == Find(t, Slash)
           r == SubSeq(t, slash + 1, Len(t))
           at == Find(r, AtSign)
           split == IF at # 0 THEN at ELSE RFind(r, Colon)
<1>8. r = rest
    <2>1. slash + 1 = n + 2
        BY <1>0, <1>3
    <2> HIDE DEF slash
    <2> QED BY <1>2, <2>1
<1>9. split = m + 1
    <2>1. m + 1 # 0
        BY <1>0
    <2> HIDE DEF r
    <2> QED BY <1>6, <1>7, <1>8, <2>1
<1>10. SubSeq(t, 1, slash - 1) = host
    <2>1. slash - 1 = n
        BY <1>0, <1>3
    <2> HIDE DEF slash
    <2> QED BY <1>2, <2>1
<1>11. Parse(t) = IF slash < 2 \/ split < 2 \/ split = Len(r) THEN Unparsed
                  ELSE [host |-> SubSeq(t, 1, slash - 1),
                        repository |-> SubSeq(r, 1, split - 1),
                        reference |-> SubSeq(r, split + 1, Len(r))]
    BY Zenon DEF Parse
<1>12. ~ (slash < 2) /\ slash \in Nat
    BY <1>0, <1>3
<1> HIDE DEF slash, r, split
<1>13. ~ (split < 2 \/ split = Len(r)) /\ split - 1 = m /\ split + 1 = m + 2
    BY <1>0, <1>1, <1>8, <1>9
<1>14. SubSeq(r, 1, split - 1) = p /\ SubSeq(r, split + 1, Len(r)) = ref
    BY <1>1, <1>8, <1>13
<1> QED BY <1>10, <1>11, <1>12, <1>13, <1>14 DEF t, rest

-----------------------------------------------------------------------------
\* A tag has a platform's suffix where it ends in one.
LEMMA SuffixIsSeen ==
    ASSUME NEW tag \in Seq(Symbols), NEW s \in PLATFORM_SUFFIX_TOKENS
    PROVE  HasPlatformSuffix(Suffixed(tag, s))
<1>1. s # NoSuffix /\ s \in Symbols
    BY SuffixesAreKnown DEF Names
<1>2. CASE tag = <<>>
    BY <1>1, <1>2 DEF Suffixed, HasPlatformSuffix
<1>3. CASE tag # <<>>
    <2> DEFINE suffix == <<Dash, s>>
               t == tag \o suffix
               n == Len(tag)
    <2>0. n \in Nat
        OBVIOUS
    <2>1. suffix \in Seq(Symbols) /\ Len(suffix) = 2 /\ suffix[1] = Dash /\ suffix[2] = s
        BY <1>1, Marks
    <2>suffix. suffix \in Seq(Symbols)
        BY <2>1
    <2> HIDE DEF suffix
    <2>2. /\ t \in Seq(Symbols) /\ Len(t) = n + Len(suffix)
          /\ \A k \in 1..Len(suffix) : t[n + k] = suffix[k]
        BY <2>suffix, TwoTexts
    <2>3. Len(t) = n + 2 /\ t[n + 1] = Dash /\ t[n + 2] = s
        BY <2>0, <2>1, <2>2
    <2> HIDE DEF t
    <2> DEFINE rt == Reverse(t)
               rs == Reverse(suffix)
    <2>4. rs = [i \in 1..2 |-> suffix[(2 - i) + 1]]
        BY <2>1 DEF Reverse
    <2>5. rt = [i \in 1..(n + 2) |-> t[((n + 2) - i) + 1]]
        BY <2>3 DEF Reverse
    <2>6. rs \in Seq(Symbols) /\ Len(rs) = 2 /\ rs[1] = s /\ rs[2] = Dash
        BY <1>1, <2>1, <2>4, Marks
    <2>7. rt \in Seq(Symbols) /\ Len(rt) = n + 2 /\ rt[1] = s /\ rt[2] = Dash
        <3>1. \A i \in 1..(n + 2) : ((n + 2) - i) + 1 \in 1..Len(t)
            BY <2>0, <2>3
        <3>2. \A i \in 1..(n + 2) : t[((n + 2) - i) + 1] \in Symbols
            BY <2>2, <3>1
        <3>3. rt \in [1..(n + 2) -> Symbols]
            BY <2>5, <3>2
        <3>4. rt \in Seq(Symbols) /\ Len(rt) = n + 2
            BY <2>0, <3>3
        <3>5. ((n + 2) - 1) + 1 = n + 2 /\ ((n + 2) - 2) + 1 = n + 1 /\ 1 \in 1..(n + 2) /\ 2 \in 1..(n + 2)
            BY <2>0
        <3> QED BY <2>3, <2>5, <3>4, <3>5
    <2> HIDE DEF rt, rs
    <2>8. SubSeq(rs, 1, 2) = SubSeq(rt, 1, 2)
        <3> DEFINE p == SubSeq(rs, 1, 2)
                   q == SubSeq(rt, 1, 2)
        <3>1. p = [i \in 1..2 |-> rs[i]]
            BY <2>6
        <3>2. q = [i \in 1..2 |-> rt[i]]
            BY <2>0, <2>7
        <3>3. \A i \in 1..2 : rs[i] = rt[i]
            <4>1. \A i \in 1..2 : i = 1 \/ i = 2
                OBVIOUS
            <4> QED BY <2>6, <2>7, <4>1
        <3> QED BY <3>1, <3>2, <3>3
    <2>9. IsPrefix(rs, rt)
        BY <2>0, <2>6, <2>7, <2>8 DEF IsPrefix
    <2>10. IsSuffix(suffix, t)
        BY <2>9 DEF IsSuffix, rs, rt
    <2>11. Suffixed(tag, s) = t
        BY <1>1, <1>3 DEF Suffixed, t, suffix
    <2> QED BY <2>10, <2>11 DEF HasPlatformSuffix, suffix
<1> QED BY <1>2, <1>3

LEMMA NoSuffixIsSeen ==
    ASSUME NEW tag \in Seq(Symbols), \A s \in PLATFORM_SUFFIX_TOKENS : ~ EndsIn(tag, s)
    PROVE  ~ HasPlatformSuffix(tag)
<1>1. ASSUME NEW s \in PLATFORM_SUFFIX_TOKENS, tag = <<s>> PROVE FALSE
    <2>1. tag # <<>> /\ Len(tag) = 1 /\ tag[Len(tag)] = s
        BY <1>1
    <2> QED BY <2>1 DEF EndsIn, Last
<1>2. ASSUME NEW s \in PLATFORM_SUFFIX_TOKENS, IsSuffix(<<Dash, s>>, tag) PROVE FALSE
    <2> DEFINE suffix == <<Dash, s>>
               rt == Reverse(tag)
               rs == Reverse(suffix)
               n == Len(tag)
    <2>0. n \in Nat /\ s \in Symbols
        BY SuffixesAreKnown DEF Names
    <2>1. suffix \in Seq(Symbols) /\ Len(suffix) = 2 /\ suffix[1] = Dash /\ suffix[2] = s
        BY <2>0, Marks
    <2>2. IsPrefix(rs, rt)
        BY <1>2 DEF IsSuffix
    <2> HIDE DEF suffix
    <2>3. rs = [i \in 1..2 |-> suffix[(2 - i) + 1]]
        BY <2>1 DEF Reverse
    <2>4. rt = [i \in 1..n |-> tag[(n - i) + 1]]
        BY DEF Reverse
    <2>5. rs \in Seq(Symbols) /\ Len(rs) = 2 /\ rs[1] = s /\ rs[2] = Dash
        BY <2>0, <2>1, <2>3, Marks
    <2>6. rt \in Seq(Symbols) /\ Len(rt) = n
        <3>1. \A i \in 1..n : (n - i) + 1 \in 1..n
            BY <2>0
        <3>2. rt \in [1..n -> Symbols]
            BY <2>4, <3>1
        <3> QED BY <2>0, <3>2
    <2> HIDE DEF rs, rt
    <2>7. 2 <= n /\ SubSeq(rs, 1, 2) = SubSeq(rt, 1, 2)
        BY <2>2, <2>5, <2>6 DEF IsPrefix
    <2>8. rt[1] = s /\ rt[2] = Dash
        <3>1. SubSeq(rs, 1, 2)[1] = rs[1] /\ SubSeq(rs, 1, 2)[2] = rs[2]
            BY <2>5
        <3>2. SubSeq(rt, 1, 2)[1] = rt[1] /\ SubSeq(rt, 1, 2)[2] = rt[2]
            BY <2>0, <2>6, <2>7
        <3> QED BY <2>5, <2>7, <3>1, <3>2
    <2>9. tag[n] = s /\ tag[n - 1] = Dash
        <3>1. (n - 1) + 1 = n /\ (n - 2) + 1 = n - 1 /\ 1 \in 1..n /\ 2 \in 1..n
            BY <2>0, <2>7
        <3> QED BY <2>4, <2>8, <3>1
    <2>10. tag # <<>>
        BY <2>7
    <2>11. Last(tag) = s
        BY <2>9 DEF Last
    <2> QED BY <2>9, <2>10, <2>11 DEF EndsIn
<1> QED BY <1>1, <1>2 DEF HasPlatformSuffix

-----------------------------------------------------------------------------
\* What stands behind a scheme.
Body(host, path, behind) == host \o (<<Slash>> \o (path \o behind))

IsBody(t, host, path, behind) ==
    LET n == Len(host)
        m == Len(path)
    IN  /\ t \in Seq(Symbols) /\ Len(t) = n + 1 + m + Len(behind)
        /\ \A k \in 1..n : t[k] = host[k]
        /\ t[n + 1] = Slash
        /\ \A k \in 1..m : t[n + 1 + k] = path[k]
        /\ \A k \in 1..Len(behind) : t[n + 1 + m + k] = behind[k]
        /\ t # <<>> /\ Head(t) = Head(host)

LEMMA BodyIs ==
    ASSUME NEW host \in Seq(Symbols), NEW path \in Seq(Symbols), NEW behind \in Seq(Symbols),
           host # <<>>
    PROVE  IsBody(Body(host, path, behind), host, path, behind)
<1> DEFINE rest == path \o behind
           t == host \o (<<Slash>> \o rest)
           n == Len(host)
           m == Len(path)
<1>0. n \in Nat /\ m \in Nat /\ Len(behind) \in Nat /\ n >= 1 /\ Head(host) = host[1]
    OBVIOUS
<1>1. /\ rest \in Seq(Symbols) /\ Len(rest) = m + Len(behind)
      /\ \A k \in 1..m : rest[k] = path[k]
      /\ \A k \in 1..Len(behind) : rest[m + k] = behind[k]
    BY TwoTexts
<1>rest. rest \in Seq(Symbols)
    BY <1>1
<1>slash. Slash \in Symbols
    BY Marks
<1> HIDE DEF rest
<1>2. /\ t \in Seq(Symbols) /\ Len(t) = n + 1 + Len(rest)
      /\ \A k \in 1..n : t[k] = host[k]
      /\ t[n + 1] = Slash
      /\ \A k \in 1..Len(rest) : t[n + 1 + k] = rest[k]
    BY <1>rest, <1>slash, CutAt
<1> HIDE DEF t
<1>3. Len(t) = n + 1 + m + Len(behind)
    BY <1>0, <1>1, <1>2
<1>4. ASSUME NEW k \in 1..m PROVE t[n + 1 + k] = path[k]
    <2>1. k \in 1..Len(rest)
        BY <1>0, <1>1
    <2> QED BY <1>1, <1>2, <2>1
<1>5. ASSUME NEW k \in 1..Len(behind) PROVE t[n + 1 + m + k] = behind[k]
    <2>1. m + k \in 1..Len(rest) /\ n + 1 + (m + k) = n + 1 + m + k
        BY <1>0, <1>1
    <2> QED BY <1>1, <1>2, <2>1
<1>6. t # <<>> /\ Head(t) = t[1] /\ t[1] = host[1]
    BY <1>0, <1>2, <1>3
<1>7. t = Body(host, path, behind)
    BY DEF Body, t, rest
<1> QED BY <1>0, <1>2, <1>3, <1>4, <1>5, <1>6, <1>7 DEF IsBody

Behind(t, m) == Colons(t, RFind(t, Slash) + 1) = {k \in m + 1..Len(t) : t[k] = Colon}

\* Behind the last slash stands at most what is left of the path: no port.
LEMMA ColonsAre ==
    ASSUME NEW host \in Seq(Symbols), NEW path \in Seq(Symbols), NEW behind \in Seq(Symbols),
           host # <<>>, ~ Has(path, {Colon}), ~ Has(behind, {Slash})
    PROVE  Behind(Body(host, path, behind), Len(host) + 1 + Len(path))
<1> DEFINE t == Body(host, path, behind)
           n == Len(host)
           m == n + 1 + Len(path)
           slash == RFind(t, Slash)
<1>0. n \in Nat /\ Len(path) \in Nat /\ Len(behind) \in Nat
    OBVIOUS
<1>1. /\ t \in Seq(Symbols) /\ Len(t) = n + 1 + Len(path) + Len(behind)
      /\ t[n + 1] = Slash
      /\ \A k \in 1..Len(path) : t[n + 1 + k] = path[k]
      /\ \A k \in 1..Len(behind) : t[n + 1 + Len(path) + k] = behind[k]
    <2>1. IsBody(t, host, path, behind)
        BY BodyIs
    <2> HIDE DEF t
    <2> QED BY <2>1 DEF IsBody
<1>2. (\A k \in 1..Len(path) : path[k] # Colon) /\ \A k \in 1..Len(behind) : behind[k] # Slash
    BY HasNot
<1> HIDE DEF t
<1>3. slash \in n + 1..Len(t) /\ t[slash] = Slash
    <2>1. n + 1 \in 1..Len(t)
        BY <1>0, <1>1
    <2> QED BY <1>1, <2>1, RFindReaches
<1> HIDE DEF slash
<1>4. slash <= m
    <2>1. SUFFICES ASSUME slash > m PROVE FALSE
        BY <1>0, <1>1, <1>3
    <2>2. slash - m \in 1..Len(behind) /\ n + 1 + Len(path) + (slash - m) = slash
        BY <1>0, <1>1, <1>3, <2>1
    <2>3. t[n + 1 + Len(path) + (slash - m)] = behind[slash - m]
        BY <1>1, <2>2
    <2>4. behind[slash - m] # Slash
        BY <1>2, <2>2
    <2> QED BY <1>3, <2>2, <2>3, <2>4
<1>5. ASSUME NEW k \in slash + 1..Len(t), t[k] = Colon PROVE k \in m + 1..Len(t)
    <2>1. SUFFICES ASSUME k <= m PROVE FALSE
        BY <1>0, <1>1, <1>3
    <2>2. k - (n + 1) \in 1..Len(path) /\ n + 1 + (k - (n + 1)) = k
        BY <1>0, <1>1, <1>3, <2>1
    <2>3. t[n + 1 + (k - (n + 1))] = path[k - (n + 1)]
        BY <1>1, <2>2
    <2>4. path[k - (n + 1)] # Colon
        BY <1>2, <2>2
    <2> QED BY <1>5, <2>2, <2>3, <2>4
<1>6. m + 1..Len(t) \subseteq slash + 1..Len(t)
    BY <1>0, <1>1, <1>3, <1>4
<1>7. Colons(t, slash + 1) = {k \in m + 1..Len(t) : t[k] = Colon}
    BY <1>5, <1>6 DEF Colons
<1> QED BY <1>7 DEF Behind, t, slash

LEMMA ThreeTexts ==
    ASSUME NEW a \in Seq(Symbols), NEW b \in Seq(Symbols), NEW c \in Seq(Symbols)
    PROVE  (a \o b) \o c = a \o (b \o c)
BY ConcatAssociative

Grows(host, path, a, b) == Body(host, path, a) \o b = Body(host, path, a \o b)

\* What is written behind a path stays behind it.
LEMMA BodyGrows ==
    ASSUME NEW host \in Seq(Symbols), NEW path \in Seq(Symbols), NEW a \in Seq(Symbols),
           NEW b \in Seq(Symbols)
    PROVE  Grows(host, path, a, b)
<1>slash. <<Slash>> \in Seq(Symbols)
    BY Marks
<1> DEFINE mark == <<Slash>>
<1> HIDE DEF mark
<1>mark. mark \in Seq(Symbols)
    BY <1>slash DEF mark
<1>pa. path \o a \in Seq(Symbols)
    OBVIOUS
<1>mpa. mark \o (path \o a) \in Seq(Symbols)
    BY <1>mark, <1>pa
<1>2. (host \o (mark \o (path \o a))) \o b = host \o ((mark \o (path \o a)) \o b)
    <2> DEFINE c == mark \o (path \o a)
    <2>c. c \in Seq(Symbols)
        BY <1>mpa
    <2> HIDE DEF c
    <2>1. (host \o c) \o b = host \o (c \o b)
        BY <2>c, ThreeTexts
    <2> QED BY <2>1 DEF c
<1>3. (mark \o (path \o a)) \o b = mark \o ((path \o a) \o b)
    BY <1>pa, <1>mark, ThreeTexts
<1>4. (path \o a) \o b = path \o (a \o b)
    BY ThreeTexts
<1> QED BY <1>2, <1>3, <1>4 DEF Grows, Body, mark

LEMMA BodySplits ==
    ASSUME NEW host \in Seq(Symbols), NEW path \in Seq(Symbols), NEW a \in Seq(Symbols)
    PROVE  Body(host, path, a) = (host \o (<<Slash>> \o path)) \o a
<1> DEFINE mark == <<Slash>>
<1>mark. mark \in Seq(Symbols)
    BY Marks
<1> HIDE DEF mark
<1>mp. mark \o path \in Seq(Symbols)
    BY <1>mark
<1>1. (host \o (mark \o path)) \o a = host \o ((mark \o path) \o a)
    BY <1>mp, ThreeTexts
<1>2. (mark \o path) \o a = mark \o (path \o a)
    BY <1>mark, ThreeTexts
<1> QED BY <1>1, <1>2 DEF Body, mark

IsTagOf(tag, r) ==
    LET colons == Colons(r, RFind(r, Slash) + 1)
    IN  colons # {} /\ SubSeq(r, Min(colons) + 1, Len(r)) = tag

\* A tag behind a path is found, whatever the host has.
LEMMA TagIsFound ==
    ASSUME NEW host \in Seq(Symbols), NEW path \in Seq(Symbols), NEW tag \in Seq(Symbols),
           host # <<>>, ~ Has(path, {Colon}), ~ Has(tag, Separators)
    PROVE  IsTagOf(tag, Body(host, path, <<Colon>> \o tag))
<1> DEFINE behind == <<Colon>> \o tag
           r == Body(host, path, behind)
           head == host \o (<<Slash>> \o path)
           colons == Colons(r, RFind(r, Slash) + 1)
           m == Len(host) + 1 + Len(path)
<1>0. Len(host) \in Nat /\ Len(path) \in Nat /\ Len(tag) \in Nat
    OBVIOUS
<1>mark. <<Colon>> \in Seq(Symbols) /\ Colon \in Symbols
    BY Marks
<1>behind. behind \in Seq(Symbols)
    BY <1>mark
<1>head. head \in Seq(Symbols) /\ Len(head) = m
    <2>1. <<Slash>> \in Seq(Symbols) /\ Len(<<Slash>>) = 1
        BY Marks
    <2>2. <<Slash>> \o path \in Seq(Symbols) /\ Len(<<Slash>> \o path) = 1 + Len(path)
        BY <2>1
    <2> QED BY <1>0, <2>2
<1>tag. \A k \in 1..Len(tag) : tag[k] # Colon /\ tag[k] # Slash
    BY HasNot DEF Separators
<1>1. ~ Has(behind, {Slash})
    <2>1. ~ Has(<<Colon>>, {Slash})
        BY <1>mark, Marks DEF Has
    <2>2. ~ Has(tag, {Slash})
        BY DEF Has, Separators
    <2> QED BY <1>mark, <2>1, <2>2, NeitherHas
<1> HIDE DEF behind
<1>2. colons = {k \in m + 1..Len(r) : r[k] = Colon}
    <2>1. Behind(Body(host, path, behind), Len(host) + 1 + Len(path))
        BY <1>1, <1>behind, ColonsAre
    <2> QED BY <2>1 DEF Behind
<1>3. r = head \o (<<Colon>> \o tag)
    BY <1>behind, BodySplits DEF behind
<1> HIDE DEF head, r
<1>4. /\ Len(r) = m + 1 + Len(tag)
      /\ r[m + 1] = Colon
      /\ \A k \in 1..Len(tag) : r[m + 1 + k] = tag[k]
      /\ SubSeq(r, m + 2, Len(r)) = tag
    <2>1. head \in Seq(Symbols)
        BY <1>head
    <2>2. /\ Len(r) = Len(head) + 1 + Len(tag)
          /\ r[Len(head) + 1] = Colon
          /\ \A k \in 1..Len(tag) : r[Len(head) + 1 + k] = tag[k]
          /\ SubSeq(r, Len(head) + 2, Len(r)) = tag
        BY <1>3, <1>mark, <2>1, CutAt
    <2> QED BY <1>head, <2>2
<1> HIDE DEF colons
<1>5. ASSUME NEW k \in m + 2..Len(r) PROVE r[k] # Colon
    <2>1. k - (m + 1) \in 1..Len(tag) /\ m + 1 + (k - (m + 1)) = k
        BY <1>0, <1>4
    <2>2. r[m + 1 + (k - (m + 1))] = tag[k - (m + 1)]
        BY <1>4, <2>1
    <2> QED BY <1>tag, <2>1, <2>2
<1>6. m + 1 \in colons /\ \A y \in colons : m + 1 <= y
    BY <1>0, <1>2, <1>4
<1>7. Min(colons) = m + 1
    <2>1. colons \subseteq Int
        BY <1>0, <1>2
    <2> QED BY <1>6, <2>1, LeastIs
<1>8. (m + 1) + 1 = m + 2
    BY <1>0
<1>9. colons # {} /\ SubSeq(r, Min(colons) + 1, Len(r)) = tag
    BY <1>4, <1>6, <1>7, <1>8
<1> QED BY <1>9 DEF IsTagOf, colons, r, behind

\* Without a tag there is none to find, whatever the host has.
LEMMA NoTagIsFound ==
    ASSUME NEW host \in Seq(Symbols), NEW path \in Seq(Symbols),
           host # <<>>, ~ Has(path, {Colon})
    PROVE  LET r == Body(host, path, <<>>) IN Colons(r, RFind(r, Slash) + 1) = {}
<1> DEFINE r == Body(host, path, <<>>)
           m == Len(host) + 1 + Len(path)
<1>0. Len(host) \in Nat /\ Len(path) \in Nat /\ Len(<<>>) = 0
    OBVIOUS
<1>empty. <<>> \in Seq(Symbols)
    OBVIOUS
<1>1. ~ Has(<<>>, {Slash})
    BY DEF Has
<1>2. Colons(r, RFind(r, Slash) + 1) = {k \in m + 1..Len(r) : r[k] = Colon}
    <2>1. Behind(Body(host, path, <<>>), Len(host) + 1 + Len(path))
        BY <1>empty, <1>1, ColonsAre
    <2> QED BY <2>1 DEF Behind
<1>3. Len(r) = m + 0
    <2>1. Len(r) = Len(host) + 1 + Len(path) + Len(<<>>)
        BY <1>empty, BodyIs DEF IsBody
    <2> QED BY <1>0, <2>1
<1> HIDE DEF r
<1>4. {k \in m + 1..Len(r) : r[k] = Colon} = {}
    BY <1>0, <1>3
<1> QED BY <1>2, <1>4 DEF r

-----------------------------------------------------------------------------
\* What the parts of a reference are.
LEMMA PartsAre ==
    ASSUME NEW w, IsReference(w)
    PROVE  /\ w.host \in Seq(Symbols) /\ w.path \in Seq(Symbols)
           /\ w.tag \in Seq(Symbols) /\ w.digest \in Seq(Symbols)
           /\ w.host # <<>> /\ ~ Has(w.host, {Slash}) /\ ~ Has(w.host, {AtSign})
           /\ w.path # <<>> /\ ~ Has(w.path, {Colon, AtSign})
           /\ ~ Has(w.path, {Colon}) /\ ~ Has(w.path, {AtSign})
           /\ ~ Has(w.tag, Separators)
           /\ Head(w.host) # Oci /\ Head(w.host) # Slash
<1>1. /\ w.host \in Seq(Symbols) /\ w.path \in Seq(Symbols)
      /\ w.tag \in Seq(Symbols) /\ w.digest \in Seq(Symbols)
    BY DEF IsReference
<1>2. /\ w.host # <<>> /\ ~ Has(w.host, {Slash, AtSign}) /\ w.path # <<>>
      /\ ~ Has(w.path, {Colon, AtSign}) /\ ~ Has(w.tag, Separators) /\ Head(w.host) # Oci
    BY DEF IsReference
<1>3. /\ ~ Has(w.host, {Slash}) /\ ~ Has(w.host, {AtSign})
      /\ ~ Has(w.path, {Colon}) /\ ~ Has(w.path, {AtSign})
    BY <1>2 DEF Has
<1>4. Head(w.host) # Slash
    <2>1. 1 \in DOMAIN w.host /\ Head(w.host) = w.host[1]
        BY <1>1, <1>2
    <2> QED BY <1>3, <2>1 DEF Has
<1> QED BY <1>1, <1>2, <1>3, <1>4

\* The scheme of a reference is taken off.
LEMMA ReferenceIs ==
    ASSUME NEW w, IsReference(w),
           NEW behind \in Seq(Symbols),
           behind = Marked(Colon, Suffixed(w.tag, w.platform)) \o Marked(AtSign, w.digest)
    PROVE  Stripped(TextOf(w)) = Body(w.host, w.path, behind)
<1> DEFINE body == Body(w.host, w.path, behind)
<1>host. w.host \in Seq(Symbols)
    BY PartsAre
<1>path. w.path \in Seq(Symbols)
    BY PartsAre
<1>1. w.host # <<>> /\ Head(w.host) # Oci /\ Head(w.host) # Slash
    BY PartsAre
<1>2. body \in Seq(Symbols) /\ body # <<>> /\ Head(body) = Head(w.host)
    <2> DEFINE host == w.host
               path == w.path
    <2>1. host \in Seq(Symbols)
        BY <1>host
    <2>2. path \in Seq(Symbols)
        BY <1>path
    <2>3. host # <<>>
        BY <1>1
    <2> HIDE DEF host, path
    <2>4. IsBody(Body(host, path, behind), host, path, behind)
        BY <2>1, <2>2, <2>3, BodyIs
    <2> QED BY <2>4 DEF IsBody, host, path
<1>3. TextOf(w) = w.scheme \o body
    BY DEF TextOf, Body
<1> HIDE DEF body
<1>4. w.scheme \in {<<>>, <<Oci>>, <<Oci, Slash, Slash>>}
    BY DEF IsReference
<1>5. Stripped(w.scheme \o body) = body
    <2>1. body \in Seq(Symbols)
        BY <1>2
    <2>2. body # <<>> /\ Head(body) # Oci /\ Head(body) # Slash
        BY <1>1, <1>2
    <2> QED BY <1>4, <2>1, <2>2, StrippedIs
<1> QED BY <1>3, <1>5 DEF body

\* A platform's name and a suffix are no separators.
LEMMA SuffixesAreNames ==
    ASSUME NEW tag \in Seq(Symbols), ~ Has(tag, Separators),
           NEW s \in PLATFORM_SUFFIX_TOKENS
    PROVE  /\ Suffixed(tag, s) \in Seq(Symbols) /\ Suffixed(tag, s) # <<>>
           /\ ~ Has(Suffixed(tag, s), Separators)
<1>1. s \in Symbols /\ s \notin Separators /\ s # NoSuffix
    BY SuffixesAreKnown DEF Names
<1>2. CASE tag = <<>>
    <2>1. Suffixed(tag, s) = <<s>>
        BY <1>1, <1>2 DEF Suffixed
    <2>2. ~ Has(<<s>>, Separators)
        BY <1>1 DEF Has
    <2> QED BY <1>1, <2>1, <2>2
<1>3. CASE tag # <<>>
    <2> DEFINE suffix == <<Dash, s>>
    <2>1. suffix \in Seq(Symbols) /\ Len(suffix) = 2
        BY <1>1, Marks
    <2>suffix. suffix \in Seq(Symbols)
        BY <2>1
    <2>2. ~ Has(suffix, Separators)
        <3>1. \A i \in 1..2 : i = 1 \/ i = 2
            OBVIOUS
        <3> QED BY <1>1, <3>1, Marks DEF Has
    <2>3. Suffixed(tag, s) = tag \o suffix
        BY <1>1, <1>3 DEF Suffixed
    <2> HIDE DEF suffix
    <2>4. ~ Has(tag \o suffix, Separators)
        BY <2>suffix, <2>2, NeitherHas
    <2>5. tag \o suffix \in Seq(Symbols) /\ Len(tag \o suffix) = Len(tag) + Len(suffix)
        BY <2>suffix, TwoTexts
    <2>6. tag \o suffix # <<>>
        <3>1. Len(tag) \in Nat /\ Len(suffix) = 2 /\ Len(<<>>) = 0
            BY <2>1
        <3> QED BY <2>5, <3>1
    <2> QED BY <2>3, <2>4, <2>5, <2>6
<1> QED BY <1>2, <1>3

\* A name and a tag behind a colon are read as such.
LEMMA TagIsRead ==
    ASSUME NEW w, IsReference(w), NEW ref \in Seq(Symbols), ref # <<>>, ~ Has(ref, Separators)
    PROVE  Parse(Body(w.host, w.path, <<Colon>> \o ref))
               = [host |-> w.host, repository |-> w.path, reference |-> ref]
<1>1. ~ Has(ref, {Colon, AtSign})
    BY DEF Has, Separators
<1>host. w.host \in Seq(Symbols)
    BY PartsAre
<1>path. w.path \in Seq(Symbols)
    BY PartsAre
<1>2. w.host # <<>> /\ ~ Has(w.host, {Slash}) /\ w.path # <<>> /\ ~ Has(w.path, {Colon, AtSign})
    BY PartsAre
<1>3. Colon \in {Colon, AtSign}
    OBVIOUS
<1>4. Parse(w.host \o (<<Slash>> \o (w.path \o (<<Colon>> \o ref))))
          = [host |-> w.host, repository |-> w.path, reference |-> ref]
    BY <1>host, <1>path, <1>1, <1>2, <1>3, ParsedIs
<1> QED BY <1>4 DEF Body

\* Without a digest there is no at sign.
LEMMA NoDigestIsSeen ==
    ASSUME NEW host \in Seq(Symbols), NEW path \in Seq(Symbols), NEW behind \in Seq(Symbols),
           ~ Has(host, {AtSign}), ~ Has(path, {AtSign}), ~ Has(behind, {AtSign})
    PROVE  ~ Contains(Body(host, path, behind), AtSign)
<1> DEFINE mark == <<Slash>>
           rest == path \o behind
           tail == mark \o rest
           t == host \o tail
<1>mark. mark \in Seq(Symbols)
    BY Marks
<1>1. ~ Has(mark, {AtSign})
    BY Marks DEF Has
<1> HIDE DEF mark
<1>2. ~ Has(rest, {AtSign})
    BY NeitherHas
<1>rest. rest \in Seq(Symbols)
    OBVIOUS
<1> HIDE DEF rest
<1>3. ~ Has(tail, {AtSign})
    BY <1>mark, <1>rest, <1>1, <1>2, NeitherHas
<1>tail. tail \in Seq(Symbols)
    BY <1>mark, <1>rest
<1> HIDE DEF tail
<1>4. ~ Has(t, {AtSign})
    BY <1>tail, <1>3, NeitherHas
<1>5. t \in Seq(Symbols)
    BY <1>tail
<1> HIDE DEF t
<1>6. \A k \in 1..Len(t) : t[k] # AtSign
    BY <1>4, <1>5 DEF Has
<1>7. t = Body(host, path, behind)
    BY DEF Body, t, tail, rest, mark
<1> QED BY <1>6, <1>7 DEF Contains

-----------------------------------------------------------------------------
\* The texts of a reference are read as the artefacts meant, one by one.
LEMMA OneIsRead ==
    ASSUME NEW w, NEW floating, NEW tag, NEW platform, NEW text,
           CandidateTexts(TextOf(w), floating) = <<text>>,
           Candidates(SourceOf(w), <<floating>>) = <<At(<<w.host, w.path>>, tag, platform)>>,
           Parse(text) = [host |-> w.host, repository |-> w.path,
                          reference |-> Suffixed(tag, platform)]
    PROVE  ReadAsMeant(w, floating)
<1>1. \A i \in DOMAIN <<At(<<w.host, w.path>>, tag, platform)>> : i = 1
    OBVIOUS
<1> QED BY <1>1 DEF ReadAsMeant, At

LEMMA TwoAreRead ==
    ASSUME NEW w, NEW floating, NEW tag, NEW one, NEW two,
           CandidateTexts(TextOf(w), floating) = <<one, two>>,
           Candidates(SourceOf(w), <<floating>>)
               = <<At(<<w.host, w.path>>, tag, Platform), At(<<w.host, w.path>>, tag, Portable)>>,
           Parse(one) = [host |-> w.host, repository |-> w.path,
                         reference |-> Suffixed(tag, Platform)],
           Parse(two) = [host |-> w.host, repository |-> w.path,
                         reference |-> Suffixed(tag, Portable)]
    PROVE  ReadAsMeant(w, floating)
<1>1. \A i \in DOMAIN <<At(<<w.host, w.path>>, tag, Platform), At(<<w.host, w.path>>, tag, Portable)>> :
          i = 1 \/ i = 2
    OBVIOUS
<1> QED BY <1>1 DEF ReadAsMeant, At

\* A digest names the artefact.
LEMMA DigestIsMeant ==
    ASSUME NEW w, IsReference(w), NEW floating \in Names,
           w.digest # <<>>, w.tag = <<>>, w.platform = NoSuffix
    PROVE  ReadAsMeant(w, floating)
<1> DEFINE host == w.host
           path == w.path
           digest == w.digest
           behind == <<AtSign>> \o digest
           text == Body(host, path, behind)
<1>host. host \in Seq(Symbols)
    BY PartsAre
<1>path. path \in Seq(Symbols)
    BY PartsAre
<1>digest. digest \in Seq(Symbols)
    BY PartsAre
<1>1. host # <<>> /\ ~ Has(host, {Slash}) /\ path # <<>> /\ ~ Has(path, {Colon, AtSign})
    BY PartsAre
<1>behind. behind \in Seq(Symbols)
    BY <1>digest, Marks
<1>2. behind = Marked(Colon, Suffixed(w.tag, w.platform)) \o Marked(AtSign, w.digest)
    BY <1>behind DEF Marked, Suffixed
<1>3. Stripped(TextOf(w)) = text
    <2> HIDE DEF behind
    <2> QED BY <1>behind, <1>2, ReferenceIs
<1>4. Contains(text, AtSign)
    <2> HIDE DEF host, path, digest
    <2>1. behind[1] = AtSign /\ Len(behind) = 1 + Len(digest) /\ Len(digest) \in Nat
        BY <1>digest, Marks
    <2> HIDE DEF behind
    <2>2. /\ text \in Seq(Symbols)
          /\ Len(text) = Len(host) + 1 + Len(path) + Len(behind)
          /\ \A k \in 1..Len(behind) : text[Len(host) + 1 + Len(path) + k] = behind[k]
        <3>1. IsBody(text, host, path, behind)
            BY <1>host, <1>path, <1>behind, <1>1, BodyIs
        <3> HIDE DEF text
        <3> QED BY <3>1 DEF IsBody
    <2> HIDE DEF text
    <2>3. Len(host) \in Nat /\ Len(path) \in Nat
        BY <1>host, <1>path
    <2>4. Len(host) + 1 + Len(path) + 1 \in 1..Len(text) /\ 1 \in 1..Len(behind)
        BY <2>1, <2>2, <2>3
    <2> QED BY <2>1, <2>2, <2>4 DEF Contains
<1>5. CandidateTexts(TextOf(w), floating) = <<text>>
    <2> HIDE DEF text
    <2> QED BY <1>3, <1>4 DEF CandidateTexts, Resolved
<1>6. Candidates(SourceOf(w), <<floating>>) = <<At(<<host, path>>, digest, NoSuffix)>>
    BY DEF Candidates, SourceOf
<1>7. Parse(text) = [host |-> host, repository |-> path, reference |-> digest]
    <2> HIDE DEF host, path, digest
    <2>1. digest # <<>>
        BY DEF digest
    <2>2. AtSign \in {Colon, AtSign} /\ AtSign # Colon
        BY Marks
    <2>3. Parse(host \o (<<Slash>> \o (path \o (<<AtSign>> \o digest))))
              = [host |-> host, repository |-> path, reference |-> digest]
        BY <1>host, <1>path, <1>digest, <1>1, <2>1, <2>2, ParsedIs
    <2> QED BY <2>3 DEF Body
<1>8. Suffixed(digest, NoSuffix) = digest
    BY DEF Suffixed
<1> HIDE DEF text
<1> QED BY <1>5, <1>6, <1>7, <1>8, OneIsRead

\* Behind a path without a digest stands the tag, if there is one.
LEMMA TaggedTextIs ==
    ASSUME NEW w, IsReference(w), w.digest = <<>>,
           NEW tag \in Seq(Symbols), tag = Suffixed(w.tag, w.platform), tag # <<>>,
           ~ Has(tag, Separators), NEW floating
    PROVE  CandidateTexts(TextOf(w), floating)
               = LET r == Body(w.host, w.path, <<Colon>> \o tag)
                 IN  IF HasPlatformSuffix(tag) THEN <<r>>
                     ELSE <<r \o <<Dash, Platform>>, r \o <<Dash, Portable>>>>
<1> DEFINE host == w.host
           path == w.path
           behind == <<Colon>> \o tag
           r == Body(host, path, behind)
           colons == Colons(r, RFind(r, Slash) + 1)
<1>host. host \in Seq(Symbols)
    BY PartsAre
<1>path. path \in Seq(Symbols)
    BY PartsAre
<1>1. host # <<>> /\ ~ Has(host, {AtSign}) /\ ~ Has(path, {AtSign}) /\ ~ Has(path, {Colon})
    BY PartsAre
<1>behind. behind \in Seq(Symbols)
    BY Marks
<1>2. behind = Marked(Colon, Suffixed(w.tag, w.platform)) \o Marked(AtSign, w.digest)
    BY <1>behind DEF Marked
<1>3. ~ Has(behind, {AtSign})
    <2>1. ~ Has(<<Colon>>, {AtSign})
        BY Marks DEF Has
    <2>2. ~ Has(tag, {AtSign})
        BY DEF Has, Separators
    <2>3. <<Colon>> \in Seq(Symbols)
        BY Marks
    <2> QED BY <2>1, <2>2, <2>3, NeitherHas
<1>4. Stripped(TextOf(w)) = r
    <2> HIDE DEF behind
    <2> QED BY <1>behind, <1>2, ReferenceIs
<1> HIDE DEF host, path
<1>5. colons # {} /\ SubSeq(r, Min(colons) + 1, Len(r)) = tag
    <2>1. IsTagOf(tag, Body(host, path, <<Colon>> \o tag))
        BY <1>host, <1>path, <1>1, TagIsFound
    <2> QED BY <2>1 DEF IsTagOf
<1> HIDE DEF behind
<1>6. ~ Contains(r, AtSign)
    BY <1>host, <1>path, <1>behind, <1>1, <1>3, NoDigestIsSeen
<1>7. CandidateTexts(TextOf(w), floating)
          = IF HasPlatformSuffix(tag) THEN <<r>>
            ELSE <<r \o <<Dash, Platform>>, r \o <<Dash, Portable>>>>
    <2>1. CandidateTexts(TextOf(w), floating) = Resolved(r, colons, floating)
        <3> HIDE DEF r
        <3> QED BY <1>4 DEF CandidateTexts
    <2> HIDE DEF r, colons
    <2> QED BY <1>5, <1>6, <2>1 DEF Resolved
<1> QED BY <1>7 DEF r, behind, host, path

\* A tag that names a platform is one artefact.
LEMMA PlatformIsMeant ==
    ASSUME NEW w, IsReference(w), w.digest = <<>>, w.platform # NoSuffix, NEW floating \in Names
    PROVE  ReadAsMeant(w, floating)
<1> DEFINE tag == w.tag
           platform == w.platform
           ref == Suffixed(tag, platform)
           text == Body(w.host, w.path, <<Colon>> \o ref)
<1>tag. tag \in Seq(Symbols) /\ ~ Has(tag, Separators)
    BY PartsAre
<1>platform. platform \in PLATFORM_SUFFIX_TOKENS
    BY DEF IsReference
<1>1. /\ ref \in Seq(Symbols) /\ ref # <<>> /\ ~ Has(ref, Separators)
      /\ HasPlatformSuffix(ref)
    <2> HIDE DEF tag, platform
    <2>1. tag \in Seq(Symbols)
        BY <1>tag
    <2>2. ~ Has(tag, Separators)
        BY <1>tag
    <2> QED BY <1>platform, <2>1, <2>2, SuffixesAreNames, SuffixIsSeen
<1>ref. ref \in Seq(Symbols)
    BY <1>1
<1>2. ref = Suffixed(w.tag, w.platform)
    OBVIOUS
<1> HIDE DEF ref
<1>3. CandidateTexts(TextOf(w), floating) = <<text>>
    BY <1>ref, <1>1, <1>2, TaggedTextIs
<1>4. Candidates(SourceOf(w), <<floating>>) = <<At(<<w.host, w.path>>, w.tag, w.platform)>>
    BY DEF Candidates, SourceOf
<1>5. Parse(text) = [host |-> w.host, repository |-> w.path, reference |-> ref]
    BY <1>ref, <1>1, TagIsRead
<1> HIDE DEF text
<1> QED BY <1>2, <1>3, <1>4, <1>5, OneIsRead

\* A bare tag is one artefact of each platform.
LEMMA BareTagIsMeant ==
    ASSUME NEW w, IsReference(w), w.digest = <<>>, w.platform = NoSuffix, w.tag # <<>>,
           NEW floating \in Names
    PROVE  ReadAsMeant(w, floating)
<1> DEFINE host == w.host
           path == w.path
           tag == w.tag
           body == Body(host, path, <<Colon>> \o tag)
<1>host. host \in Seq(Symbols)
    BY PartsAre
<1>path. path \in Seq(Symbols)
    BY PartsAre
<1>tag. tag \in Seq(Symbols)
    BY PartsAre
<1>1. tag # <<>> /\ ~ Has(tag, Separators) /\ tag = Suffixed(w.tag, w.platform)
    BY PartsAre DEF Suffixed
<1>2. ~ HasPlatformSuffix(tag)
    <2>1. \A s \in PLATFORM_SUFFIX_TOKENS : ~ EndsIn(tag, s)
        BY DEF IsReference
    <2> HIDE DEF tag
    <2> QED BY <1>tag, <2>1, NoSuffixIsSeen
<1> HIDE DEF tag
<1>3. CandidateTexts(TextOf(w), floating)
          = <<body \o <<Dash, Platform>>, body \o <<Dash, Portable>>>>
    BY <1>tag, <1>1, <1>2, TaggedTextIs DEF host, path
<1>4. Candidates(SourceOf(w), <<floating>>)
          = <<At(<<w.host, w.path>>, tag, Platform), At(<<w.host, w.path>>, tag, Portable)>>
    BY DEF Candidates, SourceOf, tag
<1>5. ASSUME NEW P \in Platforms
      PROVE  Parse(body \o <<Dash, P>>)
                 = [host |-> w.host, repository |-> w.path, reference |-> Suffixed(tag, P)]
    <2>P. P \in PLATFORM_SUFFIX_TOKENS
        BY SuffixesAreKnown
    <2>1. /\ Suffixed(tag, P) \in Seq(Symbols) /\ Suffixed(tag, P) # <<>>
          /\ ~ Has(Suffixed(tag, P), Separators)
        BY <1>tag, <1>1, <2>P, SuffixesAreNames
    <2>2. Suffixed(tag, P) = tag \o <<Dash, P>>
        BY <1>1, <2>P, SuffixesAreKnown DEF Suffixed
    <2> DEFINE colon == <<Colon>>
               suffix == <<Dash, P>>
               behind == colon \o tag
    <2>3. P \in Symbols
        BY <2>P, SuffixesAreKnown DEF Names
    <2>colon. colon \in Seq(Symbols)
        BY Marks
    <2>suffix. suffix \in Seq(Symbols)
        BY <2>3, Marks
    <2> HIDE DEF colon, suffix
    <2>behind. behind \in Seq(Symbols)
        BY <1>tag, <2>colon
    <2>4. behind \o suffix = colon \o (tag \o suffix)
        BY <1>tag, <2>colon, <2>suffix, ThreeTexts
    <2> HIDE DEF behind, host, path
    <2>5. Body(host, path, behind) \o suffix = Body(host, path, behind \o suffix)
        <3>1. Grows(host, path, behind, suffix)
            BY <1>host, <1>path, <2>behind, <2>suffix, BodyGrows
        <3> QED BY <3>1 DEF Grows
    <2>6. body \o <<Dash, P>> = Body(w.host, w.path, <<Colon>> \o Suffixed(tag, P))
        BY <2>2, <2>4, <2>5 DEF behind, suffix, colon, host, path
    <2> DEFINE ref == Suffixed(tag, P)
    <2> HIDE DEF ref
    <2>ref. ref \in Seq(Symbols)
        BY <2>1 DEF ref
    <2>7. ref # <<>> /\ ~ Has(ref, Separators)
        BY <2>1 DEF ref
    <2>8. Parse(Body(w.host, w.path, <<Colon>> \o ref))
              = [host |-> w.host, repository |-> w.path, reference |-> ref]
        BY <2>ref, <2>7, TagIsRead
    <2> QED BY <2>6, <2>8 DEF ref
<1>6. Platform \in Platforms /\ Portable \in Platforms
    BY DEF Platforms
<1> DEFINE one == body \o <<Dash, Platform>>
           two == body \o <<Dash, Portable>>
<1>7. Parse(one) = [host |-> w.host, repository |-> w.path, reference |-> Suffixed(tag, Platform)]
    BY <1>5, <1>6
<1>8. Parse(two) = [host |-> w.host, repository |-> w.path, reference |-> Suffixed(tag, Portable)]
    BY <1>5, <1>6
<1>9. CandidateTexts(TextOf(w), floating) = <<one, two>>
    BY <1>3
<1> HIDE DEF one, two
<1> QED BY <1>4, <1>7, <1>8, <1>9, TwoAreRead

\* Without a tag the floating one is taken.
LEMMA FloatingIsMeant ==
    ASSUME NEW w, IsReference(w), w.digest = <<>>, w.platform = NoSuffix, w.tag = <<>>,
           NEW floating \in Names
    PROVE  ReadAsMeant(w, floating)
<1> DEFINE host == w.host
           path == w.path
           tag == <<floating>>
           body == Body(host, path, <<>>)
<1>host. host \in Seq(Symbols)
    BY PartsAre
<1>path. path \in Seq(Symbols)
    BY PartsAre
<1>1. host # <<>> /\ ~ Has(host, {AtSign}) /\ ~ Has(path, {AtSign}) /\ ~ Has(path, {Colon})
    BY PartsAre
<1>tag. tag \in Seq(Symbols)
    BY DEF Names
<1>2. tag # <<>> /\ ~ Has(tag, Separators)
    BY DEF Names, Has
<1>empty. <<>> \in Seq(Symbols)
    OBVIOUS
<1>3. Stripped(TextOf(w)) = body
    <2>1. <<>> = Marked(Colon, Suffixed(w.tag, w.platform)) \o Marked(AtSign, w.digest)
        BY DEF Marked, Suffixed
    <2> QED BY <1>empty, <2>1, ReferenceIs
<1> HIDE DEF host, path
<1>4. Colons(body, RFind(body, Slash) + 1) = {}
    BY <1>host, <1>path, <1>1, NoTagIsFound
<1>5. ~ Contains(body, AtSign)
    <2>1. ~ Has(<<>>, {AtSign})
        BY DEF Has
    <2> QED BY <1>host, <1>path, <1>empty, <1>1, <2>1, NoDigestIsSeen
<1> HIDE DEF body
<1>6. CandidateTexts(TextOf(w), floating)
          = <<body \o <<Colon, floating, Dash, Platform>>, body \o <<Colon, floating, Dash, Portable>>>>
    BY <1>3, <1>4, <1>5 DEF CandidateTexts, Resolved
<1>7. Candidates(SourceOf(w), <<floating>>)
          = <<At(<<w.host, w.path>>, tag, Platform), At(<<w.host, w.path>>, tag, Portable)>>
    BY DEF Candidates, SourceOf
<1>8. ASSUME NEW P \in Platforms
      PROVE  Parse(body \o <<Colon, floating, Dash, P>>)
                 = [host |-> w.host, repository |-> w.path, reference |-> Suffixed(tag, P)]
    <2>P. P \in PLATFORM_SUFFIX_TOKENS
        BY SuffixesAreKnown
    <2>1. Suffixed(tag, P) = <<floating, Dash, P>>
        <3>1. P # NoSuffix /\ tag # <<>>
            BY <2>P, SuffixesAreKnown
        <3>2. Suffixed(tag, P) = tag \o <<Dash, P>>
            <4> HIDE DEF tag
            <4> QED BY <3>1 DEF Suffixed
        <3>3. <<floating>> \o <<Dash, P>> = <<floating, Dash, P>>
            <4>1. P \in Symbols /\ Dash \in Symbols /\ floating \in Symbols
                BY <2>P, SuffixesAreKnown, Marks DEF Names
            <4> QED BY <4>1, ThreeMarks
        <3> QED BY <3>2, <3>3
    <2> DEFINE ref == Suffixed(tag, P)
    <2> HIDE DEF tag
    <2>2. ref \in Seq(Symbols) /\ ref # <<>> /\ ~ Has(ref, Separators)
        BY <1>tag, <1>2, <2>P, SuffixesAreNames
    <2>ref. ref \in Seq(Symbols)
        BY <2>2
    <2>3. <<Colon, floating, Dash, P>> = <<Colon>> \o ref
        BY <2>1
    <2> HIDE DEF ref
    <2> DEFINE behind == <<Colon>> \o ref
    <2>behind. behind \in Seq(Symbols)
        BY <2>ref, Marks
    <2>4. <<>> \o behind = behind
        BY <2>behind
    <2> HIDE DEF behind
    <2>5. Body(host, path, <<>>) \o behind = Body(host, path, <<>> \o behind)
        <3>1. Grows(host, path, <<>>, behind)
            BY <1>host, <1>path, <1>empty, <2>behind, BodyGrows
        <3> QED BY <3>1 DEF Grows
    <2>6. Parse(Body(w.host, w.path, <<Colon>> \o ref))
              = [host |-> w.host, repository |-> w.path, reference |-> ref]
        BY <2>ref, <2>2, TagIsRead
    <2> QED BY <2>3, <2>4, <2>5, <2>6 DEF ref, behind, body, host, path
<1>9. Platform \in Platforms /\ Portable \in Platforms
    BY DEF Platforms
<1> DEFINE one == body \o <<Colon, floating, Dash, Platform>>
           two == body \o <<Colon, floating, Dash, Portable>>
<1> HIDE DEF tag
<1>10. Parse(one) = [host |-> w.host, repository |-> w.path, reference |-> Suffixed(tag, Platform)]
    BY <1>8, <1>9
<1>11. Parse(two) = [host |-> w.host, repository |-> w.path, reference |-> Suffixed(tag, Portable)]
    BY <1>8, <1>9
<1>12. CandidateTexts(TextOf(w), floating) = <<one, two>>
    BY <1>6
<1> HIDE DEF one, two
<1> QED BY <1>7, <1>10, <1>11, <1>12, TwoAreRead

\* Every reference is read as its author means it.
THEOREM ReferencesAreMeant ==
    ASSUME NEW w, IsReference(w), ~ TaggedDigest(w), NEW floating \in Names
    PROVE  ReadAsMeant(w, floating)
<1>1. CASE w.digest # <<>>
    <2>1. Suffixed(w.tag, w.platform) = <<>>
        BY <1>1 DEF TaggedDigest
    <2>2. w.tag \in Seq(Symbols) /\ ~ Has(w.tag, Separators)
        BY PartsAre
    <2>3. w.platform = NoSuffix
        <3>1. SUFFICES ASSUME w.platform # NoSuffix PROVE FALSE
            OBVIOUS
        <3> DEFINE tag == w.tag
                   platform == w.platform
        <3>2. platform \in PLATFORM_SUFFIX_TOKENS
            BY <3>1 DEF IsReference
        <3>3. tag \in Seq(Symbols)
            BY <2>2
        <3>4. ~ Has(tag, Separators)
            BY <2>2
        <3> HIDE DEF tag, platform
        <3>5. Suffixed(tag, platform) # <<>>
            BY <3>2, <3>3, <3>4, SuffixesAreNames
        <3> QED BY <2>1, <3>5 DEF tag, platform
    <2>4. w.tag = <<>>
        BY <2>1, <2>3 DEF Suffixed
    <2> QED BY <1>1, <2>3, <2>4, DigestIsMeant
<1>2. CASE w.digest = <<>>
    BY <1>2, PlatformIsMeant, BareTagIsMeant, FloatingIsMeant
<1> QED BY <1>1, <1>2

\* Every reference of every config is read as meant, whatever is blessed.
THEOREM ReferencesAreAlwaysRead == Spec => []ReferencesAreRead
<1>1. TypeOK => ReferencesAreRead
    <2> SUFFICES ASSUME TypeOK PROVE ReferencesAreRead
        OBVIOUS
    <2>1. release \in Releases /\ release.floating \in Names
        BY SuffixesAreKnown DEF TypeOK
    <2>2. ASSUME NEW w \in References PROVE TaggedDigest(w) \/ ReadAsMeant(w, release.floating)
        <3>1. IsReference(w)
            BY ReferencesAreWritten
        <3> QED BY <2>1, <3>1, ReferencesAreMeant
    <2> DEFINE read(r) == \A w \in References : TaggedDigest(w) \/ ReadAsMeant(w, r.floating)
    <2>3. read(release) = TRUE
        BY <2>2
    <2> HIDE DEF read
    <2>4. <<release, TRUE>> \in {<<r, read(r)>> : r \in Releases}
        BY <2>1, <2>3
    <2> QED BY <2>4 DEF ReferencesAreRead, Readings, read
<1> QED BY <1>1, TypeCorrect, PTL
=============================================================================
