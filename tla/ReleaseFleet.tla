----------------------------- MODULE ReleaseFleet -----------------------------
(***************************************************************************)
(* The release managed gateways are built from, the registry their plugins *)
(* come from, and the gateways that enroll.                                *)
(*                                                                         *)
(* A platform admin blesses releases (the newest row of platform_releases  *)
(* is current), artefacts are pushed, replaced and withdrawn at any time,  *)
(* the registry may be out of reach, a tenant's sources are judged at      *)
(* publish and at redeploy, and gateways report the build they run.        *)
(***************************************************************************)
EXTENDS GatewayBuild, PluginLayout

CONSTANTS
    Gateways,    \* gateways that enroll
    Releases,    \* [version, layout, floating] an admin may bless
    Layouts,     \* ABI layouts
    Published,   \* the names artefacts are published under
    Configs,     \* the plugin sources of a config, in order
    NotThere     \* no artefact of that name

Packaged == [layout : Layouts, recorded : BOOLEAN]

ASSUME FleetAssumption ==
    /\ Releases \subseteq [version : Version, layout : Layouts, floating : Tags]
    /\ Configs \subseteq Seq(Source)
    /\ Published \subseteq Artefact
    /\ NotThere \notin Packaged

VARIABLES
    release,     \* the blessed release
    registry,    \* the artefact each name holds
    readable,    \* whether the registry answers
    judged,      \* the last assessment, until the release or registry moves
    fleet        \* what each gateway reports and whether it is admitted

vars == <<release, registry, readable, judged, fleet>>

NotJudged ==
    [sources |-> <<>>,
     verdict |-> [outcomes |-> <<>>, violations |-> {}, warnings |-> {}]]

Init ==
    /\ release \in Releases
    /\ registry = [a \in Artefact |-> NotThere]
    /\ readable = TRUE
    /\ judged = NotJudged
    /\ fleet = [g \in Gateways |-> [build |-> NotAVersion, admitted |-> FALSE]]

-----------------------------------------------------------------------------
(***************************************************************************)
(* The surroundings: the admin, the publishers of plugins, the registry.   *)
(***************************************************************************)
Bless(r) ==
    /\ release' = r
    /\ judged' = NotJudged
    /\ UNCHANGED <<registry, readable, fleet>>

Push(a, p) ==
    /\ registry' = [registry EXCEPT ![a] = p]
    /\ judged' = NotJudged
    /\ UNCHANGED <<release, readable, fleet>>

Withdraw(a) ==
    /\ registry[a] # NotThere
    /\ registry' = [registry EXCEPT ![a] = NotThere]
    /\ judged' = NotJudged
    /\ UNCHANGED <<release, readable, fleet>>

Outage ==
    /\ readable' = ~readable
    /\ UNCHANGED <<release, registry, judged, fleet>>

-----------------------------------------------------------------------------
(***************************************************************************)
(* The control plane.                                                      *)
(***************************************************************************)
\* The control plane's read of one source: the first candidate there is.
Probe(src) ==
    LET tried == Candidates(src, release.floating)
        there == {i \in DOMAIN tried : registry[tried[i]] # NotThere}
    IN  IF ~readable THEN Unreadable
        ELSE IF there = {} THEN Missing
        ELSE LET p == registry[tried[CHOOSE i \in there : \A j \in there : i <= j]]
             IN  IF p.recorded THEN Recorded(p.layout) ELSE NotRecorded

\* A release from before the overflow split is refused whatever the config.
Publish(sources) ==
    /\ ~BeforeSplit(release.version)
    /\ judged' =
          [sources |-> sources,
           verdict |-> Assess(sources, [i \in DOMAIN sources |-> Probe(sources[i])],
                              release.layout)]
    /\ UNCHANGED <<release, registry, readable, fleet>>

\* overflow_split_refusal at enrollment.
Enroll(g, v) ==
    /\ fleet' = [fleet EXCEPT ![g] = [build |-> v, admitted |-> ~BeforeSplit(v)]]
    /\ UNCHANGED <<release, registry, readable, judged>>

Next ==
    \/ \E r \in Releases : Bless(r)
    \/ \E a \in Published :
          \/ \E p \in Packaged : Push(a, p)
          \/ Withdraw(a)
    \/ Outage
    \/ \E sources \in Configs : Publish(sources)
    \/ \E g \in Gateways, v \in Versions \cup {NotAVersion} : Enroll(g, v)

Spec == Init /\ [][Next]_vars

-----------------------------------------------------------------------------
(***************************************************************************)
(* What a gateway does with the same source at boot.                       *)
(***************************************************************************)
\* The artefact a gateway of this release fetches, if any.
Fetched(src) ==
    LET tag == IF src.pin = "none" THEN release.floating ELSE src.tag
        on(platform) == At(src.repo, tag, platform)
        first == IF src.pin = "written" THEN on(src.platform) ELSE on(Platform)
    IN  IF registry[first] = NotThere /\ src.pin # "written" THEN on(Portable) ELSE first

\* It refuses a source without an artefact and one of another layout.
Loads(src) ==
    /\ registry[Fetched(src)] # NotThere
    /\ registry[Fetched(src)].layout = release.layout

-----------------------------------------------------------------------------
\* Every source of a judged config has one outcome (LayoutAssessment).
TypeOK ==
    /\ release \in Releases
    /\ registry \in [Artefact -> Packaged \cup {NotThere}]
    /\ readable \in BOOLEAN
    /\ fleet \in [Gateways -> [build : Versions \cup {NotAVersion}, admitted : BOOLEAN]]
    /\ judged.sources \in Configs \cup {<<>>}
    /\ DOMAIN judged.verdict.outcomes = DOMAIN judged.sources
    /\ judged.verdict.violations \cap judged.verdict.warnings = {}

\* A source that holds a publish is one the gateway would refuse at load or
\* at boot: the candidates read are those the gateway tries, in its order.
HeldIsDue ==
    \A i \in judged.verdict.violations : ~Loads(judged.sources[i])

\* A config that is neither held nor warned about boots: what assess cannot
\* judge is named to the publisher, never passed over.
CleanBoots ==
    judged.verdict.violations = {} /\ judged.verdict.warnings = {}
        => \A i \in DOMAIN judged.sources : Loads(judged.sources[i])

\* Ord of GatewayVersion: of two builds one comes first or they are the same
\* release, and never two of these.
OrderIsTotal ==
    \A g \in Gateways :
        LET v == fleet[g].build
            w == release.version
        IN  v # NotAVersion =>
                /\ Before(v, w) \/ Same(v, w) \/ Before(w, v)
                /\ ~(Before(v, w) /\ Before(w, v))
                /\ Same(v, w) => ~Before(v, w) /\ ~Before(w, v)

\* at_least: a gateway that moves to a later build keeps every floor it met.
UpgradeKeepsFloors ==
    [][\A g \in Gateways, r \in Releases :
          LET old == fleet[g].build
              new == fleet'[g].build
          IN  /\ AtLeast(old, r.version)
              /\ new # NotAVersion /\ Before(old, new)
              => AtLeast(new, r.version)]_vars

\* w follows v where v was released: a later build of its channel, a final
\* release, or anything of a later core.
Follows(v, w) ==
    /\ Before(v, w)
    /\ \/ v.core # w.core
       \/ w.pre = <<>>
       \/ Released(v) /\ Released(w) /\ IdEqual(v.pre[1], w.pre[1])

\* before_overflow_split: an admitted gateway that upgrades is not refused.
\* The 0.0.0 of an unreleased build says nothing, and is not upgraded from.
UpgradeStaysAdmitted ==
    [][\A g \in Gateways :
          LET old == fleet[g].build
              new == fleet'[g].build
          IN  /\ fleet[g].admitted
              /\ old # NotAVersion /\ new # NotAVersion
              /\ ~IsUnreleased(old)
              /\ Follows(old, new)
              => fleet'[g].admitted]_vars
=============================================================================
