----------------------------- MODULE PluginLayout -----------------------------
(***************************************************************************)
(* Plugin ABI layouts at publish (src/plugin_layout.rs): the artefacts a   *)
(* source resolves to, and what a registry read of them means for the      *)
(* release a config is judged against.                                     *)
(*                                                                         *)
(* A source is a repository and how it is pinned: "none" has no tag, "tag" *)
(* a bare one, and "written" a tag with a platform suffix or a digest,     *)
(* which names one artefact.  An artefact is its repository, tag and       *)
(* platform; the text between them is left out.                            *)
(***************************************************************************)
EXTENDS Naturals, Sequences, FiniteSets

CONSTANTS
    Repositories,  \* plugin repositories
    FirstParty,    \* those under the platform's registry prefix
    Tags,          \* tags, the floating ones included
    Platform,      \* the native platform gateways run on
    Portable       \* the artefact every platform tries after its own

ASSUME RegistryAssumption ==
    /\ FirstParty \subseteq Repositories
    /\ Platform # Portable

Platforms == {Platform, Portable}

Artefact == [repo : Repositories, tag : Tags, platform : Platforms]

Source == [repo : Repositories, pin : {"none", "tag", "written"},
           tag : Tags, platform : Platforms]

At(repo, tag, platform) == [repo |-> repo, tag |-> tag, platform |-> platform]

-----------------------------------------------------------------------------
\* Mutant: the portable artefact is not tried.
Candidates_NativeOnly(src, floating) ==
    IF src.pin = "written" THEN <<At(src.repo, src.tag, src.platform)>>
    ELSE <<At(src.repo, IF src.pin = "none" THEN floating ELSE src.tag, Platform)>>

\* candidates: the artefacts a gateway tries, native first.  A source without
\* a tag takes the floating tag of the release's protocol major.
Candidates(src, floating) ==
    IF src.pin = "written" THEN <<At(src.repo, src.tag, src.platform)>>
    ELSE LET tag == IF src.pin = "none" THEN floating ELSE src.tag
         IN  <<At(src.repo, tag, Platform), At(src.repo, tag, Portable)>>

Unreadable == [kind |-> "unreadable", layout |-> "none"]
Missing == [kind |-> "missing", layout |-> "none"]
NotRecorded == [kind |-> "not_recorded", layout |-> "none"]
Recorded(layout) == [kind |-> "recorded", layout |-> layout]

\* What a source's finding means for a release of this layout.
Outcome(found, layout) ==
    IF found.kind # "recorded" THEN found.kind
    ELSE IF found.layout = layout THEN "ok" ELSE "mismatch"

\* split_sources: the indices of a config's sources that are read.
Read(sources) == {i \in DOMAIN sources : sources[i].repo \in FirstParty}

\* Mutant: a plugin of another registry has no outcome.
Assess_NoCustom(sources, found, layout) ==
    LET outcome == [i \in Read(sources) |-> Outcome(found[i], layout)]
    IN  [outcomes |-> outcome,
         violations |-> {i \in DOMAIN outcome : outcome[i] \in {"mismatch", "missing"}},
         warnings |-> {i \in DOMAIN outcome : outcome[i] \in {"not_recorded", "unreadable"}}]

\* Mutant: a plugin without an artefact neither holds nor warns.
Assess_MissingPasses(sources, found, layout) ==
    LET outcome == [i \in DOMAIN sources |->
                       IF i \in Read(sources) THEN Outcome(found[i], layout) ELSE "custom"]
    IN  [outcomes |-> outcome,
         violations |-> {i \in DOMAIN outcome : outcome[i] = "mismatch"},
         warnings |-> {i \in DOMAIN outcome :
                          outcome[i] \in {"not_recorded", "unreadable", "custom"}}]

\* assess: the outcome of each source, the sources that hold the publish, and
\* those the publisher is warned of.
Assess(sources, found, layout) ==
    LET outcome == [i \in DOMAIN sources |->
                       IF i \in Read(sources) THEN Outcome(found[i], layout) ELSE "custom"]
    IN  [outcomes |-> outcome,
         violations |-> {i \in DOMAIN outcome : outcome[i] \in {"mismatch", "missing"}},
         warnings |-> {i \in DOMAIN outcome :
                          outcome[i] \in {"not_recorded", "unreadable", "custom"}}]
=============================================================================
