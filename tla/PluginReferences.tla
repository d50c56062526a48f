--------------------------- MODULE PluginReferences ---------------------------
(***************************************************************************)
(* The text of a plugin's source.oci (src/plugin_layout.rs): the artefact  *)
(* texts it resolves to and the host, repository and reference that a      *)
(* registry read takes from each, against PluginLayout's Candidates, which *)
(* ReleaseFleet uses.                                                      *)
(*                                                                         *)
(* A text is a sequence of symbols; a separator, a platform suffix, a name *)
(* between two separators and the floating tag are one symbol each.        *)
(***************************************************************************)
EXTENDS ReleaseFleet, SequencesExt, FiniteSetsExt

CONSTANTS
    Symbols,
    PLATFORM_SUFFIX_TOKENS,
    Unparsed,   \* a text that is no artefact
    NoSuffix,   \* a tag without a platform
    References  \* [scheme, host, path, tag, platform, digest] a config may write

Oci == "oci:"
Slash == "/"
Colon == ":"
AtSign == "@"
Dash == "-"
Separators == {Slash, Colon, AtSign}

\* What is no separator.
Names == Symbols \ Separators

ASSUME SuffixesAreKnown ==
    /\ Platforms \subseteq PLATFORM_SUFFIX_TOKENS
    /\ PLATFORM_SUFFIX_TOKENS \subseteq Names
    /\ NoSuffix \notin PLATFORM_SUFFIX_TOKENS
    /\ Separators \cup {Dash} \subseteq Symbols
    /\ \A r \in Releases : r.floating \in Names

-----------------------------------------------------------------------------
\* strip_prefix of oci:// or oci:
Stripped(text) ==
    IF IsPrefix(<<Oci, Slash, Slash>>, text) THEN SubSeq(text, 4, Len(text))
    ELSE IF IsPrefix(<<Oci>>, text) THEN Tail(text)
    ELSE text

HasPlatformSuffix(tag) ==
    \E s \in PLATFORM_SUFFIX_TOKENS : tag = <<s>> \/ IsSuffix(<<Dash, s>>, tag)

\* find and rfind: the first and the last position that holds c, else 0.
Find(t, c) == SelectInSeq(t, LAMBDA x : x = c)
RFind(t, c) == SelectLastInSeq(t, LAMBDA x : x = c)

\* The colons of r from position i on.
Colons(r, i) == {k \in i..Len(r) : r[k] = Colon}

\* The artefact texts of r, whose tag follows the first of colons.
Resolved(r, colons, floating) ==
    IF Contains(r, AtSign) THEN <<r>>
    ELSE IF colons = {}
    THEN <<r \o <<Colon, floating, Dash, Platform>>, r \o <<Colon, floating, Dash, Portable>>>>
    ELSE IF HasPlatformSuffix(SubSeq(r, Min(colons) + 1, Len(r)))
    THEN <<r>>
    ELSE <<r \o <<Dash, Platform>>, r \o <<Dash, Portable>>>>

\* Mutant: the port of a host is taken for a tag.
CandidateTexts_AnyColon(text, floating) ==
    LET r == Stripped(text) IN Resolved(r, Colons(r, 1), floating)

\* candidates: a tag is looked for in the last segment of the path.
CandidateTexts(text, floating) ==
    LET r == Stripped(text) IN Resolved(r, Colons(r, RFind(r, Slash) + 1), floating)

\* ArtefactRef::parse: the host before the first slash, and the reference
\* behind the first @, else behind the last colon.
Parse(artefact) ==
    LET slash == Find(artefact, Slash)
        host  == SubSeq(artefact, 1, slash - 1)
        rest  == SubSeq(artefact, slash + 1, Len(artefact))
        at    == Find(rest, AtSign)
        split == IF at # 0 THEN at ELSE RFind(rest, Colon)
    IN  IF slash < 2 \/ split < 2 \/ split = Len(rest) THEN Unparsed
        ELSE [host |-> host,
              repository |-> SubSeq(rest, 1, split - 1),
              reference |-> SubSeq(rest, split + 1, Len(rest))]

-----------------------------------------------------------------------------
(***************************************************************************)
(* What the author of a reference means by it.                             *)
(***************************************************************************)
Suffixed(tag, platform) ==
    IF platform = NoSuffix THEN tag
    ELSE IF tag = <<>> THEN <<platform>>
    ELSE tag \o <<Dash, platform>>

\* A mark before a text, unless it is empty.
Marked(mark, text) == IF text = <<>> THEN <<>> ELSE <<mark>> \o text

TextOf(w) ==
    w.scheme \o (w.host \o (<<Slash>> \o
        (w.path \o (Marked(Colon, Suffixed(w.tag, w.platform)) \o Marked(AtSign, w.digest)))))

Has(t, S) == \E i \in DOMAIN t : t[i] \in S

EndsIn(tag, s) ==
    /\ tag # <<>> /\ Last(tag) = s
    /\ Len(tag) > 1 => tag[Len(tag) - 1] = Dash

\* The parts of a reference.  A tag that ends in a platform has no other.
IsReference(w) ==
    /\ w.scheme \in {<<>>, <<Oci>>, <<Oci, Slash, Slash>>}
    /\ {w.host, w.path, w.tag, w.digest} \subseteq Seq(Symbols)
    /\ w.host # <<>> /\ Head(w.host) # Oci /\ ~Has(w.host, {Slash, AtSign})
    /\ w.path # <<>> /\ ~Has(w.path, {Colon, AtSign})
    /\ ~Has(w.tag, Separators)
    /\ w.platform \in PLATFORM_SUFFIX_TOKENS \cup {NoSuffix}
    /\ w.platform = NoSuffix => \A s \in PLATFORM_SUFFIX_TOKENS : ~EndsIn(w.tag, s)

ASSUME ReferencesAreWritten == \A w \in References : IsReference(w)

\* A tag and a digest.  The digest would name the artefact, but the tag stays
\* in the repository that the registry is asked for.
TaggedDigest(w) == w.digest # <<>> /\ Suffixed(w.tag, w.platform) # <<>>

SourceOf(w) ==
    [repo |-> <<w.host, w.path>>,
     pin |-> IF w.digest # <<>> \/ w.platform # NoSuffix THEN "written"
             ELSE IF w.tag = <<>> THEN "none" ELSE "tag",
     tag |-> IF w.digest # <<>> THEN w.digest ELSE w.tag,
     platform |-> w.platform]

\* The registry is asked for the artefacts of the source, in their order.
ReadAsMeant(w, floating) ==
    LET texts == CandidateTexts(TextOf(w), floating)
        meant == Candidates(SourceOf(w), <<floating>>)
    IN  /\ Len(texts) = Len(meant)
        /\ \A i \in DOMAIN meant :
               Parse(texts[i]) = [host |-> meant[i].repo[1], repository |-> meant[i].repo[2],
                                  reference |-> Suffixed(meant[i].tag, meant[i].platform)]

\* Each release, and whether every reference is read as meant for it.
Readings ==
    {<<r, \A w \in References : TaggedDigest(w) \/ ReadAsMeant(w, r.floating)>> : r \in Releases}
-----------------------------------------------------------------------------
\* candidates and ArtefactRef::parse: whatever a reference has before its path
\* and behind it (a scheme, a port, a suffix, a digest), the registry is asked
\* for the very artefacts that a gateway of the blessed release would fetch.
ReferencesAreRead == <<release, TRUE>> \in Readings
=============================================================================
