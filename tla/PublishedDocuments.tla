-------------------------- MODULE PublishedDocuments --------------------------
(***************************************************************************)
(* A published config as a document: what check_published_config finds in  *)
(* its leaves against PublishGuard's Published, which ManagedPublish uses  *)
(* and which decides on what the document says.                            *)
(***************************************************************************)
EXTENDS ManagedPublish, ConfigScan

CONSTANTS
    Texts,   \* values a config holds
    Urls,    \* upstream URLs, by their parts
    Inside,  \* hosts that only the pod's own network reaches
    Paths    \* paths of the boolean leaves

\* The names of ManagedPublish are keys that register, the others are not.
ASSUME NamesAreTexts ==
    /\ Texts \subseteq Seq(Symbols)
    /\ \A name \in Secrets : is_secret_key(name)
    /\ \A name \in NotAKey : ~is_secret_key(name)

UrlText(url) ==
    <<url.scheme, SchemeEnd>> \o (url.user \o (url.host \o url.port) \o url.tail)

Has(t, S) == \E i \in DOMAIN t : t[i] \in S

\* The parts of a URL: the userinfo ends at an @, a port begins with its only
\* colon, and only a bracketed host has colons.  The scheme is in lower case:
\* the code lets one in upper case (HTTP://) through, whatever its host.
IsUrl(url) ==
    /\ url.scheme \in GatedSchemes \cup {"tunnel"}
    /\ {<<url.scheme, SchemeEnd>>, url.user, url.host, url.port, url.tail} \subseteq Seq(Symbols)
    /\ url.user # <<>> => Last(url.user) = At
    /\ ~Has(url.user, AuthorityEnds \cup {SchemeEnd})
    /\ ~Has(url.host \o url.port, AuthorityEnds \cup {SchemeEnd, At})
    /\ ~Has(url.port, {CloseBracket})
    /\ url.port # <<>> => Head(url.port) = Colon /\ ~Has(Tail(url.port), {Colon})
    /\ url.tail # <<>> => Head(url.tail) \in AuthorityEnds
    /\ \/ url.host # <<>> /\ Last(url.host) = CloseBracket
       \/ ~Has(url.host, {Colon, CloseBracket})
    /\ Unbracketed(url.host) # <<>>
    /\ ~Has(UrlText(url), {ENV_OPENER, SECRET_OPENER, CRED_OPENER} \cup HOST_SECRET_SCHEMES)

\* A host is inside when its address is in a private range or its name is a
\* local one.
ASSUME HostsAreSorted ==
    \A url \in Urls :
        /\ IsUrl(url)
        /\ url.host \in Inside <=> IsPrivateOrLocalHost(Unbracketed(url.host))

\* No private-address key stands beneath another.
ASSUME PathsAreSearched ==
    \A path \in Paths :
        Last(path) = PRIVATE_BACKENDS_KEY => ~Contains(Front(path), PRIVATE_BACKENDS_KEY)

Leaf(path, text) == [path |-> path, text |-> text, on |-> FALSE]
Flag(path, on) == [path |-> path, text |-> <<>>, on |-> on]

\* What check_published_config decides on, of a value.
Said(text) ==
    [reads |-> HostReads(text), secrets |-> Inners(text, SECRET_OPENER), refused |-> {}]

Refusing(refused) == [reads |-> {}, secrets |-> {}, refused |-> refused]

\* The guard refuses the document exactly when it refuses what it says.
Faithful(doc, said, keys) ==
    CheckPublishedConfig(doc, keys) = {} <=> Published(said, keys)

ValueFaithful(text, keys) ==
    CredsNest(text) \/ Faithful({Leaf(<<"x">>, text)}, Said(text), keys)

UpstreamFaithful(url, keys) ==
    Faithful({Leaf(UpstreamUrl, UrlText(url))},
             Refusing({r \in {"private_upstream"} : url.scheme # "tunnel" /\ url.host \in Inside}),
             keys)

\* The key counts wherever it is set, but not beneath a block of its own name.
FlagFaithful(path, on, keys) ==
    Faithful({Flag(path, on)},
             Refusing({r \in {"private_backends"} : on /\ Last(path) = PRIVATE_BACKENDS_KEY}),
             keys)

\* Sets of registered keys, and whether each value is decided faithfully with
\* them; then each upstream and each flag.
ValueDecisions ==
    {<<keys, \A text \in Texts : ValueFaithful(text, keys)>> : keys \in SUBSET Secrets}

ReachDecisions ==
    {<<keys, /\ \A url \in Urls : UpstreamFaithful(url, keys)
             /\ \A path \in Paths, on \in BOOLEAN : FlagFaithful(path, on, keys)>> : keys \in SUBSET Secrets}
-----------------------------------------------------------------------------
\* check_leaf_value: whatever stands around an opener, its name or its brace,
\* and with the keys registered now, a value is refused exactly when some
\* reference a reader finds in it is not the tenant's to make.
ValuesAreRead == <<registered, TRUE>> \in ValueDecisions

\* check_ssrf: an upstream is refused exactly when the host that its URL names
\* is a private one, and the private-address key wherever it is set.
ReachIsRead == <<registered, TRUE>> \in ReachDecisions
=============================================================================
