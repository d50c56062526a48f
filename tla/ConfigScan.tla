------------------------------ MODULE ConfigScan ------------------------------
(***************************************************************************)
(* How src/publish_guard.rs finds, in the values of a parsed config, what  *)
(* PublishGuard's Config takes as given: host reads, secret names,         *)
(* malformed credential tokens, private upstreams and the key that turns   *)
(* the private-address pin off; beside what a reader of the whole document *)
(* finds there.                                                            *)
(*                                                                         *)
(* A text is a sequence of symbols: an opener, a scheme or a host label is *)
(* one symbol, up to ASCII case where the code lowers it, and lengths are  *)
(* counted in symbols.  A document is the set of its leaves: the keys on   *)
(* the way, "[]" for a list, and a text or a boolean at the end.           *)
(***************************************************************************)
EXTENDS Integers, Sequences, SequencesExt, FiniteSetsExt

CONSTANTS
    Symbols,             \* all of them
    Letters,             \* symbols a key may begin with, the underscore too
    Digits,              \* symbols a key may go on with
    SECRET_KEY_MAX_LEN,
    SnippetMax,          \* the MAX of truncate
    AddressOf            \* the IP addresses that parse, by their text

\* A registered key and its opener and brace fit in a snippet (9 + 64 + 1 of
\* 80 bytes in the code).
ASSUME SnippetsHoldKeys ==
    /\ SECRET_KEY_MAX_LEN \in Nat \ {0} /\ SnippetMax \in Nat
    /\ SnippetMax >= SECRET_KEY_MAX_LEN + 2

ENV_OPENER == "${env."
SECRET_OPENER == "${secret."
CRED_OPENER == "${cred://"
HOST_SECRET_SCHEMES == {"env://", "file://"}
Brace == "}"      \* ends a token
Slash == "/"      \* between a plugin and a target, before a path
Hash == "#"       \* before a part of a credential, or a fragment
Ellipsis == "..." \* ends a truncated text
SchemeEnd == "://"
At == "@"            \* behind the userinfo
Colon == ":"         \* before a port
CloseBracket == "]"  \* ends an IPv6 address
AuthorityEnds == {Slash, "?", Hash}
\* Compared as written: a scheme in upper case is not gated.
GatedSchemes == {"http", "https", "ws", "wss"}
PRIVATE_BACKENDS_KEY == "allow_private_backends"
\* An opener begins with a dollar sign, which no key has.
ASSUME OpenersAreNoLetters == SECRET_OPENER \notin Letters \cup Digits

\* Symbols with a slash inside, text before it and text behind it.
Slashed == HOST_SECRET_SCHEMES \cup {CRED_OPENER, SchemeEnd}
UpstreamUrl == <<"mcp", "federations", "[]", "upstream", "url">>

\* Symbols that end in a character of a longer identifier.
IdentifierEnds == Letters \cup Digits \cup {"-", ".", ENV_OPENER, SECRET_OPENER}

-----------------------------------------------------------------------------
(***************************************************************************)
(* Tokens in a value.                                                      *)
(***************************************************************************)
\* find: the first position from i on that holds one of S, else 0.
Find(t, i, S) ==
    LET at == {k \in i..Len(t) : t[k] \in S}
    IN  IF at = {} THEN 0 ELSE Min(at)

truncate(t) ==
    IF Len(t) <= SnippetMax THEN t ELSE SubSeq(t, 1, SnippetMax) \o <<Ellipsis>>

\* The loop that tokens_from and cred_token_inners share: each token ends at
\* the first brace after its opener, and the next is looked for behind it.
Tokens(t, opener) ==
    LET from[i \in 1..(Len(t) + 1)] ==
            LET start == Find(t, i, {opener})
                close == Find(t, start + 1, {Brace})
            IN  IF start = 0 \/ close = 0 THEN {}
                ELSE {SubSeq(t, start, close)} \cup from[close + 1]
    IN  from[1]

\* Mutant: the loop stops after its first token.
TokensFrom_FirstOnly(t, opener) ==
    LET start == Find(t, 1, {opener})
        close == Find(t, start + 1, {Brace})
    IN  IF start = 0 \/ close = 0 THEN {} ELSE {truncate(SubSeq(t, start, close))}

TokensFrom(t, opener) == {truncate(token) : token \in Tokens(t, opener)}

\* What stands behind cred:// in each token.
CredTokenInners(t) ==
    {SubSeq(token, 2, Len(token) - 1) : token \in Tokens(t, CRED_OPENER)}

\* strip_prefix and strip_suffix of a snippet; a truncated one has no name.
NameIn(snippet) ==
    IF Last(snippet) = Brace THEN SubSeq(snippet, 2, Len(snippet) - 1) ELSE <<>>

is_secret_key(name) ==
    /\ Len(name) \in 1..SECRET_KEY_MAX_LEN
    /\ Head(name) \in Letters
    /\ ToSet(name) \subseteq Letters \cup Digits

\* plugin/target[#part], split at the first # and then at the first slash,
\* which may be one inside a symbol.
IsWellFormedCred(inner) ==
    LET hash  == Find(inner, 1, {Hash})
        path  == IF hash = 0 THEN inner ELSE SubSeq(inner, 1, hash - 1)
        slash == Find(path, 1, {Slash} \cup Slashed)
    IN  /\ hash # Len(inner) \/ hash = 0
        /\ slash # 0
        /\ path[slash] = Slash => slash > 1 /\ slash < Len(path)

\* The positions of a scheme that begin a value's word.
SchemeBoundaryMatches(t, scheme) ==
    {i \in DOMAIN t : t[i] = scheme /\ (i > 1 => t[i - 1] \notin IdentifierEnds)}

\* The kinds of violation check_leaf_value finds in a value.
CheckLeafValue(t, secret_keys) ==
    {kind \in {"host_env_interpolation"} : TokensFrom(t, ENV_OPENER) # {}}
    \cup {kind \in {"unregistered_secret"} :
             \E snippet \in TokensFrom(t, SECRET_OPENER) :
                 ~(is_secret_key(NameIn(snippet)) /\ NameIn(snippet) \in secret_keys)}
    \cup {kind \in {"malformed_cred_token"} :
             \E inner \in CredTokenInners(t) : ~IsWellFormedCred(inner)}
    \cup {kind \in {"host_secret_uri"} :
             \E scheme \in HOST_SECRET_SCHEMES : SchemeBoundaryMatches(t, scheme) # {}}

-----------------------------------------------------------------------------
(***************************************************************************)
(* Upstreams and private backends.                                         *)
(***************************************************************************)
Before(t, i) == IF i = 0 THEN t ELSE SubSeq(t, 1, i - 1)

\* rfind: the last position that holds c, else 0.
RFind(t, c) == SelectLastInSeq(t, LAMBDA x : x = c)

\* trim_start_matches and trim_end_matches of the brackets.
Unbracketed(t) ==
    LET inner == {i \in DOMAIN t : \E k \in 1..i : t[k] # "["}
        kept  == {i \in inner : \E k \in i..Len(t) : t[k] # CloseBracket}
    IN  IF kept = {} THEN <<>> ELSE SubSeq(t, Min(kept), Max(kept))

\* Mutant: what stands before an @ is taken for the host.
AfterUserinfo_Kept(authority) == authority

\* rsplit_once('@')
AfterUserinfo(authority) ==
    SubSeq(authority, RFind(authority, At) + 1, Len(authority))

\* gated_upstream_host; the empty text is None.
GatedUpstreamHost(url) ==
    LET sep       == Find(url, 1, {SchemeEnd})
        rest      == SubSeq(url, sep + 1, Len(url))
        authority == Before(rest, Find(rest, 1, AuthorityEnds))
        hostPort  == AfterUserinfo(authority)
        close     == RFind(hostPort, CloseBracket)
        host      == IF close # 0 THEN SubSeq(hostPort, 1, close)
                     ELSE Before(hostPort, RFind(hostPort, Colon))
    IN  IF sep = 2 /\ url[1] \in GatedSchemes THEN Unbracketed(host) ELSE <<>>

\* The IPv4 part of ip_is_private, by the ranges of std::net::Ipv4Addr.
PrivateV4(o) ==
    \/ o[1] \in {0, 10, 127}
    \/ o[1] = 172 /\ o[2] \in 16..31
    \/ o[1] = 192 /\ o[2] = 168
    \/ o[1] = 169 /\ o[2] = 254
    \/ o = <<255, 255, 255, 255>>

IsMapped(s) == SubSeq(s, 1, 6) = <<0, 0, 0, 0, 0, 65535>>

\* to_ipv4_mapped
Mapped(s) == <<s[7] \div 256, s[7] % 256, s[8] \div 256, s[8] % 256>>

\* ip_is_private of four octets or eight segments: loopback, unspecified,
\* fc00::/7, fe80::/10, or a mapped private one.
IpIsPrivate(ip) ==
    IF Len(ip) = 4 THEN PrivateV4(ip)
    ELSE \/ SubSeq(ip, 1, 7) = <<0, 0, 0, 0, 0, 0, 0>> /\ ip[8] \in {0, 1}
         \/ ip[1] \div 512 = 126
         \/ ip[1] \div 64 = 1018
         \/ IsMapped(ip) /\ PrivateV4(Mapped(ip))

IsPrivateOrLocalHost(host) ==
    IF host \in DOMAIN AddressOf THEN IpIsPrivate(AddressOf[host])
    ELSE \/ host = <<"localhost">>
         \/ \E label \in {"localhost", "local", "internal"} : IsSuffix(<<".", label>>, host)

\* collect_private_backends: the paths that end in the key, set to true, and
\* are not beneath the key, where the search does not descend.
CollectPrivateBackends(doc) ==
    {leaf.path : leaf \in {l \in doc :
        /\ l.on
        /\ Last(l.path) = PRIVATE_BACKENDS_KEY
        /\ ~Contains(Front(l.path), PRIVATE_BACKENDS_KEY)}}

\* The kinds of violation check_ssrf finds in a document.
CheckSsrf(doc) ==
    {kind \in {"private_backends_enabled"} : CollectPrivateBackends(doc) # {}}
    \cup {kind \in {"private_federation_upstream"} :
             \E leaf \in doc :
                 /\ leaf.path = UpstreamUrl
                 /\ GatedUpstreamHost(leaf.text) # <<>>
                 /\ IsPrivateOrLocalHost(GatedUpstreamHost(leaf.text))}

\* check_published_config_with_secret_keys, of the walk over the leaf strings
\* and check_ssrf.
CheckPublishedConfig(doc, secret_keys) ==
    CheckSsrf(doc) \cup (UNION {CheckLeafValue(leaf.text, secret_keys) : leaf \in doc})

-----------------------------------------------------------------------------
(***************************************************************************)
(* What a reader finds: every opener that some brace closes, wherever it   *)
(* stands, and every scheme that begins a word.                            *)
(***************************************************************************)
Closes(t, opener, i, j) ==
    /\ t[i] = opener /\ t[j] = Brace /\ i < j
    /\ \A k \in i..(j - 1) : t[k] # Brace

Inners(t, opener) ==
    {SubSeq(t, p[1] + 1, p[2] - 1) : p \in
        {p \in (DOMAIN t) \X (DOMAIN t) : Closes(t, opener, p[1], p[2])}}

\* A plugin, a slash and a target, none empty, and a # begins a part or is
\* inside one.
Credential(inner) ==
    \E i \in DOMAIN inner :
        /\ \A k \in 1..(i - 1) : inner[k] \notin Slashed \cup {Slash, Hash}
        /\ \/ inner[i] \in Slashed
           \/ inner[i] = Slash /\ i \in 2..(Len(inner) - 1) /\ inner[i + 1] # Hash
        /\ Last(inner) = Hash => \E h \in i..(Len(inner) - 1) : inner[h] = Hash

HostReads(t) ==
    {read \in {"env"} : Inners(t, ENV_OPENER) # {}}
    \cup {read \in {"bad_cred"} : \E inner \in Inners(t, CRED_OPENER) : ~Credential(inner)}
    \cup {read \in {"host_uri"} :
             \E i \in DOMAIN t :
                 /\ t[i] \in HOST_SECRET_SCHEMES
                 /\ i = 1 \/ t[i - 1] \notin IdentifierEnds}

\* A credential opener inside a credential token.  A guard that reads from
\* left to right takes it for part of the target.
CredsNest(t) == \E inner \in Inners(t, CRED_OPENER) : Contains(inner, CRED_OPENER)
=============================================================================
