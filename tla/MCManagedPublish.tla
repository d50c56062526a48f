--------------------------- MODULE MCManagedPublish ---------------------------
(***************************************************************************)
(* Configs around each guard, four plans and two releases for              *)
(* ManagedPublish.                                                         *)
(***************************************************************************)
EXTENDS PublishedDocuments

\* A key of the longest length.
MCSecrets == {<<"s", "9">>}
MCNotAKey == {<<"9">>}

Plain == [reads |-> {}, secrets |-> {}, refused |-> {}, surfaces |-> {}, eventTypes |-> 0,
          access |-> "verifier", plugins |-> <<>>, registry |-> FALSE,
          defaultPolicy |-> "unset", cluster |-> FALSE, settings |-> {}]

Entry(id) == [id |-> id, ref |-> NoRef, source |-> "ours", file |-> id,
              told |-> {id}, keys |-> FALSE, policy |-> "unset"]

Free == Entry("http")
Alias == [Entry("alias") EXCEPT !.ref = "acp"]
Masked == [Entry(Coordinator) EXCEPT !.ref = "http"]

PluginLists ==
    {<<>>, <<Free>>, <<Free, Free>>, <<Entry("acp")>>, <<Alias>>, <<Entry("saml")>>,
     <<Entry(Coordinator)>>, <<Free, Entry(Coordinator)>>, <<Free, Masked>>,
     <<[Free EXCEPT !.source = "theirs"]>>, <<[Free EXCEPT !.keys = TRUE]>>,
     <<[Free EXCEPT !.policy = "relaxed"]>>, <<[Free EXCEPT !.policy = "enforce"]>>,
     <<[Free EXCEPT !.source = "path"]>>}

MCConfigs ==
    {[Plain EXCEPT !.plugins = p, !.secrets = s, !.defaultPolicy = d] :
        p \in PluginLists, s \in {{}, MCSecrets}, d \in {"unset", "relaxed"}}
    \cup {[Plain EXCEPT !.reads = {"env"}], [Plain EXCEPT !.secrets = MCNotAKey],
          [Plain EXCEPT !.refused = {"license"}], [Plain EXCEPT !.surfaces = {"dpop"}],
          [Plain EXCEPT !.eventTypes = 1], [Plain EXCEPT !.eventTypes = 2],
          [Plain EXCEPT !.access = "none"], [Plain EXCEPT !.access = "anonymous"],
          [Plain EXCEPT !.registry = TRUE], [Plain EXCEPT !.cluster = TRUE],
          [Plain EXCEPT !.settings = {"new"}]}

Plan(features, entitled, quota, custom) ==
    [features |-> features, entitled |-> entitled, plugins |-> quota,
     eventTypes |-> quota, planCustom |-> custom]

Community == Plan({}, {}, 1, FALSE)
Managed == Plan({Coordination}, {}, 1, FALSE)
Team == Plan({Coordination, "sso", "dpop"}, {"acp"}, 2, FALSE)
Pinned == Plan({Coordination, "sso", "dpop"}, {"acp", Coordinator}, 0, TRUE)

MCClaims == {Community, Managed, Team, Pinned}

MCReleases ==
    {[understood |-> TRUE, settings |-> {}, baked |-> {"http"}],
     [understood |-> TRUE, settings |-> {"new"}, baked |-> {}],
     [understood |-> FALSE, settings |-> {"new"}, baked |-> {}]}

MCGated == {[plugin |-> "saml", feature |-> "sso"]}

(***************************************************************************)
(* Documents: values of up to three pieces, and URLs that hide or feign a  *)
(* host in every part.                                                     *)
(***************************************************************************)
Pieces ==
    {<<"${secret.", "s", "9", "}">>, <<"${secret.", "9", "}">>, <<"${secret.", "s", "9", "9", "}">>,
     <<"${secret.">>, <<"${env.">>, <<"s">>, <<"}">>, <<"env://">>, <<"file://">>, <<"-">>,
     <<"/">>, <<"#">>, <<"${cred://">>, <<"${cred://", "s", "/", "s">>, <<"://">>, <<" ">>}

MCSymbols ==
    {"${secret.", "${env.", "${cred://", "env://", "file://", "s", "9", "}", "-", "/", "#", " "}
    \cup {"http", "wss", "tunnel", "://", "a", "@", "localhost", ":", "80", "?", "[", "]",
          "10.0.0.1", "172.31.0.1", "169.254.169.254", "fd00::1", "1", "febf::1", "::ffff:10.0.0.1",
          ".", "internal", "172.32.0.1", "fec0::1", "::ffff:8.8.8.8", "local"}

MCTexts ==
    {<<>>} \cup Pieces \cup {a \o b : a, b \in Pieces} \cup {a \o b \o c : a, b, c \in Pieces}

Loopback6 == <<"[", ":", ":", "1", "]">>

MCInside ==
    {<<"10.0.0.1">>, <<"172.31.0.1">>, <<"169.254.169.254">>, <<"[", "fd00::1", "]">>, Loopback6,
     <<"[", "febf::1", "]">>, <<"[", "::ffff:10.0.0.1", "]">>, <<"localhost">>, <<"a", ".", "internal">>}

MCOutside ==
    {<<"172.32.0.1">>, <<"[", "fec0::1", "]">>, <<"[", "::ffff:8.8.8.8", "]">>, <<"local">>,
     <<"localhost", ".", "a">>, <<"a">>}

MCAddressOf ==
    (<<"10.0.0.1">> :> <<10, 0, 0, 1>>) @@ (<<"172.31.0.1">> :> <<172, 31, 0, 1>>)
    @@ (<<"172.32.0.1">> :> <<172, 32, 0, 1>>) @@ (<<"169.254.169.254">> :> <<169, 254, 169, 254>>)
    @@ (<<":", ":", "1">> :> <<0, 0, 0, 0, 0, 0, 0, 1>>)
    @@ (<<"fd00::1">> :> <<64768, 0, 0, 0, 0, 0, 0, 1>>)
    @@ (<<"febf::1">> :> <<65215, 0, 0, 0, 0, 0, 0, 1>>)
    @@ (<<"fec0::1">> :> <<65216, 0, 0, 0, 0, 0, 0, 1>>)
    @@ (<<"::ffff:10.0.0.1">> :> <<0, 0, 0, 0, 0, 65535, 2560, 1>>)
    @@ (<<"::ffff:8.8.8.8">> :> <<0, 0, 0, 0, 0, 65535, 2056, 2056>>)

MCUrls ==
    [scheme : {"http", "wss", "tunnel"},
     user : {<<>>, <<"a", "@">>, <<"localhost", ":", "a", "@">>, <<"a", "@", "localhost", "@">>},
     host : MCInside \cup MCOutside,
     port : {<<>>, <<":">>, <<":", "80">>},
     tail : {<<>>, <<"/", "@", "localhost">>, <<"?", "a", "@", "a">>, <<"#", "]", ":">>, <<"/", "a">>}]

MCPaths ==
    {<<PRIVATE_BACKENDS_KEY>>, <<"mcp", "bindings", "[]", "backend", PRIVATE_BACKENDS_KEY>>,
     <<PRIVATE_BACKENDS_KEY, "a">>, <<"a">>}
=============================================================================
