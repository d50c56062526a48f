---------------------------- MODULE MCReleaseFleet ----------------------------
(***************************************************************************)
(* Builds around the overflow split, a first-party plugin and a tenant's    *)
(* own, for ReleaseFleet, and references in every form.                    *)
(***************************************************************************)
EXTENDS PluginReferences

Num(n) == [numeric |-> TRUE, val |-> n]
Text(rank) == [numeric |-> FALSE, val |-> rank]
Build(core, pre) == [core |-> core, pre |-> pre]

\* Texts by rank: alpha 1, beta 2, canary 3.  The lists are those of the code
\* with small numbers.
MCLastBeforeSplit == {<<1, 1>>, <<2, 3>>}

Beta(n) == Build(<<0, 1, 0>>, <<Text(2), Num(n)>>)

MCVersions ==
    {Build(<<0, 0, 0>>, <<>>), Build(<<0, 0, 2>>, <<Text(2), Num(1)>>),
     Beta(2), Beta(3), Beta(4), Build(<<0, 1, 0>>, <<Text(1), Num(5)>>),
     Build(<<0, 1, 0>>, <<Text(2)>>), Build(<<0, 1, 0>>, <<Num(2)>>),
     Build(<<0, 1, 0>>, <<>>), Build(<<1, 0, 0>>, <<Text(3), Num(1)>>)}

MCReleases ==
    {[version |-> Beta(3), layout |-> "L1", floating |-> "protocol-1"],
     [version |-> Beta(4), layout |-> "L1", floating |-> "protocol-1"],
     [version |-> Build(<<0, 1, 0>>, <<>>), layout |-> "L2", floating |-> "protocol-1"]}

Bare == [repo |-> "ours", pin |-> "none", tag |-> "1.0", platform |-> Platform]
Tagged == [Bare EXCEPT !.pin = "tag"]
Written == [Bare EXCEPT !.pin = "written", !.platform = Portable]
Custom == [Tagged EXCEPT !.repo = "theirs"]

MCPublished ==
    {At("ours", "1.0", Platform), At("ours", "1.0", Portable), At("ours", "protocol-1", Portable)}

MCConfigs == {<<Bare>>, <<Tagged, Bare>>, <<Written, Custom>>, <<Written>>}

MCSymbols ==
    {"oci:", "/", ":", "@", "-", "ghcr.io", "localhost", "5000", "p", "a", "1.0", "rc", "native",
     "wasi-wasm", "linux-arm64", "sha256", "d", "protocol-1"}

MCReferences ==
    [scheme : {<<>>, <<"oci:">>, <<"oci:", "/", "/">>},
     host : {<<"ghcr.io">>, <<"localhost", ":", "5000">>},
     path : {<<"p">>, <<"a", "/", "p">>, <<"a", "/", "p", "-", "native">>},
     tag : {<<>>, <<"1.0">>, <<"1.0", "-", "native", "-", "rc">>},
     platform : {NoSuffix, "native", "wasi-wasm", "linux-arm64"},
     digest : {<<>>, <<"sha256", ":", "d">>}]
=============================================================================
