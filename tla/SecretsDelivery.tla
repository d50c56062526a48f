---------------------------- MODULE SecretsDelivery ----------------------------
(***************************************************************************)
(* The secrets of one gateway on their way from the control plane's        *)
(* registry to the running gateway, and the digest by which the control    *)
(* plane tells a live registry from a pending one: no side sends a value.  *)
(*                                                                         *)
(* secrets_digest (src/publish_guard.rs) is computed by every side over    *)
(* its own copy, in whatever order it iterates.  A value is a sequence of  *)
(* symbols, a name is a symbol of its own (the grammar of is_secret_key    *)
(* admits neither "=" nor a line feed), and sha256 is ideal: a digest is   *)
(* the text that is hashed.                                                *)
(*                                                                         *)
(* What the gateway's copy is, the repository says twice, differently.     *)
(* The message it sends is the "digest of the secrets directory the        *)
(* running runtime was built from", empty when there is no directory "or   *)
(* it holds no key" (agent.proto, StatusReport).  The column it is kept in *)
(* holds a digest "over the values the running config was resolved with",  *)
(* "empty for a gateway that resolves no secret"                           *)
(* (20260912_001_secrets_digest.sql, and secrets_digest's own comment).    *)
(* The gateway is not in this repository: reading says which account it    *)
(* follows, and the two differ as soon as its config leaves a key unused.  *)
(***************************************************************************)
EXTENDS Naturals, Sequences, FiniteSets, SequencesExt

CONSTANTS
    Names,      \* the keys in sorted order, a sequence of symbols
    Values,     \* the values a tenant registers, sequences of symbols
    Eq,         \* the symbol "="
    Newline,    \* the line feed
    Symbols,    \* all of them
    Readings    \* the accounts of a report's digest a gateway may follow

ASSUME SymbolsSpell ==
    /\ Names \in Seq(Symbols) /\ {Eq, Newline} \subseteq Symbols
    /\ Values \subseteq Seq(Symbols)

ASSUME NamesAreKeys ==
    /\ IsInjective(Names)
    /\ Eq \notin ToSet(Names) /\ Newline \notin ToSet(Names) /\ Eq # Newline

ASSUME ReadingsAreTold == Readings \subseteq {"directory", "resolved"}

VARIABLES
    reading,    \* which account the gateway follows, for good
    registered, \* the control plane's set: a value for each registered name
    mounted,    \* the secrets directory the provisioner delivered
    running,    \* the directory as read at boot or at the last good reload,
                \* and the keys the config resolved then
    reported,   \* the digest of the last StatusReport
    reportOf    \* what was running when it was computed

vars == <<reading, registered, mounted, running, reported, reportOf>>

NoSecrets == [n \in {} |-> <<>>]
Nothing == [directory |-> NoSecrets, uses |-> {}]

-----------------------------------------------------------------------------
\* The ways a side may iterate its set.
Iterations(set) == SetToSeqs(DOMAIN set)

\* Mutant: the entries are hashed in the order they come.
Digest_Unsorted(set, names) ==
    FlattenSeq([k \in DOMAIN names |->
                   <<names[k], Eq>> \o set[names[k]] \o <<Newline>>])

\* Mutant: no line feed after an entry.
Line_Unterminated(n, v) == <<n, Eq>> \o v

\* What is hashed of one entry.
Line(n, v) == <<n, Eq>> \o v \o <<Newline>>

\* The loop over the sorted entries: what it hashes from the k-th name on.
Hashed(set, keys) ==
    LET from[k \in 1..Len(Names) + 1] ==
            IF k > Len(Names) THEN <<>>
            ELSE IF Names[k] \in keys THEN Line(Names[k], set[Names[k]]) \o from[k + 1]
            ELSE from[k + 1]
    IN  from

\* The text secrets_digest hashes for a set iterated as names, empty for the
\* empty set.
Digest(set, names) == Hashed(set, ToSet(names))[1]

\* What the gateway digests: all that is mounted, or what its config resolves.
Sent(run) ==
    IF reading = "directory" THEN run.directory
    ELSE [n \in run.uses |-> run.directory[n]]

\* The control plane's verdict for the gateway page.
Live(names) == reported = Digest(registered, names)
-----------------------------------------------------------------------------
Init ==
    /\ reading \in Readings
    /\ registered = NoSecrets
    /\ mounted = NoSecrets
    /\ running = Nothing
    /\ reported = <<>>
    /\ reportOf = Nothing

\* The tenant sets a key, to a first value or another one.
Register(n, v) ==
    /\ registered' = [m \in DOMAIN registered \cup {n} |->
                         IF m = n THEN v ELSE registered[m]]
    /\ UNCHANGED <<reading, mounted, running, reported, reportOf>>

Unregister(n) ==
    /\ n \in DOMAIN registered
    /\ registered' = [m \in DOMAIN registered \ {n} |-> registered[m]]
    /\ UNCHANGED <<reading, mounted, running, reported, reportOf>>

\* The provisioner renders the registered set into the gateway's mount.
Deliver ==
    /\ mounted' = registered
    /\ UNCHANGED <<reading, registered, running, reported, reportOf>>

\* The gateway boots, or reloads successfully, with a config that resolves
\* any of the keys mounted.
Reload ==
    /\ \E uses \in SUBSET DOMAIN mounted :
           running' = [directory |-> mounted, uses |-> uses]
    /\ UNCHANGED <<reading, registered, mounted, reported, reportOf>>

Report ==
    /\ \E names \in Iterations(Sent(running)) :
           reported' = Digest(Sent(running), names)
    /\ reportOf' = running
    /\ UNCHANGED <<reading, registered, mounted, running>>

Next ==
    \/ \E n \in ToSet(Names) : Unregister(n) \/ \E v \in Values : Register(n, v)
    \/ Deliver \/ Reload \/ Report

Spec == Init /\ [][Next]_vars
-----------------------------------------------------------------------------
(***************************************************************************)
(* Properties.                                                             *)
(***************************************************************************)
\* Live is said only of a gateway that digested exactly the registered set,
\* by either account: "comparing the two says whether a registered value is
\* live on the gateway" (20260912_001_secrets_digest.sql).
LiveIsTrue ==
    \A names \in Iterations(registered) : Live(names) => Sent(reportOf) = registered

\* Whatever order either side iterates in, a gateway that runs exactly the
\* registered set is shown as live, but for one case: it digests what its
\* config resolved, and the config leaves a registered key unused.  Only by
\* agent.proto's account is every current gateway live.
CurrentIsLive ==
    \A names \in Iterations(registered) :
        reportOf.directory = registered
            => \/ Live(names)
               \/ reading = "resolved" /\ ~ (DOMAIN registered \subseteq reportOf.uses)
=============================================================================
