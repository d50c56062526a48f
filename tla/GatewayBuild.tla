----------------------------- MODULE GatewayBuild -----------------------------
(***************************************************************************)
(* Release versions of gateways (src/gateway_build.rs): their order, the   *)
(* builds from before the metrics overflow split, and a floor.             *)
(*                                                                         *)
(* A version is its core (major, minor, patch) and a sequence of           *)
(* pre-release identifiers.  An identifier is numeric when it parses as a  *)
(* u64, so one of too many digits is text.  Text identifiers are kept as   *)
(* their rank among the texts in use.                                      *)
(***************************************************************************)
EXTENDS Integers, Sequences

CONSTANTS
    Versions,        \* the versions gateways report
    NotAVersion,     \* a report that does not parse
    LastBeforeSplit  \* LAST_BEFORE_OVERFLOW_SPLIT: pairs of a channel's rank
                     \* and its last release from before the split

Identifier == [numeric : BOOLEAN, val : Nat]

Version == [core : Nat \X Nat \X Nat, pre : Seq(Identifier)]

ASSUME VersionsAreParsed ==
    /\ Versions \subseteq Version
    /\ NotAVersion \notin Version
    /\ LastBeforeSplit \subseteq Nat \X Nat

-----------------------------------------------------------------------------
(***************************************************************************)
(* Ord of GatewayVersion.                                                  *)
(***************************************************************************)
\* Mutant: numeric identifiers are not told from text.
IdBefore_TextOnly(a, b) == a.val < b.val

\* Numbers come before text, each ordered among themselves.
IdBefore(a, b) ==
    IF a.numeric = b.numeric THEN a.val < b.val ELSE a.numeric

IdEqual(a, b) == a.numeric = b.numeric /\ a.val = b.val

CoreBefore(a, b) ==
    \/ a[1] < b[1]
    \/ a[1] = b[1] /\ a[2] < b[2]
    \/ a[1] = b[1] /\ a[2] = b[2] /\ a[3] < b[3]

\* p and q agree on their first n identifiers.
Agree(p, q, n) ==
    n <= Len(p) /\ n <= Len(q) /\ \A i \in 1..n : IdEqual(p[i], q[i])

\* Mutant: a greater identifier further left does not decide.
PreBefore_NoEarlyReturn(p, q) ==
    /\ p # <<>>
    /\ \/ q = <<>>
       \/ Agree(p, q, Len(p)) /\ Len(p) < Len(q)
       \/ \E i \in 1..Len(p) : i <= Len(q) /\ IdBefore(p[i], q[i])

\* A release comes after its pre-releases; of two pre-releases the first
\* identifiers that differ decide, and then the length.
PreBefore(p, q) ==
    /\ p # <<>>
    /\ \/ q = <<>>
       \/ Agree(p, q, Len(p)) /\ Len(p) < Len(q)
       \/ \E i \in 1..Len(p) :
             i <= Len(q) /\ Agree(p, q, i - 1) /\ IdBefore(p[i], q[i])

Before(v, w) ==
    \/ CoreBefore(v.core, w.core)
    \/ v.core = w.core /\ PreBefore(v.pre, w.pre)

\* cmp answers Equal.  The derived == also tells leading zeros apart.
Same(v, w) ==
    v.core = w.core /\ Len(v.pre) = Len(w.pre) /\ Agree(v.pre, w.pre, Len(v.pre))

AtLeast(v, floor) == v # NotAVersion /\ ~Before(v, floor)
-----------------------------------------------------------------------------
(***************************************************************************)
(* before_overflow_split.                                                  *)
(***************************************************************************)
IsUnreleased(v) == v.core = <<0, 0, 0>> /\ v.pre = <<>>

SplitCore == <<0, 1, 0>>

\* A release of a channel: 0.1.0-beta.59 and the like.
Released(v) == Len(v.pre) = 2 /\ ~v.pre[1].numeric /\ v.pre[2].numeric

\* Mutant: of each channel, only the last build before the split is refused.
BeforeSplit_LastOnly(v) ==
    /\ v # NotAVersion
    /\ v.core = SplitCore
    /\ Released(v) /\ <<v.pre[1].val, v.pre[2].val>> \in LastBeforeSplit

BeforeSplit(v) ==
    /\ v # NotAVersion
    /\ ~IsUnreleased(v)
    /\ \/ CoreBefore(v.core, SplitCore)
       \/ /\ v.core = SplitCore /\ Released(v)
          /\ \E last \in LastBeforeSplit :
                last[1] = v.pre[1].val /\ v.pre[2].val <= last[2]
=============================================================================
