--------------------------- MODULE MCEnvelopeCipher ---------------------------
(***************************************************************************)
(* Instances of EnvelopeCipher.                                            *)
(***************************************************************************)
EXTENDS EnvelopeCipher, TLC

CONSTANTS c1, c2, v1, v2, k1, k2, r1, r2

MCContexts == {c1, c2}
MCValues == {v1, v2}
MCKeys == {k1, k2}
MCReplicas == {r1, r2}
MCSymmetry == Permutations(MCContexts) \cup Permutations(MCKeys) \cup Permutations(MCValues)
                  \cup Permutations(MCReplicas)
=============================================================================
