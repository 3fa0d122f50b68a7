----------------------------- MODULE MCHandoff -----------------------------
(***************************************************************************)
(* Small instances of module Handoff for TLC.                              *)
(***************************************************************************)
EXTENDS Handoff, TLC

CONSTANTS call1, call2, c1, c2, k1

\* Two calls whose correlation ids are the same: the digest does not tell them
\* apart, only the fingerprint in the item does.
OneKey == [call \in {call1, call2} |-> k1]

OneCall == [call \in {call1} |-> k1]

Symmetry == Permutations(Calls) \cup Permutations(Contents) \cup Permutations(Invocations)
=============================================================================
