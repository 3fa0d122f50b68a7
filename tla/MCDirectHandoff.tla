-------------------------- MODULE MCDirectHandoff --------------------------
(***************************************************************************)
(* Small instances of module DirectHandoff for TLC.                        *)
(***************************************************************************)
EXTENDS DirectHandoff, TLC

Symmetry ==
  Permutations(Calls) \cup Permutations(Contents) \cup Permutations(Invocations)
    \cup Permutations(Sessions)
=============================================================================
