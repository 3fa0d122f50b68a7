------------------------- MODULE MCSecurePreflight -------------------------
(***************************************************************************)
(* Small instances of module SecurePreflight for TLC.                      *)
(***************************************************************************)
EXTENDS SecurePreflight
=============================================================================
