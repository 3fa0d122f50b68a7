---------------------------- MODULE MCTransients ----------------------------
(***************************************************************************)
(* Small instances of module Transients for TLC.                           *)
(***************************************************************************)
EXTENDS Transients
=============================================================================
