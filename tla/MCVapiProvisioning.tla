-------------------------- MODULE MCVapiProvisioning --------------------------
(***************************************************************************)
(* Small instances of module VapiProvisioning for TLC.                     *)
(***************************************************************************)
EXTENDS VapiProvisioning
=============================================================================
