---------------------------- MODULE MCDeployment ----------------------------
(***************************************************************************)
(* Small instances of module Deployment for TLC.                           *)
(***************************************************************************)
EXTENDS Deployment
=============================================================================
