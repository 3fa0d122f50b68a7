------------------------- MODULE MCDeploymentReview -------------------------
(***************************************************************************)
(* Small instances of module DeploymentReview for TLC.                     *)
(***************************************************************************)
EXTENDS DeploymentReview

\* A chain and a fork, a catalog that nests a template twice, and one that has a
\* template nobody nests.
ThreeTemplates == {<<{2}, {3}, {}>>, <<{2, 3}, {}, {}>>, <<{2, 3}, {3}, {}>>, <<{2}, {}, {}>>}
=============================================================================
