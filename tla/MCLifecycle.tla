---------------------------- MODULE MCLifecycle ----------------------------
(***************************************************************************)
(* Lifecycle for TLC.                                                      *)
(***************************************************************************)
EXTENDS Lifecycle

CONSTANTS device, c1, c2

MCTargets == {device, c1, c2}
=============================================================================
