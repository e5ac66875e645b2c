---------------------------- MODULE MCCommTunnel ----------------------------
(***************************************************************************)
(* CommTunnel for TLC.                                                     *)
(***************************************************************************)
EXTENDS CommTunnel

CONSTANTS t1, t2, c1, c2

MCThreads == {t1, t2}
MCControllers == {c1, c2}
=============================================================================
