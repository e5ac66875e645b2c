-------------------------- MODULE MCFirmwareUpdate --------------------------
(***************************************************************************)
(* FirmwareUpdate for TLC.                                                 *)
(***************************************************************************)
EXTENDS FirmwareUpdate

\* The second of three chunks is all 0xFF.
MCBlank == {2}
=============================================================================
