---------------------------- MODULE MCPacketCodec ----------------------------
(***************************************************************************)
(* PacketCodec for TLC, with bytes 0..3.                                   *)
(***************************************************************************)
EXTENDS PacketCodec

\* A payload that is itself a start byte with a length, and the shortest one
\* that needs a length of two bytes.
MCPayloads == {<<2, 1>>, <<3, 0, 1, 2>>}
=============================================================================
