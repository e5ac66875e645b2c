------------------------------- MODULE CanBus -------------------------------
(***************************************************************************)
(* One VescCanBus (src/pyvesc/can/bus.py): threads that ping and scan      *)
(* (PingScan) beside the reassembly of what comes through the tunnel       *)
(* (TunnelFrames).                                                         *)
(*                                                                         *)
(* The two share no data and one thread: _on_message hands a frame either  *)
(* to the tunnel or to the PONG branch, and ends one before it begins the  *)
(* next.  A subscriber that raises ends both.                              *)
(***************************************************************************)
EXTENDS PingScan, TunnelFrames

busVars == <<vars, assemblyVars>>

BusTypeOK == TypeOK /\ AssemblyTypeOK

BusInit == Init /\ AssemblyInit

\* _on_message for the frames of the tunnel.  Those that come while a PONG is being
\* handled come behind it, and those that come after the end are lost.
TunnelStep ==
    /\ rx # "set_event"
    /\ AssemblyNext
    /\ rx = "ended" /\ sending => lost' /\ bufferVars' = bufferVars
    /\ UNCHANGED vars

PongStep == Next /\ UNCHANGED assemblyVars

BusNext == TunnelStep \/ PongStep

BusSpec == BusInit /\ [][BusNext]_busVars
=============================================================================
