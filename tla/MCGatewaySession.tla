-------------------------- MODULE MCGatewaySession --------------------------
(***************************************************************************)
(* GatewaySession for TLC.  Session ids are interchangeable, but the run   *)
(* checks liveness, so that no symmetry is declared.                       *)
(***************************************************************************)
EXTENDS GatewaySession
=============================================================================
