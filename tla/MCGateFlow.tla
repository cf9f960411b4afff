---------------------------- MODULE MCGateFlow ----------------------------
(* The instance of GateFlow that TLC checks: see GateFlow.cfg. *)
EXTENDS GateFlow
=============================================================================
