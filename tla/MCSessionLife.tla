--------------------------- MODULE MCSessionLife ---------------------------
(* The instances of SessionLife that TLC checks: see the cfg files. *)
EXTENDS SessionLife
=============================================================================
