----------------------------- MODULE MCListMirror -----------------------------
(* The instance of ListMirror that TLC checks: see ListMirror.cfg. *)
EXTENDS ListMirror
=============================================================================
