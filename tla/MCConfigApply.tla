----------------------------- MODULE MCConfigApply -----------------------------
(* The instance of ConfigApply that TLC checks: see ConfigApply.cfg. *)
EXTENDS ConfigApply
CONSTANTS good1, good2, garbled, badSources, badProfiles, ticker
=============================================================================
