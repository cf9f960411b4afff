---------------------------- MODULE MCAuditSink ----------------------------
(* The instance of AuditSink that TLC checks: see AuditSink.cfg. *)
EXTENDS AuditSink
=============================================================================
