--------------------------- MODULE MCAuditVerifier ---------------------------
(* Small instances of AuditVerifier for TLC. *)
EXTENDS AuditVerifier

CONSTANT MaxNow   \* how often the clock moves

ClockBound == now <= MaxNow
=============================================================================
