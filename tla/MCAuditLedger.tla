--------------------------- MODULE MCAuditLedger ---------------------------
(* Small instances of AuditLedger for TLC: r3 is the oversized request. *)
EXTENDS AuditLedger

CONSTANTS r1, r2, r3
============================================================================
