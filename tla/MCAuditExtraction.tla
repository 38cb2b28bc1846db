---------------------------- MODULE MCAuditExtraction ----------------------------
(* A small instance of AuditExtraction for TLC: two units that share a header.   *)
EXTENDS AuditExtraction

CONSTANTS s1, s2
TwoUnits == <<s1, s2>>
================================================================================
