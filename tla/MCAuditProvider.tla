---------------------------- MODULE MCAuditProvider ----------------------------
(* Two projects, either of which can also be named as an input root of the      *)
(* other, and a file inside each and outside both; each project's compilation   *)
(* model lists all three.                                                       *)
EXTENDS AuditProvider

CONSTANTS a, b, fa, fb, fo

MCHome == [f \in Files |-> IF f = fa THEN a ELSE IF f = fb THEN b ELSE Outside]
MCUnits == [p \in Projects |-> Files]
================================================================================
