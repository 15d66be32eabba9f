------------------------------ MODULE MCAuditLog ------------------------------
(* AuditLog for TLC, with the rotation interval scaled down from 1000 to 2 and  *)
(* the recent verification from 1000 entries to 2.                              *)
EXTENDS AuditLog
===============================================================================
