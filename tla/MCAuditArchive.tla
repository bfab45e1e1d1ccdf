---- MODULE MCAuditArchive ----
(***************************************************************************)
(* Instances of AuditArchive for TLC.                                      *)
(***************************************************************************)
EXTENDS AuditArchive, TLC
CONSTANTS jan, feb, mar, j1, j2
====
