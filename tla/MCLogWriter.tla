------------------------------ MODULE MCLogWriter ------------------------------
(* One logger, two records and a failing write for TLC. *)
EXTENDS LogWriter
================================================================================
