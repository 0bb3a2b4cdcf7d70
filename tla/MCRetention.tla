----------------------------- MODULE MCRetention ------------------------------
(***************************************************************************)
(* Instances of Retention for TLC.                                         *)
(***************************************************************************)
EXTENDS RetentionProperties, MCTaskBackend

\* The calls of a sweep that fail on their own.
SweepFaults == {"delete", "unlink"}
\* Those under which every task gets its outcome, and every blob expires.
OutcomeFaults == SoftFaults \union {"list", "delete", "unlink"}
==============================================================================
