--------------------------- MODULE MCRetentionClock ---------------------------
(***************************************************************************)
(* Instances of RetentionClock for TLC: u64 has six values.                *)
(***************************************************************************)
EXTENDS RetentionClock

CONSTANTS b1, e1

OneBlob == {b1}
OneEntry == {e1}

\* Short, longer than what is left of u64, and one cut to 1.
EdgeRetentions == {1, 4, 7}

Early == {0}
==============================================================================
