--------------------------- MODULE MCStressResult ---------------------------
(* Small instances of StressResult for TLC. *)
EXTENDS StressResult
=============================================================================
