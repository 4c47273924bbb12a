--------------------------- MODULE MC_JLSelection ---------------------------
(* A byte of four values, and a counter that outlives it twice.             *)
EXTENDS JLSelection
=============================================================================
