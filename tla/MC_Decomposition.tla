-------------------------- MODULE MC_Decomposition --------------------------
(* Decomposition on every element of Z_31, in a vector of three elements    *)
(* that takes two tasks, the second one partial.                            *)
EXTENDS Decomposition

MCQ == 31
MCVectors == {<<>>} \cup {[e \in 0 .. 2 |-> (x + 11 * e) % MCQ] : x \in 0 .. MCQ - 1}

=============================================================================
