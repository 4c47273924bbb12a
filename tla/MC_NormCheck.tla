---------------------------- MODULE MC_NormCheck ----------------------------
(* Vectors of five elements over Z_31, three workers, the last chunk of one  *)
(* element; sqrt(31) is 5, so 5 .. 26 are out of the range of the L2 check.  *)
EXTENDS NormCheck

Vec(a, b, c, d, e) ==
  [i \in 0 .. 4 |-> CASE i = 0 -> a [] i = 1 -> b [] i = 2 -> c [] i = 3 -> d [] i = 4 -> e]
MCVectors == {Vec(1, 30, 2, 28, 3), Vec(4, 0, 1, 2, 27), Vec(0, 1, 9, 0, 1),
              Vec(0, 0, 0, 0, 0), Vec(3, 2, 0, 0, 30), Vec(5, 1, 1, 26, 2)}
MCCalls ==
  {[fn |-> "check_norm_bound", norm |-> norm, a |-> a, b |-> <<>>, limit |-> limit] :
     norm \in {"L2", "LInfinity"}, a \in MCVectors \cup {<<>>}, limit \in 3 .. 6}
  \cup {[fn |-> "check_norm_relative", norm |-> norm, a |-> a, b |-> b, limit |-> limit] :
     norm \in {"L2", "LInfinity"}, a \in MCVectors, b \in MCVectors, limit \in 1 .. 2}
  \cup {[fn |-> "check_norm_relative", norm |-> "L2", a |-> [i \in 0 .. 5 |-> i],
         b |-> [i \in 0 .. 5 |-> i], limit |-> 1]}
=============================================================================
