--------------------------- MODULE MC_BaseRound ---------------------------
(* One round over Z_17[X]/(X^2 + 1): three witness vectors of two elements, *)
(* two equality and two constant-zero constraints, two aggregation rounds   *)
(* and a two-row projection.  Constants stand for random data: every slot   *)
(* of the Ajtai matrices is invertible, the a of the constraints is not     *)
(* symmetric, and one choice of psi and of alpha annihilates the slack.     *)
EXTENDS BaseRound

P(x, y) == [c \in 0 .. 1 |-> IF c = 0 THEN x % 17 ELSE y % 17]
Matrix(len, s) == [e \in 0 .. len - 1 |-> P(1 + ((7 * e + s) % 16), 1 + ((5 * e + 3 * s) % 16))]

MCA == Matrix(2, 1)
MCB == Matrix(9, 2)
MCC == Matrix(18, 3)
MCD == Matrix(18, 4)

Con(s) == [a   |-> [e \in 0 .. 8 |-> P(3 * e + s, e * e + 2 * s)],
           phi |-> [e \in 0 .. 5 |-> P(5 * e + 2 * s, s + e)]]
MCShapes == {[eq |-> <<Con(1), Con(2)>>, cz |-> <<Con(3), Con(4)>>],
             [eq |-> <<Con(5)>>, cz |-> <<>>]}
MCSlacks == {[eq |-> P(0, 0), cz |-> 0], [eq |-> P(0, 3), cz |-> 0],
             [eq |-> P(0, 0), cz |-> 2]}

Wit(f(_)) == [e \in 0 .. 5 |-> f(e)]
MCWitnesses ==
  { Wit(LAMBDA e : IF e = 0 THEN P(1, 16) ELSE IF e = 3 THEN P(0, 1) ELSE P(0, 0)),
    Wit(LAMBDA e : IF e % 2 = 0 THEN P(1, 0) ELSE P(16, 1)),
    Wit(LAMBDA e : P(e % 2, (e + 16) % 3)) }

\* Rows with entries in {-1, 0, 1}, one polynomial per witness element.
Row(s) == [e \in 0 .. 5 |-> P(((e + s) % 3) + 16, ((2 * e + s) % 3) + 16)]
MCProjections == {<<Row(0), Row(1)>>, <<Row(2), Row(1)>>}
MCFalse == {<<3, 3>>, <<1, 0>>}

MCPsis   == {<< <<1, 2>>, <<3, 4>> >>, << <<0, 5>>, <<0, 7>> >>}
MCOmegas == {<< <<2, 5>>, <<1, 16>> >>}
MCAlphas == {<<P(3, 5), P(2, 7), P(11, 1), P(4, 9)>>, <<P(5, 0), P(1, 1), P(6, 2), P(8, 3)>>}
MCChallenges == {[i \in 0 .. 2 |-> IF i = 1 THEN P(0, 1) ELSE P(1, 0)],
                 [i \in 0 .. 2 |-> IF i = 2 THEN P(16, 0) ELSE P(0, 16)]}
MCAlterations ==
  {[part |-> "z_hat", at |-> k, by |-> P(1, 16)] : k \in 0 .. 1}
  \cup {[part |-> part, at |-> k, by |-> P(0, 2)] : part \in {"t", "g", "h"}, k \in {0, 5, 8}}
=============================================================================
