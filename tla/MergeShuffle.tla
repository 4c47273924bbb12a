---------------------------- MODULE MergeShuffle ----------------------------
(***************************************************************************)
(* How a challenge polynomial is drawn before its operator norm is tried:  *)
(* signed ones, signed twos and zeros, mixed by two calls of merge_shuffle *)
(* (cpu_random_sampling.cpp).  The bits of RandomBitIterator are a         *)
(* parameter: a source assigns a value to every bit and every index a call *)
(* can ask for, and all sources are equally likely.                        *)
(***************************************************************************)
EXTENDS Integers, FiniteSets, FiniteSetsExt

CONSTANT D   \* Rq::d, the number of coefficients

ASSUME DAssumption == D \in Nat \ {0}

\* std::ceil(std::log2(n)), for the n >= 1 that are shuffled.
index_bits(n) == IF n <= 1 THEN 0 ELSE CHOOSE b \in 1 .. n : 2^b >= n /\ 2^(b - 1) < n

\* What an index of the second loop can be: do ... while (m > i) rejects the rest.
Draws(i, bits) == {m \in 0 .. 2^bits - 1 : m <= i}

\* The sources of one call on n elements.  The first loop asks for one bit at
\* each of i = 0 .. n at the most, the second for one index at each i.
Sources(n) ==
  [bit  : [0 .. n -> BOOLEAN],
   index : {x \in [0 .. n - 1 -> 0 .. n - 1] :
              \A i \in 0 .. n - 1 : x[i] \in Draws(i, index_bits(n))}]

Swap(a, i, j) == [a EXCEPT ![i] = a[j], ![j] = a[i]]

\* The first loop of merge_shuffle, from its iteration at i on: it ends with the
\* block it should take from empty.
Cross(array, size_a, size_b, source) ==
  LET n == size_a + size_b
      top[i \in 0 .. n + 1] ==
        IF i = 0 THEN [a |-> array, i |-> 0, j |-> size_a, over |-> FALSE]
        ELSE LET s == top[i - 1] IN
             CASE s.over -> s
               [] ~s.over /\ ~source.bit[s.i] /\ s.j # n ->
                    [s EXCEPT !.a = Swap(s.a, s.i, s.j), !.i = @ + 1, !.j = @ + 1]
               [] ~s.over /\ source.bit[s.i] /\ s.i # s.j -> [s EXCEPT !.i = @ + 1]
               [] OTHER -> [s EXCEPT !.over = TRUE]
  IN  top[n + 1]

\* Mutant: the elements left over stay where they are.
CrossOnly(array, size_a, size_b, source) == Cross(array, size_a, size_b, source).a

\* Crosses the two blocks, then moves each element left over to a place drawn
\* from those up to its own.
merge_shuffle(array, size_a, size_b, source) ==
  LET s == Cross(array, size_a, size_b, source)
      rest[i \in s.i .. size_a + size_b] ==
        IF i = s.i THEN s.a ELSE Swap(rest[i - 1], i - 1, source.index[i - 1])
  IN  rest[size_a + size_b]

\* The array before the first call: ones and twos with their signs, then zeros.
Initialized(ones, twos) ==
  {a \in [0 .. D - 1 -> -2 .. 2] :
     \A k \in 0 .. D - 1 : a[k] \in (CASE k < ones -> {-1, 1}
                                       [] ones <= k /\ k < ones + twos -> {-2, 2}
                                       [] OTHER -> {0})}

\* A distribution gives every array its weight.  This is the one that results
\* when an array is drawn from dist and shuffled with a source of its own.
Shuffled(dist, size_a, size_b) ==
  LET runs == {<<a, source, merge_shuffle(a, size_a, size_b, source)>> :
                 a \in DOMAIN dist, source \in Sources(size_a + size_b)}
      weight(S) == MapThenSumSet(LAMBDA a : dist[a] * Cardinality({r \in S : r[1] = a}),
                                 DOMAIN dist)
  IN  [x \in {r[3] : r \in runs} |-> weight({r \in runs : r[3] = x})]

\* The distribution of one try of cpu_challenge_space_polynomials_sampling.
Tries(ones, twos) ==
  LET blocks == Shuffled([a \in Initialized(ones, twos) |-> 1], ones, twos)
  IN  Shuffled(blocks, ones + twos, D - ones - twos)

\* The challenge space: `ones` coefficients 1 or -1 and `twos` of 2 or -2.
Challenges(ones, twos) ==
  LET count(x, v) == Cardinality({k \in 0 .. D - 1 : x[k] \in {v, -v}})
  IN  {x \in [0 .. D - 1 -> -2 .. 2] : count(x, 1) = ones /\ count(x, 2) = twos}

\* Every challenge is as likely as every other, and nothing else is drawn.
IsUniform(ones, twos) ==
  LET dist == Tries(ones, twos)
  IN  /\ DOMAIN dist = Challenges(ones, twos)
      /\ Cardinality({dist[x] : x \in DOMAIN dist}) = 1
=============================================================================
