--------------------------- MODULE VectorOpsProofs ---------------------------
(***************************************************************************)
(* The multi-threaded vector operations of the CPU backend.  The tasks of  *)
(* the norm checks compute the norm, for every modulus, every number of    *)
(* workers and every vector.  And for every odd modulus, base, number of   *)
(* digits, size of a task and order of the passes, the digits of a vector  *)
(* stand for it, are as small as the verifier wants them, and give it back *)
(* exactly when they can.                                                  *)
(***************************************************************************)
EXTENDS NormCheck, Decomposition, DigitsProofs, FiniteSetTheorems

-----------------------------------------------------------------------------
(* NORM CHECKS.                                                             *)
(* A bounded, non-empty set of numbers has a largest one.                   *)
LEMMA MaxOfBounded ==
  ASSUME NEW S \in SUBSET Nat, S # {}, NEW b \in Nat, \A x \in S : x <= b
  PROVE  Max(S) \in S /\ \A x \in S : x <= Max(S)
<1> DEFINE U == {k \in Nat : \A x \in S : x <= k}
<1>1. PICK m \in U : \A k \in U : m <= k
  BY Least
<1>2. m \in S
  <2> SUFFICES ASSUME m \notin S PROVE FALSE
    OBVIOUS
  <2>1. PICK x \in S : TRUE
    OBVIOUS
  <2>2. m \in Nat /\ x \in Nat /\ x <= m /\ x # m
    BY <2>1
  <2>3. m - 1 \in Nat /\ m - 1 < m
    BY <2>2
  <2>4. \A y \in S : y <= m - 1
    BY <2>2
  <2> QED BY <1>1, <2>3, <2>4
<1>3. \A y \in S : m >= y
  BY <1>1
<1>4. Max(S) \in S /\ \A y \in S : Max(S) >= y
  BY <1>2, <1>3 DEF Max
<1> QED BY <1>4

-----------------------------------------------------------------------------
(* SumBetween is the sum its loop computes: the function with these values  *)
(* exists and is the only one.                                              *)
Sums(g, f, lo, hi) ==
  g = [k \in lo .. hi |-> IF k = lo THEN 0 ELSE g[k - 1] + f[k - 1]]

(* The partial sums of a SumBetween are what their equations say,           *)
LEMMA SumsExist ==
  ASSUME NEW f, NEW lo \in Nat, NEW n \in Nat
  PROVE  \E g : Sums(g, f, lo, lo + n)
<1> DEFINE S == {m \in Nat : \E g : Sums(g, f, lo, lo + m)}
<1>1. 0 \in S
  <2>1. Sums([k \in lo .. lo |-> 0], f, lo, lo + 0)
    BY DEF Sums
  <2> QED BY <2>1
<1>2. ASSUME NEW m \in S PROVE m + 1 \in S
  <2>1. PICK g : Sums(g, f, lo, lo + m)
    OBVIOUS
  <2> DEFINE h == [k \in lo .. lo + (m + 1) |->
                     IF k = lo + (m + 1) THEN g[lo + m] + f[lo + m] ELSE g[k]]
  <2>2. \A k \in lo .. lo + m : h[k] = g[k] /\ g[k] = IF k = lo THEN 0 ELSE g[k - 1] + f[k - 1]
    BY <2>1 DEF Sums
  <2>3. \A k \in lo .. lo + (m + 1) : h[k] = IF k = lo THEN 0 ELSE h[k - 1] + f[k - 1]
    <3> SUFFICES ASSUME NEW k \in lo .. lo + (m + 1)
                 PROVE  h[k] = IF k = lo THEN 0 ELSE h[k - 1] + f[k - 1]
      OBVIOUS
    <3>1. CASE k = lo + (m + 1)
      <4>1. k # lo /\ k - 1 = lo + m /\ lo + m \in lo .. lo + m
        BY <3>1
      <4>2. h[k] = g[lo + m] + f[lo + m] /\ h[lo + m] = g[lo + m]
        BY <2>2, <3>1, <4>1
      <4> QED BY <4>1, <4>2
    <3>2. CASE k # lo + (m + 1)
      <4>1. k \in lo .. lo + m /\ (k # lo => k - 1 \in lo .. lo + m)
        BY <3>2
      <4> QED BY <2>2, <4>1
    <3> QED BY <3>1, <3>2
  <2>4. Sums(h, f, lo, lo + (m + 1))
    BY <2>3 DEF Sums
  <2> QED BY <2>4
<1> HIDE DEF S
<1>3. S = Nat
  BY <1>1, <1>2, Induction DEF S
<1> QED BY <1>3 DEF S

(* and nothing else is,                                                     *)
LEMMA SumsUnique ==
  ASSUME NEW f, NEW lo \in Nat, NEW a \in Nat, NEW b \in Nat,
         NEW g, Sums(g, f, lo, a), NEW h, Sums(h, f, lo, b),
         NEW k \in lo .. a, k <= b
  PROVE  g[k] = h[k]
<1> DEFINE S == {m \in Nat : lo + m <= a /\ lo + m <= b => g[lo + m] = h[lo + m]}
<1>1. /\ \A i \in lo .. a : g[i] = IF i = lo THEN 0 ELSE g[i - 1] + f[i - 1]
      /\ \A i \in lo .. b : h[i] = IF i = lo THEN 0 ELSE h[i - 1] + f[i - 1]
  BY DEF Sums
<1>2. 0 \in S
  BY <1>1
<1>3. ASSUME NEW m \in S PROVE m + 1 \in S
  <2> SUFFICES ASSUME lo + (m + 1) <= a, lo + (m + 1) <= b
               PROVE  g[lo + (m + 1)] = h[lo + (m + 1)]
    OBVIOUS
  <2>1. g[lo + m] = h[lo + m]
    OBVIOUS
  <2>2. /\ lo + (m + 1) \in lo .. a /\ lo + (m + 1) \in lo .. b /\ lo + (m + 1) # lo
        /\ lo + (m + 1) - 1 = lo + m
    OBVIOUS
  <2> QED BY <1>1, <2>1, <2>2
<1> HIDE DEF S
<1>4. S = Nat
  BY <1>2, <1>3, Induction DEF S
<1>5. k - lo \in Nat /\ lo + (k - lo) = k
  OBVIOUS
<1> QED BY <1>4, <1>5 DEF S

(* so a sum over an interval grows by its last term.                        *)
LEMMA SumUnrolls ==
  ASSUME NEW f, NEW lo \in Nat
  PROVE  /\ SumBetween(f, lo, lo) = 0
         /\ \A hi \in Nat : lo <= hi =>
              SumBetween(f, lo, hi + 1) = SumBetween(f, lo, hi) + f[hi]
<1> DEFINE sum(hi) == CHOOSE g : Sums(g, f, lo, hi)
<1>1. \A hi \in Nat : SumBetween(f, lo, hi) = sum(hi)[hi]
  BY DEF SumBetween, Sums
<1>2. ASSUME NEW hi \in Nat, lo <= hi PROVE Sums(sum(hi), f, lo, hi)
  <2>1. hi - lo \in Nat /\ lo + (hi - lo) = hi
    BY <1>2
  <2>2. \E g : Sums(g, f, lo, hi)
    BY <2>1, SumsExist
  <2> QED BY <2>2
<1> HIDE DEF sum
<1>3. \A hi \in Nat : lo <= hi =>
        \A k \in lo .. hi : sum(hi)[k] = IF k = lo THEN 0 ELSE sum(hi)[k - 1] + f[k - 1]
  BY <1>2 DEF Sums
<1>4. SumBetween(f, lo, lo) = 0
  BY <1>1, <1>3
<1>5. ASSUME NEW hi \in Nat, lo <= hi
      PROVE  SumBetween(f, lo, hi + 1) = SumBetween(f, lo, hi) + f[hi]
  <2>1. hi + 1 \in Nat /\ lo <= hi + 1 /\ hi + 1 \in lo .. hi + 1 /\ hi + 1 # lo
        /\ hi + 1 - 1 = hi /\ hi \in lo .. hi /\ hi <= hi + 1
    BY <1>5
  <2>2. sum(hi + 1)[hi + 1] = sum(hi + 1)[hi] + f[hi]
    BY <1>3, <2>1
  <2>3. sum(hi + 1)[hi] = sum(hi)[hi]
    BY <1>2, <1>5, <2>1, SumsUnique
  <2> QED BY <1>1, <2>1, <2>2, <2>3
<1> QED BY <1>4, <1>5

(* A sum of numbers is a number.                                            *)
LEMMA SumNat ==
  ASSUME NEW f, NEW lo \in Nat, NEW hi \in Nat, lo <= hi,
         \A k \in lo .. hi - 1 : f[k] \in Nat
  PROVE  SumBetween(f, lo, hi) \in Nat
<1> DEFINE S == {m \in Nat : lo + m <= hi => SumBetween(f, lo, lo + m) \in Nat}
<1>1. 0 \in S
  BY SumUnrolls
<1>2. ASSUME NEW m \in S PROVE m + 1 \in S
  <2> SUFFICES ASSUME lo + (m + 1) <= hi PROVE SumBetween(f, lo, lo + (m + 1)) \in Nat
    OBVIOUS
  <2>1. lo + m \in Nat /\ lo + m \in lo .. hi - 1 /\ lo <= lo + m
        /\ lo + (m + 1) = (lo + m) + 1
    OBVIOUS
  <2>2. SumBetween(f, lo, lo + m) \in Nat /\ f[lo + m] \in Nat
    BY <2>1
  <2>3. SumBetween(f, lo, (lo + m) + 1) = SumBetween(f, lo, lo + m) + f[lo + m]
    BY <2>1, SumUnrolls
  <2> QED BY <2>1, <2>2, <2>3
<1> HIDE DEF S
<1>3. S = Nat
  BY <1>1, <1>2, Induction DEF S
<1>4. hi - lo \in Nat /\ lo + (hi - lo) = hi /\ hi <= hi
  OBVIOUS
<1>5. hi - lo \in S
  BY <1>3, <1>4
<1> QED BY <1>4, <1>5 DEF S

(* Two loops, one after the other.                                          *)
LEMMA SumsJoin ==
  ASSUME NEW f, NEW lo \in Nat, NEW mid \in Nat, NEW hi \in Nat, lo <= mid, mid <= hi,
         \A k \in lo .. hi - 1 : f[k] \in Nat
  PROVE  SumBetween(f, lo, hi) = SumBetween(f, lo, mid) + SumBetween(f, mid, hi)
<1> DEFINE S == {m \in Nat : mid + m <= hi =>
                   SumBetween(f, lo, mid + m)
                     = SumBetween(f, lo, mid) + SumBetween(f, mid, mid + m)}
<1>1. SumBetween(f, lo, mid) \in Nat
  BY SumNat
<1>2. 0 \in S
  BY <1>1, SumUnrolls
<1>3. ASSUME NEW m \in S PROVE m + 1 \in S
  <2> SUFFICES ASSUME mid + (m + 1) <= hi
               PROVE  SumBetween(f, lo, mid + (m + 1))
                        = SumBetween(f, lo, mid) + SumBetween(f, mid, mid + (m + 1))
    OBVIOUS
  <2> DEFINE k == mid + m
  <2>1. k \in Nat /\ lo <= k /\ mid <= k /\ k \in lo .. hi - 1 /\ mid + (m + 1) = k + 1
    OBVIOUS
  <2>2. f[k] \in Nat
    BY <2>1
  <2>3. SumBetween(f, mid, k) \in Nat
    BY <2>1, SumNat
  <2>4. SumBetween(f, lo, k) = SumBetween(f, lo, mid) + SumBetween(f, mid, k)
    BY <2>1
  <2> HIDE DEF k
  <2>5. /\ SumBetween(f, lo, k + 1) = SumBetween(f, lo, k) + f[k]
        /\ SumBetween(f, mid, k + 1) = SumBetween(f, mid, k) + f[k]
    BY <2>1, SumUnrolls
  <2> QED BY <1>1, <2>1, <2>2, <2>3, <2>4, <2>5
<1> HIDE DEF S
<1>4. S = Nat
  BY <1>2, <1>3, Induction DEF S
<1>5. hi - mid \in Nat /\ mid + (hi - mid) = hi /\ hi <= hi
  OBVIOUS
<1>6. hi - mid \in S
  BY <1>4, <1>5
<1> QED BY <1>5, <1>6 DEF S
-----------------------------------------------------------------------------
(* The tasks share out the vector: every index is in the chunk of a task.   *)
LEMMA SizeTyped ==
  ASSUME call \in Calls
  PROVE  /\ size \in Nat /\ Indices = 0 .. size - 1
         /\ call.a \in [Indices -> 0 .. Q - 1] /\ call.limit \in Nat
         /\ relative => call.b \in [Indices -> 0 .. Q - 1]
         /\ call.norm \in {"L2", "LInfinity"}
         /\ call.fn \in {"check_norm_bound", "check_norm_relative"}
<1>1. /\ call.a \in [0 .. size - 1 -> 0 .. Q - 1]
      /\ relative => call.b \in [0 .. size - 1 -> 0 .. Q - 1]
      /\ call.norm \in {"L2", "LInfinity"} /\ call.limit \in Nat
      /\ call.fn \in {"check_norm_bound", "check_norm_relative"}
  BY NormAssumption DEF size, relative
<1>2. Indices = 0 .. size - 1
  BY <1>1 DEF Indices
<1>3. size \in Nat
  BY NormAssumption, FS_CardinalityType DEF size
<1> QED BY <1>1, <1>2, <1>3

(* The entries of the vectors are numbers.                                  *)
LEMMA AtTyped ==
  ASSUME call \in Calls, NEW v \in Vectors, NEW i \in Indices
  PROVE  At(v, i) \in Nat /\ At(v, i) <= Q
<1>1. (IF v = "a" THEN call.a[i] ELSE call.b[i]) \in 0 .. Q - 1
  BY SizeTyped DEF Vectors
<1>2. \A x \in 0 .. Q - 1 : abs_centered(x) \in Nat /\ abs_centered(x) <= Q
  BY QAssumption DEF abs_centered
<1> QED BY <1>1, <1>2 DEF At

(* The tasks are not empty, and together cover the vector.                  *)
LEMMA WorkerTaskSize ==
  ASSUME call \in Calls, size > 0
  PROVE  worker_task_size \in Nat \ {0} /\ size <= Workers * worker_task_size
<1>1. \A x \in Nat, d \in Nat \ {0} :
        /\ x \div d \in Nat
        /\ x < d * (x \div d) + d
  OBVIOUS
<1>2. size \in Nat /\ Workers \in Nat \ {0}
  BY SizeTyped, NormAssumption
<1> DEFINE w == worker_task_size
<1>3. w \in Nat /\ size + Workers - 1 < Workers * w + Workers
  BY <1>1, <1>2 DEF worker_task_size
<1>4. Workers * w \in Nat
  BY <1>2, <1>3
<1>5. size <= Workers * w
  BY <1>2, <1>3, <1>4
<1>6. w # 0
  BY <1>2, <1>5
<1> QED BY <1>3, <1>5, <1>6

(* A task starts no later than it ends, within the vector.                  *)
LEMMA Bounds ==
  ASSUME call \in Calls, size > 0, NEW t \in Tasks
  PROVE  /\ start_idx(t) \in Nat /\ end_idx(t) \in Nat
         /\ start_idx(t) <= end_idx(t) /\ end_idx(t) <= size
         /\ Chunk(t) \subseteq Indices
<1>1. t \in Nat /\ start_idx(t) < size
  BY DEF Tasks, start_idx
<1>2. start_idx(t) \in Nat
  BY <1>1, WorkerTaskSize DEF start_idx
<1>3. size \in Nat /\ Indices = 0 .. size - 1 /\ worker_task_size \in Nat
  BY SizeTyped, WorkerTaskSize
<1> QED BY <1>1, <1>2, <1>3 DEF end_idx, Chunk

(* Every element belongs to a task.                                         *)
LEMMA ChunksCover ==
  ASSUME call \in Calls, size > 0, NEW i \in Indices
  PROVE  \E t \in Tasks : i \in Chunk(t)
<1> DEFINE w == worker_task_size
           T == {t \in Nat : i < t * w + w}
<1>1. /\ i \in Nat /\ i < size /\ size \in Nat /\ Workers \in Nat \ {0} /\ w \in Nat \ {0}
      /\ size <= Workers * w
  BY SizeTyped, WorkerTaskSize, NormAssumption
<1>2. Workers - 1 \in T
  <2>1. Workers - 1 \in Nat /\ (Workers - 1) * w + w = Workers * w
    BY <1>1
  <2>2. Workers * w \in Nat
    BY <1>1
  <2>3. i < (Workers - 1) * w + w
    BY <1>1, <2>1, <2>2
  <2> QED BY <2>1, <2>3
<1>3. PICK m \in T : \A k \in T : m <= k
  BY <1>2, Least
<1>4. m \in Nat /\ m <= Workers - 1 /\ i < m * w + w
  BY <1>2, <1>3
<1>5. m * w <= i
  <2>1. CASE m = 0
    BY <1>1, <2>1
  <2>2. CASE m # 0
    <3>1. m - 1 \in Nat /\ m - 1 \notin T
      BY <1>3, <1>4, <2>2
    <3>2. (m - 1) * w + w = m * w /\ m * w \in Nat
      BY <1>1, <1>4
    <3> QED BY <1>1, <3>1, <3>2
  <2> QED BY <2>1, <2>2
<1>6. m * w \in Nat
  BY <1>1, <1>4
<1>7. m \in Tasks
  BY <1>1, <1>4, <1>5, <1>6 DEF Tasks
<1>8. i \in Chunk(m)
  BY <1>1, <1>4, <1>5, <1>6 DEF Chunk, start_idx, end_idx
<1> QED BY <1>7, <1>8

(* The sums of the tasks make up the sum over the vector.                   *)
LEMMA SumOfTasks ==
  ASSUME call \in Calls, size > 0, NEW v \in Vectors, NEW sums,
         \A t \in Tasks : sums[t] = SumBetween(Squares(v), start_idx(t), end_idx(t)),
         \A t \in (0 .. Workers - 1) \ Tasks : sums[t] = 0
  PROVE  SumBetween(sums, 0, Workers) = SumBetween(Squares(v), 0, size)
<1> DEFINE w == worker_task_size
           f == Squares(v)
           Cut(x) == IF x < size THEN x ELSE size
           S == {t \in Nat : t <= Workers =>
                   SumBetween(sums, 0, t) = SumBetween(f, 0, Cut(t * w))}
<1>1. /\ size \in Nat /\ Workers \in Nat \ {0} /\ w \in Nat \ {0} /\ size <= Workers * w
      /\ Workers * w \in Nat /\ Indices = 0 .. size - 1
  <2>1. \A a, b \in Nat : a * b \in Nat
    OBVIOUS
  <2> QED BY <2>1, SizeTyped, WorkerTaskSize, NormAssumption
<1>2. \A k \in 0 .. size - 1 : f[k] \in Nat
  <2>1. \A a \in Nat : a * a \in Nat
    OBVIOUS
  <2> QED BY <1>1, <2>1, AtTyped DEF Squares
<1> HIDE DEF f
<1>3. 0 \in S
  <2>1. Cut(0 * w) = 0
    BY <1>1
  <2> QED BY <2>1, SumUnrolls
<1>4. ASSUME NEW t \in S PROVE t + 1 \in S
  <2> SUFFICES ASSUME t + 1 <= Workers
               PROVE  SumBetween(sums, 0, t + 1) = SumBetween(f, 0, Cut((t + 1) * w))
    OBVIOUS
  <2> DEFINE x == t * w
  <2>0. t \in Nat /\ Workers \in Nat
    BY <1>1
  <2>1. t \in Nat /\ t \in 0 .. Workers - 1 /\ t <= Workers /\ 0 <= t
    BY <2>0
  <2>2. x \in Nat /\ (t + 1) * w = x + w
    BY <1>1, <2>1
  <2>3. SumBetween(sums, 0, t) = SumBetween(f, 0, Cut(x))
    BY <2>1
  <2>4. t \in Tasks <=> x < size
    BY <2>1 DEF Tasks
  <2>5. start_idx(t) = x /\ end_idx(t) = Cut(x + w)
    BY DEF start_idx, end_idx
  <2> HIDE DEF x
  <2>6. SumBetween(sums, 0, t + 1) = SumBetween(sums, 0, t) + sums[t]
    BY <2>1, SumUnrolls
  <2>7. SumBetween(f, 0, Cut(x)) \in Nat
    <3>1. Cut(x) \in Nat /\ 0 <= Cut(x) /\ \A k \in 0 .. Cut(x) - 1 : k \in 0 .. size - 1
      BY <1>1, <2>2
    <3> HIDE DEF Cut
    <3> QED BY <1>2, <3>1, SumNat
  <2>8. CASE x < size
    <3>1. /\ Cut(x) = x /\ Cut(x + w) \in Nat /\ 0 <= x /\ x <= Cut(x + w) /\ Cut(x + w) <= size
          /\ \A k \in 0 .. Cut(x + w) - 1 : k \in 0 .. size - 1
      BY <1>1, <2>2, <2>8
    <3> HIDE DEF Cut
    <3>2. SumBetween(f, 0, Cut(x + w)) = SumBetween(f, 0, x) + SumBetween(f, x, Cut(x + w))
      BY <1>2, <2>2, <3>1, SumsJoin
    <3>3. sums[t] = SumBetween(f, x, Cut(x + w))
      BY <2>4, <2>5, <2>8 DEF f
    <3> QED BY <2>2, <2>3, <2>6, <3>1, <3>2, <3>3
  <2>9. CASE ~(x < size)
    <3>1. sums[t] = 0 /\ Cut(x) = size /\ Cut(x + w) = size
      BY <1>1, <2>1, <2>2, <2>4, <2>9
    <3> QED BY <2>2, <2>3, <2>6, <2>7, <3>1
  <2> QED BY <2>8, <2>9
<1>5. Cut(Workers * w) = size
  BY <1>1
<1> HIDE DEF S
<1>6. S = Nat
  BY <1>3, <1>4, Induction DEF S
<1>7. Workers \in S /\ Workers <= Workers
  BY <1>1, <1>6
<1> QED BY <1>5, <1>7 DEF S, f

(* The largest entry of a set of indices.                                   *)
LEMMA LargestTyped ==
  ASSUME call \in Calls, NEW v \in Vectors, NEW I \in SUBSET Indices
  PROVE  /\ Largest(I, v) \in Nat
         /\ Largest(I, v) = 0 \/ \E i \in I : Largest(I, v) = At(v, i)
         /\ \A i \in I : At(v, i) <= Largest(I, v)
<1> DEFINE S == {0} \cup {At(v, i) : i \in I}
<1>1. S \in SUBSET Nat /\ S # {} /\ Q \in Nat /\ \A x \in S : x <= Q
  BY AtTyped, QAssumption
<1>2. Max(S) \in S /\ \A x \in S : x <= Max(S)
  BY <1>1, MaxOfBounded
<1> QED BY <1>1, <1>2 DEF Largest
-----------------------------------------------------------------------------
(* The inductive invariant.  A task that is past its scan has its sums in   *)
(* thread_sums or its maxima in local, unless an entry is out of range,     *)
(* which the flag says.  In the relative check a task leaves a maximum only *)
(* when its own is not above it; in both, no maximum exceeds the vector's.  *)
Refused == size = 0 \/ (relative /\ size > MaxRelative)
Scanned(t) == pc[t] # "scan" /\ ~OutOfRange(t)

Typed ==
  /\ call \in Calls
  /\ pc \in [Tasks -> {"scan", "load", "cas", "done"}]
  /\ vec \in [Tasks -> Vectors]
  /\ local \in [Tasks -> [Vectors -> Nat]]
  /\ current_max \in [Tasks -> Nat]
  /\ max_abs \in [Vectors -> Nat]
  /\ thread_sums \in [Vectors -> [0 .. Workers - 1 -> Nat]]
  /\ validation_failed \in BOOLEAN
  /\ result \in {"none", "INVALID_ARGUMENT", "true", "false"}

Flagged ==
  /\ validation_failed => \E t \in Tasks : OutOfRange(t)
  /\ \A t \in Tasks :
       pc[t] # "scan" /\ OutOfRange(t) => validation_failed /\ pc[t] = "done"

SumsKept ==
  call.norm = "L2" =>
    /\ \A t \in Tasks : pc[t] \in {"scan", "done"}
    /\ \A v \in Vectors :
         /\ \A t \in (0 .. Workers - 1) \ Tasks : thread_sums[v][t] = 0
         /\ \A t \in Tasks :
              Scanned(t) =>
                thread_sums[v][t] = SumBetween(Squares(v), start_idx(t), end_idx(t))

MaximaKept ==
  call.norm # "L2" =>
    \A v \in Vectors :
      /\ max_abs[v] <= MaxOf(v)
      /\ \A t \in Tasks :
           /\ Scanned(t) => local[t][v] = Largest(Chunk(t), v)
           /\ pc[t] = "scan" => vec[t] = "a"
           /\ pc[t] = "cas" => current_max[t] < local[t][vec[t]]
           /\ relative /\ Scanned(t) /\ (pc[t] = "done" \/ (vec[t] = "b" /\ v = "a"))
                => local[t][v] <= max_abs[v]

Answered ==
  result # "none" =>
    /\ \A t \in Tasks : pc[t] = "done"
    /\ result = IF validation_failed THEN "INVALID_ARGUMENT"
                ELSE IF Below THEN "true" ELSE "false"

Untouched ==
  /\ result \in {"none", "INVALID_ARGUMENT"}
  /\ \A t \in Tasks : pc[t] = IF result = "none" THEN "scan" ELSE "done"

IndInv ==
  /\ Typed
  /\ Refused => Untouched
  /\ ~Refused => Flagged /\ SumsKept /\ MaximaKept /\ Answered

(* The invariant holds of any call.                                         *)
LEMMA InitInv == Init => IndInv
<1> SUFFICES ASSUME Init PROVE IndInv
  OBVIOUS
<1>1. call \in Calls /\ "a" \in Vectors
  BY DEF Init, Vectors
<1>2. Typed
  BY <1>1, NormAssumption DEF Init, Typed
<1>3. \A t \in Tasks : pc[t] = "scan" /\ ~Scanned(t)
  BY DEF Init, Scanned
<1>4. MaximaKept
  <2>1. \A v \in Vectors : max_abs[v] = 0 /\ MaxOf(v) \in Nat
    BY <1>1, LargestTyped DEF Init, MaxOf
  <2>2. \A t \in Tasks : vec[t] = "a"
    BY DEF Init
  <2> QED BY <1>3, <2>1, <2>2 DEF MaximaKept
<1>5. SumsKept
  BY <1>3 DEF SumsKept, Init, Tasks
<1>6. Flagged /\ Answered /\ Untouched
  BY <1>3 DEF Init, Flagged, Answered, Untouched
<1> QED BY <1>2, <1>4, <1>5, <1>6 DEF IndInv

(* What depends on the arguments alone stays as it is.                      *)
LEMMA CallKept ==
  ASSUME UNCHANGED call
  PROVE  /\ Tasks' = Tasks /\ Vectors' = Vectors /\ size' = size
         /\ (relative' <=> relative) /\ (Refused' <=> Refused)
         /\ \A t : (OutOfRange(t))' <=> OutOfRange(t)
         /\ \A t, v : SumBetween(Squares(v), start_idx(t), end_idx(t))'
                        = SumBetween(Squares(v), start_idx(t), end_idx(t))
         /\ \A t, v : Largest(Chunk(t), v)' = Largest(Chunk(t), v)
         /\ \A v : MaxOf(v)' = MaxOf(v)
<1>1. Tasks' = Tasks /\ Vectors' = Vectors /\ size' = size /\ (relative' <=> relative)
  BY DEF Tasks, Vectors, size, relative, worker_task_size
<1>2. Refused' <=> Refused
  BY <1>1 DEF Refused
<1>3. worker_task_size' = worker_task_size /\ Indices' = Indices
  BY DEF worker_task_size, size, Indices
<1>4. \A t : start_idx(t)' = start_idx(t) /\ end_idx(t)' = end_idx(t) /\ Chunk(t)' = Chunk(t)
  BY <1>1, <1>3 DEF start_idx, end_idx, Chunk
<1>5. \A v, i : At(v, i)' = At(v, i)
  BY DEF At
<1>6. \A v : Squares(v)' = Squares(v)
  BY <1>3, <1>5 DEF Squares
<1>7. \A t : (OutOfRange(t))' <=> OutOfRange(t)
  BY <1>1, <1>4, <1>5 DEF OutOfRange, Validated
<1>8. \A t, v : SumBetween(Squares(v), start_idx(t), end_idx(t))'
                  = SumBetween(Squares(v), start_idx(t), end_idx(t))
  BY <1>4, <1>6 DEF SumBetween
<1>9. \A t, v : Largest(Chunk(t), v)' = Largest(Chunk(t), v)
  BY <1>4, <1>5 DEF Largest
<1>10. \A v : MaxOf(v)' = MaxOf(v)
  BY <1>3, <1>5 DEF MaxOf, Largest
<1> QED BY <1>1, <1>2, <1>7, <1>8, <1>9, <1>10

(* An argument check keeps it.                                              *)
LEMMA RefuseStep == ASSUME IndInv, Refuse PROVE IndInv'
<1>1. UNCHANGED call /\ Refused
  BY DEF Refuse, Refused
<1>2. Typed'
  <2>1. pc' \in [Tasks -> {"scan", "load", "cas", "done"}] /\ result' = "INVALID_ARGUMENT"
    BY DEF Refuse
  <2> QED BY <1>1, <2>1, CallKept DEF IndInv, Typed, Refuse
<1>3. Untouched'
  BY <1>1, CallKept DEF Refuse, Untouched
<1> QED BY <1>1, <1>2, <1>3, CallKept DEF IndInv

(* A task scans its chunk.                                                  *)
LEMMA ScanStep ==
  ASSUME IndInv, NEW t \in Tasks, Scan(t) PROVE IndInv'
<1> DEFINE found == [v \in Vectors |->
                       IF call.norm = "L2"
                         THEN SumBetween(Squares(v), start_idx(t), end_idx(t))
                         ELSE Largest(Chunk(t), v)]
<1>1. /\ UNCHANGED <<call, vec, current_max, max_abs, result>>
      /\ ~Refused /\ result = "none" /\ pc[t] = "scan" /\ size > 0
  <2>1. /\ UNCHANGED <<call, vec, current_max, max_abs, result>> /\ result = "none"
        /\ pc[t] = "scan" /\ size > 0 /\ (relative => size <= MaxRelative)
    BY DEF Scan
  <2>2. size \in Nat /\ MaxRelative \in Nat
    BY SizeTyped, NormAssumption DEF IndInv, Typed
  <2> QED BY <2>1, <2>2 DEF Refused
<1>2. Typed /\ Flagged /\ SumsKept /\ MaximaKept
  BY <1>1 DEF IndInv
<1>3. found \in [Vectors -> Nat]
  <2>1. ASSUME NEW v \in Vectors PROVE found[v] \in Nat
    <3>1. Largest(Chunk(t), v) \in Nat
      BY <1>1, <1>2, Bounds, LargestTyped DEF Typed
    <3>2. /\ start_idx(t) \in Nat /\ end_idx(t) \in Nat /\ start_idx(t) <= end_idx(t)
          /\ \A k \in start_idx(t) .. end_idx(t) - 1 : k \in Indices
      BY <1>1, <1>2, Bounds DEF Typed, Chunk
    <3>3. \A k \in start_idx(t) .. end_idx(t) - 1 : Squares(v)[k] \in Nat
      <4>1. \A a \in Nat : a * a \in Nat
        OBVIOUS
      <4> QED BY <1>2, <3>2, <4>1, AtTyped DEF Squares, Typed
    <3>4. SumBetween(Squares(v), start_idx(t), end_idx(t)) \in Nat
      BY <3>2, <3>3, SumNat
    <3> QED BY <3>1, <3>4
  <2> QED BY <2>1
<1>4. t \in 0 .. Workers - 1
  BY DEF Tasks
<1>5. \/ /\ OutOfRange(t) /\ validation_failed' = TRUE /\ pc' = [pc EXCEPT ![t] = "done"]
         /\ UNCHANGED <<local, thread_sums>>
      \/ /\ ~OutOfRange(t) /\ validation_failed' = validation_failed
         /\ local' = [local EXCEPT ![t] = found]
         /\ call.norm = "L2" => /\ pc' = [pc EXCEPT ![t] = "done"]
                               /\ thread_sums' = [v \in Vectors |->
                                                   [thread_sums[v] EXCEPT ![t] = found[v]]]
         /\ call.norm # "L2" => pc' = [pc EXCEPT ![t] = "load"] /\ UNCHANGED thread_sums
  BY DEF Scan
<1>6. /\ \A v \in Vectors : found[v] = IF call.norm = "L2"
              THEN SumBetween(Squares(v), start_idx(t), end_idx(t)) ELSE Largest(Chunk(t), v)
  OBVIOUS
<1> HIDE DEF found
<1>7. Typed'
  <2>1. /\ pc' \in [Tasks -> {"scan", "load", "cas", "done"}]
        /\ validation_failed' \in BOOLEAN
        /\ local' \in [Tasks -> [Vectors -> Nat]]
        /\ thread_sums' \in [Vectors -> [0 .. Workers - 1 -> Nat]]
    <3>1. CASE OutOfRange(t)
      BY <1>2, <1>5, <3>1 DEF Typed
    <3>2. CASE ~OutOfRange(t)
      <4>1. /\ pc' \in [Tasks -> {"scan", "load", "cas", "done"}]
            /\ validation_failed' \in BOOLEAN
            /\ local' \in [Tasks -> [Vectors -> Nat]]
        BY <1>2, <1>3, <1>5, <3>2 DEF Typed
      <4>2. thread_sums' \in [Vectors -> [0 .. Workers - 1 -> Nat]]
        <5>1. CASE call.norm = "L2"
          <6>1. \A v \in Vectors :
                  [thread_sums[v] EXCEPT ![t] = found[v]] \in [0 .. Workers - 1 -> Nat]
            BY <1>2, <1>3, <1>4 DEF Typed
          <6>2. thread_sums' = [v \in Vectors |-> [thread_sums[v] EXCEPT ![t] = found[v]]]
            BY <1>5, <3>2, <5>1
          <6> QED BY <6>1, <6>2
        <5>2. CASE call.norm # "L2"
          BY <1>2, <1>5, <3>2, <5>2 DEF Typed
        <5> QED BY <5>1, <5>2
      <4> QED BY <4>1, <4>2
    <3> QED BY <3>1, <3>2
  <2> QED BY <1>1, <1>2, <2>1, CallKept DEF Typed
<1>8. /\ \A x \in Tasks \ {t} : pc'[x] = pc[x] /\ local'[x] = local[x]
      /\ \A v \in Vectors, x \in (0 .. Workers - 1) \ {t} : thread_sums'[v][x] = thread_sums[v][x]
      /\ pc'[t] = IF OutOfRange(t) \/ call.norm = "L2" THEN "done" ELSE "load"
      /\ ~OutOfRange(t) => local'[t] = found
      /\ ~OutOfRange(t) /\ call.norm = "L2" => \A v \in Vectors : thread_sums'[v][t] = found[v]
  <2>1. CASE OutOfRange(t)
    BY <1>2, <1>5, <2>1 DEF Typed
  <2>2. CASE ~OutOfRange(t) /\ call.norm = "L2"
    <3>1. \A v \in Vectors :
            /\ [thread_sums[v] EXCEPT ![t] = found[v]][t] = found[v]
            /\ \A x \in (0 .. Workers - 1) \ {t} :
                 [thread_sums[v] EXCEPT ![t] = found[v]][x] = thread_sums[v][x]
      BY <1>2, <1>4 DEF Typed
    <3>2. thread_sums' = [v \in Vectors |-> [thread_sums[v] EXCEPT ![t] = found[v]]]
      BY <1>5, <2>2
    <3>3. pc' = [pc EXCEPT ![t] = "done"] /\ local' = [local EXCEPT ![t] = found]
      BY <1>5, <2>2
    <3> QED BY <1>2, <2>2, <3>1, <3>2, <3>3 DEF Typed
  <2>3. CASE ~OutOfRange(t) /\ call.norm # "L2"
    BY <1>2, <1>4, <1>5, <2>3 DEF Typed
  <2> QED BY <2>1, <2>2, <2>3
<1>9. Flagged'
  BY <1>1, <1>2, <1>5, <1>8, CallKept DEF Flagged
<1>10. \A x \in Tasks : Scanned(x)' <=> IF x = t THEN ~OutOfRange(t) ELSE Scanned(x)
  BY <1>1, <1>8, CallKept DEF Scanned
<1>11. SumsKept'
  <2> SUFFICES ASSUME call.norm = "L2"
               PROVE  /\ \A x \in Tasks : pc'[x] \in {"scan", "done"}
                      /\ \A v \in Vectors :
                           /\ \A x \in (0 .. Workers - 1) \ Tasks : thread_sums'[v][x] = 0
                           /\ \A x \in Tasks : Scanned(x)' =>
                                 thread_sums'[v][x]
                                   = SumBetween(Squares(v), start_idx(x), end_idx(x))
    BY <1>1, CallKept DEF SumsKept
  <2>1. \A x \in Tasks : x \in 0 .. Workers - 1
    BY DEF Tasks
  <2> QED BY <1>2, <1>6, <1>8, <1>10, <2>1 DEF SumsKept
<1>12. MaximaKept'
  <2> SUFFICES ASSUME call.norm # "L2", NEW v \in Vectors
               PROVE  /\ max_abs[v] <= MaxOf(v)
                      /\ \A x \in Tasks :
                           /\ Scanned(x)' => local'[x][v] = Largest(Chunk(x), v)
                           /\ pc'[x] = "scan" => vec[x] = "a"
                           /\ pc'[x] = "cas" => current_max[x] < local'[x][vec[x]]
                           /\ relative /\ Scanned(x)'
                                /\ (pc'[x] = "done" \/ (vec[x] = "b" /\ v = "a"))
                                => local'[x][v] <= max_abs[v]
    BY <1>1, CallKept DEF MaximaKept
  <2>1. /\ max_abs[v] <= MaxOf(v) /\ vec[t] = "a"
        /\ \A x \in Tasks :
             /\ Scanned(x) => local[x][v] = Largest(Chunk(x), v)
             /\ pc[x] = "scan" => vec[x] = "a"
             /\ pc[x] = "cas" => current_max[x] < local[x][vec[x]]
             /\ relative /\ Scanned(x) /\ (pc[x] = "done" \/ (vec[x] = "b" /\ v = "a"))
                  => local[x][v] <= max_abs[v]
    BY <1>1, <1>2 DEF MaximaKept
  <2>2. /\ pc'[t] = IF OutOfRange(t) THEN "done" ELSE "load"
        /\ Scanned(t)' => ~OutOfRange(t) /\ local'[t][v] = Largest(Chunk(t), v)
    BY <1>6, <1>8, <1>10
  <2> QED BY <1>8, <1>10, <2>1, <2>2
<1>13. Answered'
  BY <1>1 DEF Answered
<1> QED BY <1>1, <1>7, <1>9, <1>11, <1>12, <1>13, CallKept DEF IndInv
(* A task at a maximum: it has scanned, and the check still runs.           *)
LEMMA AtMaximum ==
  ASSUME IndInv, NEW t \in Tasks, pc[t] \in {"load", "cas"}
  PROVE  /\ ~Refused /\ result = "none" /\ ~OutOfRange(t) /\ Scanned(t) /\ call.norm # "L2"
         /\ Typed /\ Flagged /\ SumsKept /\ MaximaKept
         /\ vec[t] \in Vectors /\ size > 0
<1>1. ~Refused
  BY DEF IndInv, Untouched
<1>2. Typed /\ Flagged /\ SumsKept /\ MaximaKept /\ Answered
  BY <1>1 DEF IndInv
<1>3. result = "none"
  BY <1>2 DEF Answered
<1>4. ~OutOfRange(t) /\ call.norm # "L2"
  BY <1>2 DEF Flagged, SumsKept
<1>5. size > 0
  BY <1>1, <1>2, SizeTyped DEF Refused, Typed
<1> QED BY <1>1, <1>2, <1>3, <1>4, <1>5 DEF Typed, Scanned

(* On to the next maximum: the one left is not below the task's own.        *)
LEMMA LeaveStep ==
  ASSUME IndInv, NEW t \in Tasks, pc[t] \in {"load", "cas"}, Leave(t),
         UNCHANGED <<call, local, thread_sums, validation_failed, result>>,
         current_max' \in [Tasks -> Nat],
         \A x \in Tasks \ {t} : current_max'[x] = current_max[x],
         max_abs' \in [Vectors -> Nat],
         \A v \in Vectors : max_abs[v] <= max_abs'[v] /\ max_abs'[v] <= MaxOf(v),
         relative => local[t][vec[t]] <= max_abs'[vec[t]]
  PROVE  IndInv'
<1>1. /\ ~Refused /\ result = "none" /\ ~OutOfRange(t) /\ Scanned(t) /\ call.norm # "L2"
      /\ Typed /\ Flagged /\ SumsKept /\ MaximaKept /\ vec[t] \in Vectors /\ size > 0
  BY AtMaximum
<1>2. \/ /\ relative /\ vec[t] = "a"
         /\ pc' = [pc EXCEPT ![t] = "load"] /\ vec' = [vec EXCEPT ![t] = "b"]
      \/ /\ ~(relative /\ vec[t] = "a")
         /\ pc' = [pc EXCEPT ![t] = "done"] /\ vec' = vec
  BY DEF Leave
<1>3. Typed'
  <2>1. vec' \in [Tasks -> Vectors] /\ pc' \in [Tasks -> {"scan", "load", "cas", "done"}]
    BY <1>1, <1>2 DEF Typed, Vectors
  <2> QED BY <1>1, <2>1, CallKept DEF Typed
<1>4. \A x \in Tasks \ {t} : pc'[x] = pc[x] /\ vec'[x] = vec[x]
  BY <1>1, <1>2 DEF Typed
<1>5. /\ pc'[t] = IF relative /\ vec[t] = "a" THEN "load" ELSE "done"
      /\ vec'[t] = IF relative /\ vec[t] = "a" THEN "b" ELSE vec[t]
  BY <1>1, <1>2 DEF Typed
<1>6. \A x \in Tasks : Scanned(x)' <=> Scanned(x)
  BY <1>1, <1>4, <1>5, CallKept DEF Scanned
<1>7. Flagged'
  BY <1>1, <1>4, <1>5, CallKept DEF Flagged
<1>8. SumsKept'
  BY <1>1 DEF SumsKept
<1>9. MaximaKept'
  <2> SUFFICES ASSUME NEW v \in Vectors
               PROVE  /\ max_abs'[v] <= MaxOf(v)
                      /\ \A x \in Tasks :
                           /\ Scanned(x)' => local[x][v] = Largest(Chunk(x), v)
                           /\ pc'[x] = "scan" => vec'[x] = "a"
                           /\ pc'[x] = "cas" => current_max'[x] < local[x][vec'[x]]
                           /\ relative /\ Scanned(x)'
                                /\ (pc'[x] = "done" \/ (vec'[x] = "b" /\ v = "a"))
                                => local[x][v] <= max_abs'[v]
    BY <1>1, CallKept DEF MaximaKept
  <2>1. max_abs[v] \in Nat /\ max_abs'[v] \in Nat /\ max_abs[v] <= max_abs'[v]
        /\ max_abs'[v] <= MaxOf(v) /\ \A x \in Tasks : local[x][v] \in Nat
    BY <1>1 DEF Typed
  <2>2. \A x \in Tasks :
          /\ Scanned(x) => local[x][v] = Largest(Chunk(x), v)
          /\ pc[x] = "scan" => vec[x] = "a"
          /\ pc[x] = "cas" => current_max[x] < local[x][vec[x]]
          /\ relative /\ Scanned(x) /\ (pc[x] = "done" \/ (vec[x] = "b" /\ v = "a"))
               => local[x][v] <= max_abs[v]
    BY <1>1 DEF MaximaKept
  <2>3. relative => v \in {"a", "b"} /\ vec[t] \in {"a", "b"}
    BY <1>1 DEF Vectors
  <2>4. ASSUME relative, pc'[t] = "done" \/ (vec'[t] = "b" /\ v = "a")
        PROVE  local[t][v] <= max_abs'[v]
    <3>1. CASE v = vec[t]
      BY <2>4, <3>1
    <3>2. CASE v # vec[t]
      <4>1. vec[t] = "b" /\ v = "a"
        BY <1>5, <2>3, <2>4, <3>2
      <4>2. local[t][v] <= max_abs[v]
        BY <1>1, <2>2, <2>4, <4>1
      <4> QED BY <2>1, <4>2
    <3> QED BY <3>1, <3>2
  <2>5. ASSUME NEW x \in Tasks \ {t}, relative, Scanned(x),
               pc'[x] = "done" \/ (vec'[x] = "b" /\ v = "a")
        PROVE  local[x][v] <= max_abs'[v]
    BY <1>4, <2>1, <2>2, <2>5
  <2> QED BY <1>4, <1>5, <1>6, <2>1, <2>2, <2>4, <2>5
<1>10. Answered'
  BY <1>1 DEF Answered
<1> QED BY <1>1, <1>3, <1>7, <1>8, <1>9, <1>10, CallKept DEF IndInv

(* What a task has seen of a maximum is below its own: it tries to raise it.*)
LEMMA TryStep ==
  ASSUME IndInv, NEW t \in Tasks, pc[t] \in {"load", "cas"}, NEW seen \in Nat,
         local[t][vec[t]] > seen, pc' = [pc EXCEPT ![t] = "cas"],
         current_max' = [current_max EXCEPT ![t] = seen],
         UNCHANGED <<call, vec, local, max_abs, thread_sums, validation_failed, result>>
  PROVE  IndInv'
<1>1. /\ ~Refused /\ result = "none" /\ ~OutOfRange(t) /\ Scanned(t) /\ call.norm # "L2"
      /\ Typed /\ Flagged /\ SumsKept /\ MaximaKept /\ vec[t] \in Vectors /\ size > 0
  BY AtMaximum
<1>2. Typed'
  <2>1. /\ pc' \in [Tasks -> {"scan", "load", "cas", "done"}] /\ current_max' \in [Tasks -> Nat]
    BY <1>1 DEF Typed
  <2> QED BY <1>1, <2>1, CallKept DEF Typed
<1>3. /\ \A x \in Tasks \ {t} : pc'[x] = pc[x] /\ current_max'[x] = current_max[x]
      /\ pc'[t] = "cas" /\ current_max'[t] = seen
  BY <1>1 DEF Typed
<1>4. \A x \in Tasks : Scanned(x)' <=> Scanned(x)
  BY <1>1, <1>3, CallKept DEF Scanned
<1>5. Flagged'
  BY <1>1, <1>3, CallKept DEF Flagged
<1>6. SumsKept'
  BY <1>1 DEF SumsKept
<1>7. seen < local[t][vec[t]]
  BY <1>1 DEF Typed
<1>8. MaximaKept'
  BY <1>1, <1>3, <1>4, <1>7, CallKept DEF MaximaKept
<1>9. Answered'
  BY <1>1 DEF Answered
<1> QED BY <1>1, <1>2, <1>5, <1>6, <1>8, <1>9, CallKept DEF IndInv

(* A task that decides whether to exchange the maximum it has loaded keeps it, *)
LEMMA DecideStep ==
  ASSUME IndInv, NEW t \in Tasks, pc[t] \in {"load", "cas"}, Decide(t, max_abs[vec[t]]),
         UNCHANGED <<call, local, max_abs, thread_sums, validation_failed, result>>
  PROVE  IndInv'
<1> DEFINE seen == max_abs[vec[t]]
<1>1. Typed /\ vec[t] \in Vectors /\ MaximaKept /\ call.norm # "L2"
  BY AtMaximum
<1>2. seen \in Nat /\ local[t][vec[t]] \in Nat
  BY <1>1 DEF Typed
<1>3. current_max' = [current_max EXCEPT ![t] = seen]
  BY DEF Decide
<1>4. CASE local[t][vec[t]] > seen
  <2>1. pc' = [pc EXCEPT ![t] = "cas"] /\ vec' = vec
    BY <1>4 DEF Decide
  <2> QED BY <1>2, <1>3, <1>4, <2>1, TryStep
<1>5. CASE ~(local[t][vec[t]] > seen)
  <2>1. Leave(t)
    BY <1>5 DEF Decide
  <2>2. /\ current_max' \in [Tasks -> Nat]
        /\ \A x \in Tasks \ {t} : current_max'[x] = current_max[x]
    BY <1>1, <1>2, <1>3 DEF Typed
  <2>3. /\ max_abs' \in [Vectors -> Nat]
        /\ \A v \in Vectors : max_abs[v] <= max_abs'[v] /\ max_abs'[v] <= MaxOf(v)
    BY <1>1 DEF Typed, MaximaKept
  <2>4. local[t][vec[t]] <= max_abs'[vec[t]]
    BY <1>2, <1>5
  <2> QED BY <2>1, <2>2, <2>3, <2>4, LeaveStep
<1> QED BY <1>4, <1>5

(* The exchange succeeds: the maximum rises to the task's own.              *)
LEMMA CasStep ==
  ASSUME IndInv, NEW t \in Tasks, CasSucceeds(t) PROVE IndInv'
<1> DEFINE u == vec[t]
<1>1. /\ pc[t] = "cas" /\ max_abs[u] = current_max[t]
      /\ max_abs' = [max_abs EXCEPT ![u] = local[t][u]] /\ Leave(t)
      /\ UNCHANGED <<call, local, current_max, thread_sums, validation_failed, result>>
  BY DEF CasSucceeds
<1>2. /\ Scanned(t) /\ Typed /\ MaximaKept /\ u \in Vectors /\ call.norm # "L2" /\ size > 0
  BY <1>1, AtMaximum
<1>3. /\ local[t][u] \in Nat /\ max_abs[u] < local[t][u]
      /\ local[t][u] = Largest(Chunk(t), u)
  BY <1>1, <1>2 DEF Typed, MaximaKept
<1>4. local[t][u] <= MaxOf(u)
  <2>1. call \in Calls /\ Chunk(t) \subseteq Indices
    BY <1>2, Bounds DEF Typed
  <2>2. /\ local[t][u] = 0 \/ \E i \in Chunk(t) : local[t][u] = At(u, i)
    BY <1>2, <1>3, <2>1, LargestTyped
  <2>3. MaxOf(u) \in Nat /\ \A i \in Indices : At(u, i) <= MaxOf(u)
    BY <1>2, <2>1, LargestTyped DEF MaxOf
  <2> QED BY <2>1, <2>2, <2>3
<1>5. max_abs' \in [Vectors -> Nat] /\ max_abs'[u] = local[t][u]
      /\ \A v \in Vectors \ {u} : max_abs'[v] = max_abs[v]
  BY <1>1, <1>2, <1>3 DEF Typed
<1>6. \A v \in Vectors : max_abs[v] <= max_abs'[v] /\ max_abs'[v] <= MaxOf(v)
  <2>1. \A v \in Vectors : max_abs[v] \in Nat /\ max_abs[v] <= MaxOf(v)
    BY <1>2 DEF Typed, MaximaKept
  <2> QED BY <1>3, <1>4, <1>5, <2>1
<1>7. current_max' \in [Tasks -> Nat]
  BY <1>1, <1>2 DEF Typed
<1>8. local[t][u] <= max_abs'[u]
  BY <1>3, <1>5
<1> HIDE DEF u
<1> QED BY <1>1, <1>5, <1>6, <1>7, <1>8, LeaveStep DEF u

(* as does a lost exchange,                                                 *)
LEMMA CasFailStep ==
  ASSUME IndInv, NEW t \in Tasks, CasFails(t) PROVE IndInv'
<1>1. /\ pc[t] = "cas"
      /\ UNCHANGED <<call, local, max_abs, thread_sums, validation_failed, result>>
      /\ IF relative THEN Decide(t, max_abs[vec[t]]) ELSE Leave(t) /\ UNCHANGED current_max
  BY DEF CasFails
<1>2. CASE relative
  BY <1>1, <1>2, DecideStep
<1>3. CASE ~relative
  <2>1. Typed /\ MaximaKept /\ call.norm # "L2"
    BY <1>1, AtMaximum
  <2>2. /\ current_max' \in [Tasks -> Nat] /\ max_abs' \in [Vectors -> Nat]
        /\ \A v \in Vectors : max_abs[v] <= max_abs'[v] /\ max_abs'[v] <= MaxOf(v)
    BY <1>1, <1>3, <2>1 DEF Typed, MaximaKept
  <2> QED BY <1>1, <1>3, <2>2, LeaveStep
<1> QED BY <1>2, <1>3

(* and the answer that is given when all tasks are done.                    *)
LEMMA AnswerStep == ASSUME IndInv, Answer PROVE IndInv'
<1>1. /\ UNCHANGED <<call, pc, vec, local, current_max, max_abs, thread_sums, validation_failed>>
      /\ result = "none" /\ size > 0 /\ \A t \in Tasks : pc[t] = "done"
      /\ result' = IF validation_failed THEN "INVALID_ARGUMENT"
                   ELSE IF Below THEN "true" ELSE "false"
  BY DEF Answer
<1>2. Typed
  BY DEF IndInv
<1>3. ~Refused
  <2>1. PICK t \in Tasks : TRUE
    <3>1. 0 \in Indices
      BY <1>1, <1>2, SizeTyped DEF Typed
    <3> QED BY <1>1, <1>2, <3>1, ChunksCover DEF Typed
  <2> QED BY <1>1, <2>1 DEF IndInv, Untouched
<1>4. Flagged /\ SumsKept /\ MaximaKept
  BY <1>3 DEF IndInv
<1>5. Typed'
  BY <1>1, <1>2, CallKept DEF Typed
<1>6. \A t \in Tasks : Scanned(t)' <=> Scanned(t)
  BY <1>1, CallKept DEF Scanned
<1>7. Flagged' /\ SumsKept' /\ MaximaKept'
  BY <1>1, <1>4, <1>6, CallKept DEF Flagged, SumsKept, MaximaKept
<1>8. Below' <=> Below
  BY <1>1 DEF Below, Total, relative, SumBetween
<1>9. Answered'
  BY <1>1, <1>8, CallKept DEF Answered
<1> QED BY <1>1, <1>3, <1>5, <1>7, <1>9, CallKept DEF IndInv

(* The inductive invariant of the norm checks.                              *)
THEOREM Inductive == Spec => []IndInv
<1>1. ASSUME IndInv, UNCHANGED vars PROVE IndInv'
  <2>1. \A t \in Tasks : Scanned(t)' <=> Scanned(t)
    BY <1>1, CallKept DEF Scanned, vars
  <2>2. Below' <=> Below
    BY <1>1 DEF Below, Total, relative, SumBetween, vars
  <2>3. Typed' /\ (Untouched' <=> Untouched)
    BY <1>1, CallKept DEF IndInv, Typed, Untouched, vars
  <2>4. Flagged /\ SumsKept /\ MaximaKept /\ Answered
          => Flagged' /\ SumsKept' /\ MaximaKept' /\ Answered'
    BY <1>1, <2>1, <2>2, CallKept DEF Flagged, SumsKept, MaximaKept, Answered, vars
  <2> QED BY <1>1, <2>3, <2>4, CallKept DEF IndInv, vars
<1>2. ASSUME IndInv, NEW t \in Tasks, Load(t) PROVE IndInv'
  BY <1>2, DecideStep DEF Load
<1>3. IndInv /\ [Next]_vars => IndInv'
  BY <1>1, <1>2, RefuseStep, AnswerStep, ScanStep, CasStep, CasFailStep DEF Next
<1> QED BY <1>3, InitInv, PTL DEF Spec

-----------------------------------------------------------------------------
(* The largest entry within bounds is accepted, whatever exchanges are lost.*)
THEOREM SmallAccepted == Spec => []SmallIsNeverRefused
<1>1. ASSUME IndInv, call.fn = "check_norm_bound", call.norm = "LInfinity", size > 0,
             MaxOf("a") < call.limit
      PROVE  result \in {"none", "true"}
  <2>1. ~relative /\ ~Refused /\ call.norm # "L2"
    BY <1>1, SizeTyped DEF relative, Refused, IndInv, Typed
  <2>2. Typed /\ Flagged /\ MaximaKept /\ Answered
    BY <1>1, <2>1 DEF IndInv
  <2>3. ~validation_failed
    BY <2>1, <2>2 DEF Flagged, OutOfRange, Validated
  <2>4. "a" \in Vectors
    BY DEF Vectors
  <2>5. max_abs["a"] \in Nat /\ MaxOf("a") \in Nat /\ max_abs["a"] <= MaxOf("a")
        /\ call.limit \in Nat
    BY <2>1, <2>2, <2>4, LargestTyped, SizeTyped DEF Typed, MaximaKept, MaxOf
  <2>6. max_abs["a"] < call.limit
    BY <1>1, <2>5
  <2>7. Below
    BY <2>1, <2>6 DEF Below
  <2> QED BY <2>2, <2>3, <2>7 DEF Answered
<1>2. IndInv => SmallIsNeverRefused
  BY <1>1 DEF SmallIsNeverRefused
<1> QED BY <1>2, Inductive, PTL

(* When every task is done and none was out of range, the sums are the sums *)
(* over the whole vectors.                                                  *)
LEMMA TotalIsSquare ==
  ASSUME IndInv, result \in {"true", "false"}, call.norm = "L2", NEW v \in Vectors
  PROVE  Total(v) = SquareOf(v)
<1>1. ~Refused
  BY DEF IndInv, Untouched
<1>2. Typed /\ Flagged /\ SumsKept /\ Answered
  BY <1>1 DEF IndInv
<1>3. \A t \in Tasks : Scanned(t)
  BY <1>2 DEF Answered, Flagged, Scanned
<1>4. call \in Calls /\ size > 0
  BY <1>1, <1>2, SizeTyped DEF Refused, Typed
<1>5. /\ \A t \in Tasks : thread_sums[v][t] = SumBetween(Squares(v), start_idx(t), end_idx(t))
      /\ \A t \in (0 .. Workers - 1) \ Tasks : thread_sums[v][t] = 0
  BY <1>2, <1>3 DEF SumsKept
<1> QED BY <1>4, <1>5, SumOfTasks DEF Total, SquareOf

(* Likewise the maxima, in the relative check, which tries again.           *)
LEMMA MaximumIsMax ==
  ASSUME IndInv, result \in {"true", "false"}, call.norm # "L2", relative, NEW v \in Vectors
  PROVE  max_abs[v] = MaxOf(v)
<1>1. ~Refused
  BY DEF IndInv, Untouched
<1>2. Typed /\ Flagged /\ MaximaKept /\ Answered
  BY <1>1 DEF IndInv
<1>3. call \in Calls /\ size > 0
  BY <1>1, <1>2, SizeTyped DEF Refused, Typed
<1>4. \A t \in Tasks : local[t][v] = Largest(Chunk(t), v) /\ local[t][v] <= max_abs[v]
  BY <1>2 DEF Answered, Flagged, Scanned, MaximaKept
<1>5. max_abs[v] \in Nat /\ max_abs[v] <= MaxOf(v)
  BY <1>2 DEF Typed, MaximaKept
<1>6. \A i \in Indices : At(v, i) <= max_abs[v]
  <2> SUFFICES ASSUME NEW i \in Indices PROVE At(v, i) <= max_abs[v]
    OBVIOUS
  <2>1. PICK t \in Tasks : i \in Chunk(t)
    BY <1>3, ChunksCover
  <2>2. At(v, i) <= Largest(Chunk(t), v) /\ Largest(Chunk(t), v) \in Nat /\ At(v, i) \in Nat
    BY <1>3, <2>1, Bounds, LargestTyped, AtTyped
  <2> QED BY <1>4, <1>5, <2>2
<1>7. MaxOf(v) \in Nat /\ (MaxOf(v) = 0 \/ \E i \in Indices : MaxOf(v) = At(v, i))
  BY <1>3, LargestTyped DEF MaxOf
<1> QED BY <1>5, <1>6, <1>7

(* The relative checks answer exactly, in every order of the tasks.         *)
THEOREM RelativeExact == Spec => []RelativeIsExact
<1>1. ASSUME IndInv, relative, result \in {"true", "false"}
      PROVE  result = "true" <=>
               IF call.norm = "L2" THEN SquareOf("a") < call.limit * call.limit * SquareOf("b")
                                   ELSE MaxOf("a") < call.limit * MaxOf("b")
  <2>1. ~Refused
    BY <1>1 DEF IndInv, Untouched
  <2>2. result = IF Below THEN "true" ELSE "false"
    BY <1>1, <2>1 DEF IndInv, Answered
  <2>3. "a" \in Vectors /\ "b" \in Vectors
    BY <1>1 DEF Vectors
  <2>4. CASE call.norm = "L2"
    <3>1. Total("a") = SquareOf("a") /\ Total("b") = SquareOf("b")
      BY <1>1, <2>3, <2>4, TotalIsSquare
    <3> QED BY <1>1, <2>2, <2>4, <3>1 DEF Below
  <2>5. CASE call.norm # "L2"
    <3>1. max_abs["a"] = MaxOf("a") /\ max_abs["b"] = MaxOf("b")
      BY <1>1, <2>3, <2>5, MaximumIsMax
    <3> QED BY <1>1, <2>2, <2>5, <3>1 DEF Below
  <2> QED BY <2>4, <2>5
<1>2. IndInv => RelativeIsExact
  BY <1>1 DEF RelativeIsExact
<1> QED BY <1>2, Inductive, PTL

(* The L2 answer of the tasks is the function norm_L2 of the vector.        *)
THEOREM L2Exact == Spec => []L2IsTheNorm
<1>1. ASSUME IndInv, call.fn = "check_norm_bound", call.norm = "L2", result # "none", size > 0
      PROVE  result = CASE norm_L2(size, call.a, call.limit) = "small" -> "true"
                        [] norm_L2(size, call.a, call.limit) = "large" -> "false"
                        [] OTHER -> "INVALID_ARGUMENT"
  <2>1. ~relative /\ ~Refused
    BY <1>1, SizeTyped DEF relative, Refused, IndInv, Typed
  <2>2. Typed /\ Flagged /\ SumsKept /\ Answered
    BY <2>1, <1>1 DEF IndInv
  <2>3. call \in Calls /\ Indices = 0 .. size - 1 /\ "a" \in Vectors /\ Vectors = {"a"}
    BY <2>1, <2>2, SizeTyped DEF Typed, Vectors
  <2>4. \A i : At("a", i) = abs_centered(call.a[i])
    BY DEF At
  <2>5. (\E t \in Tasks : OutOfRange(t)) <=> \E i \in Indices : At("a", i) >= SqrtQ
    <3>1. ASSUME NEW i \in Indices, At("a", i) >= SqrtQ PROVE \E t \in Tasks : OutOfRange(t)
      BY <1>1, <2>3, <3>1, ChunksCover DEF OutOfRange, Validated
    <3>2. \A t \in Tasks : Chunk(t) \subseteq Indices
      BY <1>1, <2>3, Bounds
    <3> QED BY <2>3, <3>1, <3>2 DEF OutOfRange
  <2>6. validation_failed <=> \E t \in Tasks : OutOfRange(t)
    BY <1>1, <2>2 DEF Answered, Flagged
  <2>7. norm_L2(size, call.a, call.limit) =
          IF \E i \in Indices : At("a", i) >= SqrtQ THEN "error"
          ELSE IF SquareOf("a") < call.limit * call.limit THEN "small" ELSE "large"
    <3>1. Squares("a") = [k \in 0 .. size - 1 |-> abs_centered(call.a[k]) * abs_centered(call.a[k])]
      BY <2>3, <2>4 DEF Squares
    <3> QED BY <2>3, <2>4, <3>1 DEF norm_L2, SquareOf
  <2>8. CASE validation_failed
    BY <1>1, <2>2, <2>5, <2>6, <2>7, <2>8 DEF Answered
  <2>9. CASE ~validation_failed
    <3>1. result = IF Below THEN "true" ELSE "false"
      BY <1>1, <2>2, <2>9 DEF Answered
    <3>2. Total("a") = SquareOf("a")
      BY <1>1, <2>3, <3>1, TotalIsSquare
    <3>3. Below <=> SquareOf("a") < call.limit * call.limit
      BY <1>1, <2>1, <3>2 DEF Below
    <3> QED BY <2>5, <2>6, <2>7, <2>9, <3>1, <3>3
  <2> QED BY <2>8, <2>9
<1>2. IndInv => L2IsTheNorm
  BY <1>1 DEF L2IsTheNorm
<1> QED BY <1>2, Inductive, PTL

-----------------------------------------------------------------------------
(* DECOMPOSITION.                                                           *)
(* The blocks of the tasks share out the vector.                            *)
LEMMA VectorTyped ==
  ASSUME input \in Inputs
  PROVE  /\ NofElements \in Nat /\ Elements = 0 .. NofElements - 1
         /\ input \in [Elements -> 0 .. Q - 1]
         /\ NofTasks \in Nat /\ NofElements <= NofTasks * TaskSize
<1>1. IsFiniteSet(DOMAIN input) /\ input \in [0 .. NofElements - 1 -> 0 .. Q - 1]
  BY DecompAssumption DEF NofElements, Elements
<1>2. NofElements \in Nat
  BY <1>1, FS_CardinalityType DEF NofElements, Elements
<1>3. Elements = 0 .. NofElements - 1
  BY <1>1 DEF Elements
<1>4. TaskSize \in Nat \ {0}
  BY DecompAssumption
<1>5. \A x \in Nat, d \in Nat \ {0} : x \div d \in Nat /\ x < d * (x \div d) + d
  OBVIOUS
<1>6. NofTasks \in Nat /\ NofElements + TaskSize - 1 < TaskSize * NofTasks + TaskSize
  BY <1>2, <1>4, <1>5 DEF NofTasks
<1>7. NofTasks * TaskSize = TaskSize * NofTasks /\ TaskSize * NofTasks \in Nat
  BY <1>4, <1>6
<1> QED BY <1>1, <1>2, <1>3, <1>4, <1>6, <1>7

(* No element belongs to two tasks.                                         *)
LEMMA BlocksDisjoint ==
  ASSUME input \in Inputs, NEW t \in DigitTasks, NEW s \in DigitTasks, NEW e \in Block(t), e \in Block(s)
  PROVE  t = s
<1>1. TaskSize \in Nat \ {0} /\ t \in Nat /\ s \in Nat /\ e \in Nat
  BY VectorTyped, DecompAssumption DEF DigitTasks, Block
<1>2. /\ t * TaskSize <= e /\ e < (t + 1) * TaskSize
      /\ s * TaskSize <= e /\ e < (s + 1) * TaskSize
  BY DEF Block
<1>3. \A x, y \in Nat : x < y => (x + 1) * TaskSize <= y * TaskSize
  <2> TAKE x \in Nat, y \in Nat
  <2> SUFFICES ASSUME x < y PROVE (x + 1) * TaskSize <= y * TaskSize
    OBVIOUS
  <2>1. /\ y - (x + 1) \in Nat /\ (y - (x + 1)) * TaskSize \in Nat
        /\ y * TaskSize = (y - (x + 1)) * TaskSize + (x + 1) * TaskSize
        /\ (x + 1) * TaskSize \in Nat
    BY <1>1
  <2> QED BY <2>1
<1>4. \A x \in Nat : x * TaskSize \in Nat /\ (x + 1) * TaskSize \in Nat
  BY <1>1
<1> QED BY <1>1, <1>2, <1>3, <1>4

(* Every element belongs to a task.                                         *)
LEMMA BlocksCover ==
  ASSUME input \in Inputs, NEW e \in Elements
  PROVE  \E t \in DigitTasks : e \in Block(t)
<1>1. /\ TaskSize \in Nat \ {0} /\ NofElements \in Nat /\ NofTasks \in Nat
      /\ e \in Nat /\ e < NofElements /\ NofElements <= NofTasks * TaskSize
  BY VectorTyped, DecompAssumption
<1> DEFINE t == e \div TaskSize
<1>2. t \in Nat /\ TaskSize * t <= e /\ e < TaskSize * t + TaskSize
  <2>1. \A x \in Nat, d \in Nat \ {0} :
          x \div d \in Nat /\ d * (x \div d) <= x /\ x < d * (x \div d) + d
    OBVIOUS
  <2> QED BY <1>1, <2>1
<1> HIDE DEF t
<1>3. t * TaskSize = TaskSize * t /\ (t + 1) * TaskSize = TaskSize * t + TaskSize
  BY <1>1, <1>2
<1>4. t < NofTasks
  <2> SUFFICES ASSUME NofTasks <= t PROVE FALSE
    BY <1>1, <1>2
  <2>1. /\ t - NofTasks \in Nat /\ (t - NofTasks) * TaskSize \in Nat
        /\ t * TaskSize = (t - NofTasks) * TaskSize + NofTasks * TaskSize
        /\ NofTasks * TaskSize \in Nat
    BY <1>1, <1>2
  <2> QED BY <1>1, <1>2, <1>3, <2>1
<1>5. t \in DigitTasks /\ e \in Block(t)
  BY <1>1, <1>2, <1>3, <1>4 DEF DigitTasks, Block
<1> QED BY <1>5

-----------------------------------------------------------------------------
(* The inductive invariant: what the passes have written of an element are  *)
(* the digits of a trace that starts from its value and ends in what        *)
(* remains of it; nothing is written beyond them; and a task of the         *)
(* recomposition has run Horner's loop over all of them.                    *)
DigitsOf(e) == [k \in 0 .. digits - 1 |-> output[k][e]]
Traced(e, n) == \E r : Trace(r, DigitsOf(e), base, n) /\ r[0] = input[e] /\ r[n] = remainder[e]

DecompTyped ==
  /\ input \in Inputs /\ base \in Bases /\ digits \in 1 .. MaxDigits
  /\ remainder \in [Elements -> Int]
  /\ passes \in [DigitTasks -> 0 .. digits]
  /\ output \in [0 .. digits - 1 -> [Elements -> Int]]
  /\ restored \in [Elements -> Int]
  /\ recomposed \subseteq DigitTasks
  /\ status \in {"running", "SUCCESS", "INVALID_ARGUMENT"}

Written ==
  \A t \in DigitTasks :
    /\ passes[t] > 0 => base > 1
    /\ \A e \in Block(t) :
         /\ Traced(e, passes[t])
         /\ \A k \in passes[t] .. digits - 1 : output[k][e] = Unset

Recomposed ==
  /\ recomposed # {} => Decomposed /\ base > 1
  /\ \A t \in recomposed : \A e \in Block(t) : restored[e] = Horner(output, e, base, digits)
  /\ status = "SUCCESS" => recomposed = DigitTasks /\ recomposed # {}

DecompInv == DecompTyped /\ Written /\ Recomposed

(* A task stays within the vector.                                          *)
LEMMA BlockIn == ASSUME NEW t PROVE Block(t) \subseteq Elements
BY DEF Block

(* The sizes and the modulus are numbers.                                   *)
LEMMA ConstantsTyped ==
  ASSUME DecompTyped
  PROVE  base \in Nat /\ digits \in Nat \ {0}
BY DecompAssumption DEF DecompTyped

(* The invariant holds of any call.                                         *)
LEMMA DecompInitHolds == DecompInit => DecompInv
<1> SUFFICES ASSUME DecompInit PROVE DecompInv
  OBVIOUS
<1>0. /\ digits \in Nat \ {0} /\ input \in [Elements -> 0 .. Q - 1] /\ Q \in Nat
  BY VectorTyped, DecompAssumption, QAssumption DEF DecompInit
<1>1. DecompTyped
  BY <1>0 DEF DecompInit, DecompTyped, Unset
<1>2. Written
  <2> SUFFICES ASSUME NEW t \in DigitTasks
               PROVE  /\ passes[t] = 0
                      /\ \A e \in Block(t) :
                           /\ Traced(e, 0)
                           /\ \A k \in 0 .. digits - 1 : output[k][e] = Unset
    BY DEF Written
  <2>1. passes[t] = 0
    BY DEF DecompInit
  <2>2. ASSUME NEW e \in Block(t) PROVE Traced(e, 0)
    <3>1. e \in Elements /\ remainder[e] = input[e] /\ input[e] \in Int
      BY <1>0, <2>2, BlockIn DEF DecompInit
    <3> DEFINE r == [k \in 0 .. 0 |-> input[e]]
    <3>2. r \in [0 .. 0 -> Int] /\ r[0] = input[e]
      BY <3>1
    <3>3. Trace(r, DigitsOf(e), base, 0)
      BY <3>2 DEF Trace
    <3> QED BY <3>1, <3>2, <3>3 DEF Traced
  <2>3. \A e \in Block(t), k \in 0 .. digits - 1 : output[k][e] = Unset
    BY BlockIn DEF DecompInit
  <2> QED BY <2>1, <2>2, <2>3
<1>3. Recomposed
  BY DEF DecompInit, Recomposed
<1> QED BY <1>1, <1>2, <1>3 DEF DecompInv

(* What does not depend on the pass: the operators over the input.          *)
LEMMA ShapeKept ==
  ASSUME input' = input
  PROVE  /\ Elements' = Elements /\ DigitTasks' = DigitTasks /\ \A t : Block(t)' = Block(t)
BY DEF Elements, DigitTasks, NofTasks, NofElements, Block

(* A pass leaves integers behind and moves one digit on.                    *)
LEMMA PassTyped ==
  ASSUME DecompTyped, NEW t \in DigitTasks, DigitPass(t)
  PROVE  DecompTyped'
<1> DEFINE Step(e) == DigitStep(remainder[e], base)
           k == passes[t]
<1>1. base \in Nat /\ base >= 2 /\ digits \in Nat \ {0}
  BY ConstantsTyped DEF DigitPass
<1>2. k \in 0 .. digits - 1 /\ k + 1 \in 0 .. digits
  BY <1>1 DEF DecompTyped, DigitPass
<1>3. ASSUME NEW e \in Elements PROVE Step(e).rest \in Int /\ Step(e).digit \in Int
  BY <1>1, StepSplits DEF DecompTyped
<1>4. UNCHANGED <<input, base, digits, restored, recomposed, status>>
  BY DEF DigitPass
<1>5. remainder' = [e \in Elements |-> IF e \in Block(t) THEN Step(e).rest ELSE remainder[e]]
  BY DEF DigitPass
<1>6. output' = [output EXCEPT ![k] =
                   [e \in Elements |-> IF e \in Block(t) THEN Step(e).digit ELSE @[e]]]
  BY DEF DigitPass
<1>7. passes' = [passes EXCEPT ![t] = k + 1]
  BY DEF DigitPass
<1> HIDE DEF Step, k
<1>8. remainder' \in [Elements -> Int]
  BY <1>3, <1>5 DEF DecompTyped
<1>9. output' \in [0 .. digits - 1 -> [Elements -> Int]]
  <2>1. output \in [0 .. digits - 1 -> [Elements -> Int]]
    BY DEF DecompTyped
  <2>2. [e \in Elements |-> IF e \in Block(t) THEN Step(e).digit ELSE output[k][e]]
          \in [Elements -> Int]
    BY <1>2, <1>3, <2>1
  <2> QED BY <1>2, <1>6, <2>1, <2>2
<1>10. passes' \in [DigitTasks -> 0 .. digits]
  BY <1>2, <1>7 DEF DecompTyped
<1> QED BY <1>4, <1>8, <1>9, <1>10, ShapeKept DEF DecompTyped

(* A pass appends a step to the traces of its block and to no other.        *)
LEMMA PassWritten ==
  ASSUME DecompTyped, Written, NEW t \in DigitTasks, DigitPass(t)
  PROVE  Written'
<1> DEFINE Step(e) == DigitStep(remainder[e], base)
           k == passes[t]
<1>1. base \in Nat /\ base >= 2 /\ base > 1 /\ digits \in Nat \ {0}
  BY ConstantsTyped DEF DigitPass
<1>2. k \in 0 .. digits - 1 /\ k + 1 \in 0 .. digits /\ k \in Nat
  BY <1>1 DEF DecompTyped, DigitPass
<1>3. /\ UNCHANGED <<input, base, digits>>
      /\ input \in Inputs /\ passes \in [DigitTasks -> 0 .. digits]
      /\ remainder \in [Elements -> Int]
      /\ output \in [0 .. digits - 1 -> [Elements -> Int]]
  BY DEF DigitPass, DecompTyped
<1>4. /\ remainder' = [e \in Elements |->
                         IF e \in Block(t) THEN Step(e).rest ELSE remainder[e]]
      /\ passes' = [passes EXCEPT ![t] = k + 1]
  BY DEF DigitPass
<1>5. output' = [output EXCEPT ![k] =
                   [e \in Elements |-> IF e \in Block(t) THEN Step(e).digit ELSE @[e]]]
  BY DEF DigitPass
<1> HIDE DEF k
<1>6. \A j \in 0 .. digits - 1, e \in Elements :
        output'[j][e] = IF j = k /\ e \in Block(t) THEN Step(e).digit ELSE output[j][e]
  BY <1>2, <1>3, <1>5
<1>7. DigitTasks' = DigitTasks /\ \A s : Block(s)' = Block(s)
  BY <1>3, ShapeKept
<1> DEFINE Next_traced(e, n) == \E r : /\ Trace(r, DigitsOf(e)', base, n)
                                       /\ r[0] = input[e] /\ r[n] = remainder'[e]
<1> SUFFICES ASSUME NEW s \in DigitTasks
             PROVE  /\ passes'[s] > 0 => base > 1
                    /\ \A e \in Block(s) :
                         /\ Next_traced(e, passes'[s])
                         /\ \A j \in passes'[s] .. digits - 1 : output'[j][e] = Unset
  BY <1>3, <1>7 DEF Written, Traced
<1>8. \A e \in Block(s) : /\ e \in Elements /\ Traced(e, passes[s])
                          /\ \A j \in passes[s] .. digits - 1 : output[j][e] = Unset
  BY BlockIn DEF Written
<1>9. passes[s] > 0 => base > 1
  BY <1>1
<1>10. CASE s = t
  <2>1. passes'[s] = k + 1
    BY <1>3, <1>4, <1>10
  <2>2. ASSUME NEW e \in Block(s)
        PROVE  Next_traced(e, k + 1) /\ \A j \in k + 1 .. digits - 1 : output'[j][e] = Unset
    <3>1. e \in Elements /\ e \in Block(t) /\ passes[s] = k
      BY <1>8, <1>10, <2>2 DEF k
    <3>2. PICK r : Trace(r, DigitsOf(e), base, k) /\ r[0] = input[e] /\ r[k] = remainder[e]
      BY <1>8, <2>2, <3>1 DEF Traced
    <3> DEFINE q == [j \in 0 .. k + 1 |-> IF j = k + 1 THEN Step(e).rest ELSE r[j]]
    <3>3. Step(e).rest \in Int
      BY <1>1, <1>3, <3>1, StepSplits
    <3>4. r \in [0 .. k -> Int] /\ \A j \in 0 .. k - 1 :
            r[j + 1] = DigitStep(r[j], base).rest /\ DigitsOf(e)[j] = DigitStep(r[j], base).digit
      BY <3>2 DEF Trace
    <3> HIDE DEF Step
    <3>5. q \in [0 .. k + 1 -> Int]
      BY <1>2, <3>3, <3>4
    <3>6. \A j \in 0 .. k : q[j] = r[j]
      BY <1>2
    <3>7. q[k + 1] = Step(e).rest
      BY <1>2
    <3> HIDE DEF q
    <3>8. \A j \in 0 .. digits - 1 :
            DigitsOf(e)'[j] = IF j = k THEN Step(e).digit ELSE DigitsOf(e)[j]
      BY <1>3, <1>6, <3>1 DEF DigitsOf
    <3>9. ASSUME NEW j \in 0 .. (k + 1) - 1
          PROVE  /\ q[j + 1] = DigitStep(q[j], base).rest
                 /\ DigitsOf(e)'[j] = DigitStep(q[j], base).digit
      <4>1. CASE j = k
        <5>1. q[j] = remainder[e] /\ q[j + 1] = Step(e).rest /\ DigitsOf(e)'[j] = Step(e).digit
          BY <1>2, <3>2, <3>6, <3>7, <3>8, <4>1
        <5> QED BY <5>1 DEF Step
      <4>2. CASE j # k
        <5>1. j \in 0 .. k - 1 /\ j \in 0 .. k /\ j + 1 \in 0 .. k /\ j \in 0 .. digits - 1
          BY <1>1, <1>2, <4>2
        <5> QED BY <3>4, <3>6, <3>8, <4>2, <5>1
      <4> QED BY <4>1, <4>2
    <3>10. Trace(q, DigitsOf(e)', base, k + 1)
      BY <3>5, <3>9 DEF Trace
    <3>11. q[0] = input[e] /\ q[k + 1] = remainder'[e]
      <4>1. 0 \in 0 .. k
        BY <1>2
      <4>2. remainder'[e] = Step(e).rest
        BY <1>4, <3>1
      <4> QED BY <3>2, <3>6, <3>7, <4>1, <4>2
    <3>12. Next_traced(e, k + 1)
      BY <3>10, <3>11
    <3>13. ASSUME NEW j \in k + 1 .. digits - 1 PROVE output'[j][e] = Unset
      <4>1. j # k /\ j \in 0 .. digits - 1 /\ j \in k .. digits - 1
        BY <1>2
      <4> QED BY <1>6, <1>8, <2>2, <3>1, <4>1
    <3> QED BY <3>12, <3>13
  <2> QED BY <1>1, <2>1, <2>2
<1>11. CASE s # t
  <2>1. passes'[s] = passes[s]
    BY <1>3, <1>4, <1>11
  <2>2. ASSUME NEW e \in Block(s)
        PROVE  /\ Next_traced(e, passes[s])
               /\ \A j \in passes[s] .. digits - 1 : output'[j][e] = Unset
    <3>1. e \in Elements /\ e \notin Block(t)
      BY <1>3, <1>8, <1>11, <2>2, BlocksDisjoint
    <3>2. \A j \in 0 .. digits - 1 : output'[j][e] = output[j][e]
      BY <1>6, <3>1
    <3>3. remainder'[e] = remainder[e]
      BY <1>4, <3>1
    <3>4. DigitsOf(e)' = DigitsOf(e)
      BY <1>3, <3>2 DEF DigitsOf
    <3>5. Next_traced(e, passes[s])
      BY <1>8, <2>2, <3>3, <3>4 DEF Traced
    <3>6. passes[s] \in Nat
      BY <1>3
    <3>7. \A j \in passes[s] .. digits - 1 : j \in 0 .. digits - 1
      BY <1>1, <3>6
    <3> QED BY <1>8, <2>2, <3>2, <3>5, <3>7
  <2> QED BY <1>9, <2>1, <2>2
<1> QED BY <1>10, <1>11

(* The other actions leave the digits alone.                                *)
LEMMA WrittenKept ==
  ASSUME Written, UNCHANGED <<input, base, digits, remainder, passes, output>>
  PROVE  Written'
<1>1. DigitTasks' = DigitTasks /\ \A s : Block(s)' = Block(s)
  BY ShapeKept
<1>2. \A e : DigitsOf(e)' = DigitsOf(e)
  BY DEF DigitsOf
<1> QED BY <1>1, <1>2 DEF Written, Traced

(* Every step keeps the invariant.                                          *)
LEMMA DecompStepHolds == DecompInv /\ [DecompNext]_decomp_vars => DecompInv'
<1> SUFFICES ASSUME DecompInv, [DecompNext]_decomp_vars PROVE DecompInv'
  OBVIOUS
<1>0. DecompTyped /\ Written /\ Recomposed
  BY DEF DecompInv
<1>1. CASE Reject
  <2>1. UNCHANGED <<input, base, digits, remainder, passes, output, restored, recomposed>>
        /\ status' = "INVALID_ARGUMENT"
    BY <1>1 DEF Reject
  <2>2. DigitTasks' = DigitTasks /\ Elements' = Elements /\ \A s : Block(s)' = Block(s)
    BY <2>1, ShapeKept
  <2>3. DecompTyped'
    BY <1>0, <2>1, <2>2 DEF DecompTyped
  <2>4. Written'
    BY <1>0, <2>1, WrittenKept
  <2>5. Recomposed'
    BY <1>0, <2>1, <2>2 DEF Recomposed, Decomposed
  <2> QED BY <2>3, <2>4, <2>5 DEF DecompInv
<1>2. ASSUME NEW t \in DigitTasks, DigitPass(t) PROVE DecompInv'
  <2>1. DecompTyped' /\ Written'
    BY <1>0, <1>2, PassTyped, PassWritten
  <2>2. ~Decomposed
    <3>1. passes[t] \in Nat /\ passes[t] < digits
      BY <1>0, <1>2, ConstantsTyped DEF DecompTyped, DigitPass
    <3>2. digits \in Nat
      BY <1>0, ConstantsTyped
    <3> QED BY <3>1, <3>2 DEF Decomposed
  <2>3. recomposed = {} /\ recomposed' = {} /\ status' = "running"
    BY <1>0, <1>2, <2>2 DEF Recomposed, DigitPass
  <2>4. Recomposed'
    BY <2>3 DEF Recomposed
  <2> QED BY <2>1, <2>4 DEF DecompInv
<1>3. ASSUME NEW t \in DigitTasks, RecomposeTask(t) PROVE DecompInv'
  <2>1. /\ UNCHANGED <<input, base, digits, remainder, passes, output>>
        /\ recomposed' = recomposed \cup {t} /\ Decomposed /\ base > 1
        /\ status' = IF recomposed' = DigitTasks THEN "SUCCESS" ELSE status
        /\ status = "running"
    BY <1>3 DEF RecomposeTask
  <2>2. restored' = [e \in Elements |->
                     IF e \in Block(t) THEN Horner(output, e, base, digits) ELSE restored[e]]
    BY <1>3 DEF RecomposeTask
  <2>3. DigitTasks' = DigitTasks /\ Elements' = Elements /\ \A s : Block(s)' = Block(s)
    BY <2>1, ShapeKept
  <2>4. ASSUME NEW e \in Elements PROVE Horner(output, e, base, digits) \in Int
    <3>1. digits \in Nat \ {0} /\ base \in Nat /\ base >= 2 /\ Q \in Nat
      BY <1>0, <2>1, ConstantsTyped, QAssumption
    <3>2. PICK s \in DigitTasks : e \in Block(s)
      BY <1>0, BlocksCover DEF DecompTyped
    <3>3. PICK r : Trace(r, DigitsOf(e), base, digits)
      BY <1>0, <2>1, <3>2 DEF Written, Traced, Decomposed
    <3>4. \A k \in 0 .. digits - 1 : DigitsOf(e)[k] = output[k][e]
      BY DEF DigitsOf
    <3>5. PICK g : HornerOf(g, DigitsOf(e), base, digits)
                   /\ Horner(output, e, base, digits) = g[0]
      BY <3>1, <3>4, HornerIs
    <3>6. g[0] \in 0 .. Q - 1
      BY <3>1, <3>3, <3>5, HornerGivesBack
    <3> QED BY <3>1, <3>5, <3>6
  <2>5. restored' \in [Elements -> Int]
    BY <1>0, <2>2, <2>4 DEF DecompTyped
  <2>6. DecompTyped'
    BY <1>0, <2>1, <2>3, <2>5 DEF DecompTyped
  <2>7. Written'
    BY <1>0, <2>1, WrittenKept
  <2>8. ASSUME NEW s \in recomposed', NEW e \in Block(s)
        PROVE  restored'[e] = Horner(output, e, base, digits)
    <3>1. e \in Elements /\ s \in DigitTasks
      BY <1>0, <2>1, <2>8, BlockIn DEF DecompTyped
    <3>2. CASE e \in Block(t)
      BY <2>2, <3>1, <3>2
    <3>3. CASE e \notin Block(t)
      <4>1. s \in recomposed
        BY <2>1, <2>8, <3>3
      <4> QED BY <1>0, <2>2, <2>8, <3>1, <3>3, <4>1 DEF Recomposed
    <3> QED BY <3>2, <3>3
  <2>9. Recomposed'
    <3>1. Decomposed'
      BY <2>1, <2>3 DEF Decomposed
    <3> QED BY <2>1, <2>3, <2>8, <3>1 DEF Recomposed
  <2> QED BY <2>6, <2>7, <2>9 DEF DecompInv
<1>4. CASE UNCHANGED decomp_vars
  <2>1. UNCHANGED <<input, base, digits, remainder, passes, output, restored, recomposed, status>>
    BY <1>4 DEF decomp_vars
  <2>2. DigitTasks' = DigitTasks /\ Elements' = Elements /\ \A s : Block(s)' = Block(s)
    BY <2>1, ShapeKept
  <2>3. DecompTyped'
    BY <1>0, <2>1, <2>2 DEF DecompTyped
  <2>4. Written'
    BY <1>0, <2>1, WrittenKept
  <2>5. Recomposed'
    BY <1>0, <2>1, <2>2 DEF Recomposed, Decomposed
  <2> QED BY <2>3, <2>4, <2>5 DEF DecompInv
<1> QED BY <1>1, <1>2, <1>3, <1>4 DEF DecompNext

(* The inductive invariant of decompose and recompose.                      *)
THEOREM DecompInductive == DecompSpec => []DecompInv
BY DecompInitHolds, DecompStepHolds, PTL DEF DecompSpec

-----------------------------------------------------------------------------
(* After every pass of any task, the digits written so far and what remains *)
(* of each element, at its weight, stand for the element.                   *)
THEOREM PassesLoseNothing == DecompSpec => []DigitsAndRemainder
<1>1. DecompInv => DigitsAndRemainder
  <2> SUFFICES ASSUME DecompInv, base > 1, NEW t \in DigitTasks, NEW e \in Block(t)
               PROVE  (Horner(output, e, base, passes[t])
                         + remainder[e] * Power(base, passes[t]) - input[e]) % Q = 0
    BY DEF DigitsAndRemainder
  <2> DEFINE k == passes[t]
  <2>1. DecompTyped /\ Written
    BY DEF DecompInv
  <2>2. /\ base \in Nat /\ base >= 2 /\ k \in Nat /\ k <= digits /\ digits \in Nat
        /\ Q \in Nat /\ e \in Elements /\ remainder[e] \in Int
    BY <2>1, ConstantsTyped, QAssumption, BlockIn DEF DecompTyped
  <2>3. PICK r : Trace(r, DigitsOf(e), base, k) /\ r[0] = input[e] /\ r[k] = remainder[e]
    BY <2>1 DEF Written, Traced
  <2> HIDE DEF k
  <2>4. k \in Nat /\ \A j \in 0 .. k - 1 : DigitsOf(e)[j] = output[j][e]
    BY <2>2 DEF DigitsOf
  <2>5. PICK g : HornerOf(g, DigitsOf(e), base, k) /\ Horner(output, e, base, k) = g[0]
    BY <2>4, HornerIs
  <2>6. g[0] \in 0 .. Q - 1 /\ Cong(g[0] + r[k] * Power(base, k), r[0])
    BY <2>2, <2>3, <2>5, HornerGivesBack
  <2> DEFINE H == g[0]
             R == remainder[e] * Power(base, k)
             x == input[e]
  <2>7. H \in Int /\ R \in Int /\ x \in Int
    <3>1. Power(base, k) \in Nat
      BY <2>2, PowerGrows
    <3>2. x \in 0 .. Q - 1
      BY <2>1, <2>2, VectorTyped DEF DecompTyped
    <3> QED BY <2>2, <2>6, <3>1, <3>2
  <2>8. Cong(H + R, x)
    BY <2>3, <2>6
  <2> HIDE DEF H, R, x
  <2>9. H + R \in Int /\ -x \in Int /\ (H + R) + (-x) = H + R - x /\ x + (-x) = 0
        /\ H + R - x \in Int
    BY <2>7
  <2>10. Cong((H + R) + (-x), x + (-x))
    BY <2>7, <2>8, <2>9, CongRules
  <2>11. Cong(H + R - x, 0)
    BY <2>9, <2>10
  <2>12. (H + R - x) % Q = 0
    BY <2>9, <2>11, Residues
  <2> QED BY <2>5, <2>12 DEF H, R, x, k
<1> QED BY <1>1, DecompInductive, PTL

(* No digit an honest prover sends is refused for its size.                 *)
THEOREM DigitsPass == DecompSpec => []HonestDigitsPassNormCheck
<1>1. DecompInv => HonestDigitsPassNormCheck
  <2> SUFFICES ASSUME DecompInv, NEW k \in 0 .. digits - 1, NEW e \in Elements,
                      output[k][e] # Unset
               PROVE  (IF output[k][e] > Q \div 2 THEN Q - output[k][e] ELSE output[k][e])
                        < (base + 1) \div 2 + 1
    BY DEF HonestDigitsPassNormCheck
  <2>1. DecompTyped /\ Written
    BY DEF DecompInv
  <2>2. PICK t \in DigitTasks : e \in Block(t)
    BY <2>1, BlocksCover DEF DecompTyped
  <2>3. passes[t] \in Nat /\ base \in Nat /\ digits \in Nat
    BY <2>1, ConstantsTyped DEF DecompTyped
  <2>4. k \in 0 .. passes[t] - 1
    BY <2>1, <2>2, <2>3 DEF Written
  <2>5. base >= 2
    BY <2>1, <2>3, <2>4 DEF Written
  <2>6. PICK r : Trace(r, DigitsOf(e), base, passes[t])
    BY <2>1, <2>2 DEF Written, Traced
  <2>7. DigitsOf(e)[k] = DigitStep(r[k], base).digit /\ r[k] \in Int
    BY <2>3, <2>4, <2>6 DEF Trace
  <2>8. output[k][e] = DigitStep(r[k], base).digit
    BY <2>7 DEF DigitsOf
  <2> QED BY <2>3, <2>5, <2>7, <2>8, DigitSmall
<1> QED BY <1>1, DecompInductive, PTL

(* What recomposes gives the vector back exactly when its digits can.       *)
THEOREM RoundTrip == DecompSpec => []RoundTripExactly
<1>1. DecompInv => RoundTripExactly
  <2> SUFFICES ASSUME DecompInv, status = "SUCCESS", NEW e \in Elements
               PROVE  LET unit == (Power(base, digits) - 1) \div (base - 1)
                          x    == IF input[e] > Q \div 2 THEN input[e] - Q ELSE input[e]
                          fits == -((base - 1) \div 2) * unit <= x /\ x <= (base \div 2) * unit
                      IN  IF digits >= compute_nof_digits(base) THEN restored[e] = input[e]
                          ELSE base > 2 => (restored[e] = input[e] <=> fits)
    BY DEF RoundTripExactly
  <2>1. DecompTyped /\ Written /\ Recomposed
    BY DEF DecompInv
  <2>2. PICK t \in DigitTasks : e \in Block(t)
    BY <2>1, BlocksCover DEF DecompTyped
  <2>3. t \in recomposed /\ Decomposed /\ base > 1
    BY <2>1, <2>2 DEF Recomposed
  <2>4. base \in Nat /\ base >= 2 /\ digits \in Nat \ {0} /\ digits \in Nat
    BY <2>1, <2>3, ConstantsTyped
  <2>5. restored[e] = Horner(output, e, base, digits)
    BY <2>1, <2>2, <2>3 DEF Recomposed
  <2>6. PICK r : Trace(r, DigitsOf(e), base, digits) /\ r[0] = input[e]
    BY <2>1, <2>2, <2>3 DEF Written, Traced, Decomposed
  <2>7. \A j \in 0 .. digits - 1 : DigitsOf(e)[j] = output[j][e]
    BY DEF DigitsOf
  <2>8. PICK g : HornerOf(g, DigitsOf(e), base, digits) /\ Horner(output, e, base, digits) = g[0]
    BY <2>4, <2>7, HornerIs
  <2>9. input[e] \in 0 .. Q - 1
    BY <2>1, VectorTyped DEF DecompTyped
  <2>10. LET unit == (Power(base, digits) - 1) \div (base - 1)
             x    == IF r[0] > Q \div 2 THEN r[0] - Q ELSE r[0]
             fits == -((base - 1) \div 2) * unit <= x /\ x <= (base \div 2) * unit
         IN  /\ base > 2 => (g[0] = r[0] <=> fits)
             /\ digits >= compute_nof_digits(base) => g[0] = r[0]
    BY <2>4, <2>6, <2>8, <2>9, ElementGivenBack
  <2> QED BY <2>5, <2>6, <2>8, <2>10
<1> QED BY <1>1, DecompInductive, PTL
=============================================================================
