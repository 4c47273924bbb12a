-------------------------- MODULE MerkleTreeProofs --------------------------
(***************************************************************************)
(* For every tree, number of leaves, size of a segment and number of       *)
(* slots, and in whatever order the segments complete: a task of the build *)
(* stays inside buffers that are there, what it reads does not change      *)
(* under it, and the root is the one of the full tree outside the cases of *)
(* Misbuilt.                                                               *)
(***************************************************************************)
EXTENDS MerkleTree, FiniteSetTheorems, WellFoundedInduction, TLAPS

-----------------------------------------------------------------------------
(* Segments.  All sizes are those of module MerkleTree; the inputs of a     *)
(* layer are numbered as the outputs of the one below, whether they are in  *)
(* its results or in buffers of their own.                                  *)
(* The hashes of segment s of layer l.                                      *)
Count(l, s) == IF is_last(l, s) THEN last_batch(l) ELSE K

(* The segment of the next layer that its outputs are inputs of.            *)
Parent(l, s) == Least(s \div input_size(l + 1), max_segment(l + 1))

(* The places a task writes behind its own outputs.                         *)
Pad(l, s) == IF is_last(l, s) THEN results_size(l) - (s * K + last_batch(l)) ELSE 0

Segment(l) == 0 .. max_segment(l)
Children(l, s) == {c \in Segment(l) : Parent(l, c) = s}

(* The inputs a segment reads, and the outputs and padding it writes.       *)
Reads(l, s) == s * K * input_size(l) .. s * K * input_size(l) + Count(l, s) * input_size(l) - 1
Outputs(l, s) == s * K .. s * K + Count(l, s) - 1
PadPlaces(l, s) == s * K + Count(l, s) .. s * K + Count(l, s) + Pad(l, s) - 1

(* The arguments of a build that was accepted.                              *)
Shape ==
  /\ DOMAIN tree = {"arity", "store", "leaves", "policy"}
  /\ tree.arity \in Seq(Nat \ {0}) /\ Len(tree.arity) > 0
  /\ tree.store \in 0 .. Len(tree.arity) - 1
TreeOK == Shape /\ tree.leaves \in Nat \ {0} /\ tree.leaves <= Capacity

-----------------------------------------------------------------------------
(* The invariant of a build.  done are the segments whose completed task    *)
(* has been used; sent are those and the ones in a slot.                    *)
Id(t) == <<t.layer, t.segment>>
Flight == {Id(task[x]) : x \in {y \in Slots : task[y] # NoTask}}

(* The inputs of segment s of layer l + 1 that are counted as ready: the    *)
(* outputs of completed tasks, and the padding of tasks that were sent.     *)
Counted(done, sent, l, s) ==
  {i \in Reads(l + 1, s) :
     \E c \in Children(l, s) : \/ <<l, c>> \in done /\ i \in Outputs(l, c)
                               \/ <<l, c>> \in sent /\ i \in PadPlaces(l, c)}

(* The map has the segment a task in a slot writes to, and counts right.    *)
Accounts(done, sent, S) ==
  /\ \A id \in DOMAIN S : DOMAIN S[id] = {"ready", "size", "m_input_data"}
  /\ \A l \in Layers \ {Root} : \A s \in Segment(l + 1) :
       /\ (\E c \in Children(l, s) : <<l, c>> \in sent) /\ <<l + 1, s>> \notin done
            => <<l + 1, s>> \in DOMAIN S
       /\ <<l + 1, s>> \in DOMAIN S =>
            /\ S[<<l + 1, s>>].size = Count(l + 1, s) * input_size(l + 1)
            /\ S[<<l + 1, s>>].ready = Cardinality(Counted(done, sent, l, s))

(* A segment is sent only when all its inputs are there.                    *)
Ordered(done, sent) ==
  \A l \in Layers \ {Root} : \A s \in Segment(l + 1) :
    <<l + 1, s>> \in sent => \A c \in Children(l, s) : <<l, c>> \in done

(* The segments of layer 0 are sent one after the other.                    *)
Leaves(sent, idx) == \A s \in Segment(0) : <<0, s>> \in sent <=> s < idx

(* Where a task reads,                                                      *)
ReadsFrom(t) ==
  LET first == t.segment * K * input_size(t.layer)
  IN  \/ /\ t.layer = 0 /\ t.from = <<"leaves">> /\ t.first = first
         /\ first + t.batch * input_size(0) <= tree.leaves
      \/ /\ t.layer = 0 /\ t.from = <<"padded leaves">> /\ t.first = 0
         /\ t.batch = last_batch(0)
      \/ /\ t.layer # 0 /\ t.layer <= tree.store
         /\ t.from = <<"segment", t.layer, t.segment>> /\ t.first = 0
      \/ /\ t.layer # 0 /\ t.layer > tree.store
         /\ t.from = <<"results", t.layer - 1>> /\ t.first = first

(* and where it writes.                                                     *)
WritesTo(t) ==
  \/ /\ t.layer = Root /\ t.to = <<"results", t.layer>> /\ t.at = 0 /\ t.padding = 0
  \/ /\ t.layer # Root /\ t.next = Parent(t.layer, t.segment)
     /\ t.padding = Pad(t.layer, t.segment)
     /\ \/ /\ t.layer < tree.store /\ t.to = <<"segment", t.layer + 1, t.next>>
           /\ t.at = (t.segment * K) % (K * input_size(t.layer + 1))
        \/ /\ t.layer >= tree.store /\ t.to = <<"results", t.layer>>
           /\ t.at = t.segment * K

JobOK(t) ==
  /\ t.layer \in Layers /\ t.segment \in Segment(t.layer)
  /\ t.batch = Count(t.layer, t.segment)
  /\ t \in HashTasks
  /\ ReadsFrom(t) /\ WritesTo(t)

Jobs == \A x \in Slots : task[x] # NoTask => JobOK(task[x])
Single(done) ==
  \A x \in Slots : task[x] # NoTask =>
    /\ Id(task[x]) \notin done
    /\ \A y \in Slots : task[y] # NoTask /\ Id(task[y]) = Id(task[x]) => x = y

Progress(done) ==
  /\ Single(done)
  /\ Accounts(done, done \cup Flight, segments)
  /\ Ordered(done, done \cup Flight)
  /\ Leaves(done \cup Flight, l0_segment_idx)

Memory ==
  /\ DOMAIN task = Slots
  /\ DOMAIN m_results = Layers
  /\ \A l \in Layers : DOMAIN m_results[l] = 0 .. results_size(l) - 1

Sending ==
  /\ l0_segment_idx \in Nat /\ padding_required \in BOOLEAN
  /\ l0_segment_idx <= max_segment(0) => (padding_required <=> tree.leaves < Capacity)

Created ==
  /\ Shape /\ DOMAIN task = Slots /\ \A x \in Slots : task[x] = NoTask
  /\ segments = <<>> /\ l0_segment_idx = 0
Running ==
  state \in {"building", "built"} /\ TreeOK /\ Memory /\ Sending /\ Jobs
IndInv ==
  \/ state = "created" /\ Created
  \/ Running /\ \E done : Progress(done)

-----------------------------------------------------------------------------
(* Arithmetic.                                                              *)
Less == {p \in Nat \X Nat : p[1] < p[2]}

(* A non-empty set of numbers has a least one.                              *)
LEMMA LeastExists ==
  ASSUME NEW S \in SUBSET Nat, S # {}
  PROVE  \E m \in S : \A k \in S : m <= k
<1>1. IsWellFoundedOn(Less, Nat)
  <2>1. Less = OpToRel(<, Nat)
    BY DEF Less, OpToRel
  <2> QED BY <2>1, NatLessThanWellFounded
<1>2. PICK x \in S : \A y \in S : ~(<<y, x>> \in Less)
  BY <1>1, WFMin
<1>3. \A y \in S : y \in Nat /\ x \in Nat /\ ~(y < x)
  BY <1>2 DEF Less
<1>4. \A y \in S : x <= y
  BY <1>3
<1> QED BY <1>4

(* A set that holds 0 and with every number the next holds them all.        *)
LEMMA Induction ==
  ASSUME NEW S \in SUBSET Nat, 0 \in S, \A n \in S : n + 1 \in S
  PROVE  S = Nat
<1> SUFFICES ASSUME Nat \ S # {} PROVE FALSE
  OBVIOUS
<1>1. PICK m \in Nat \ S : \A k \in Nat \ S : m <= k
  BY LeastExists
<1>2. m - 1 \in S
  BY <1>1
<1>3. (m - 1) + 1 \in S
  BY <1>2
<1> QED BY <1>1, <1>3

(* Euclid.                                                                  *)
LEMMA DivFacts ==
  ASSUME NEW a \in Nat, NEW b \in Nat \ {0}
  PROVE  /\ a \div b \in Nat /\ a % b \in 0 .. b - 1
         /\ a = (a \div b) * b + (a % b)
<1>1. a \div b \in Nat /\ a % b \in 0 .. b - 1
  OBVIOUS
<1>2. a % b = a - b * (a \div b)
  OBVIOUS
<1>3. b * (a \div b) = (a \div b) * b /\ (a \div b) * b \in Nat
  BY <1>1
<1> QED BY <1>1, <1>2, <1>3

(* Multiplying by a number keeps the order.                                 *)
LEMMA MulMonotone ==
  ASSUME NEW a \in Nat, NEW b \in Nat, NEW c \in Nat, a <= b
  PROVE  a * c <= b * c /\ a * c \in Nat /\ b * c \in Nat
<1>1. PICK k \in Nat : b = a + k
  <2>1. b - a \in Nat /\ b = a + (b - a)
    OBVIOUS
  <2> QED BY <2>1
<1>2. b * c = a * c + k * c
  BY <1>1
<1>3. k * c \in Nat /\ a * c \in Nat
  BY <1>1
<1> QED BY <1>2, <1>3

(* The quotient is what fits.                                               *)
LEMMA DivUnique ==
  ASSUME NEW a \in Nat, NEW b \in Nat \ {0}, NEW q \in Nat, q * b <= a, a < q * b + b
  PROVE  a \div b = q
<1>1. /\ a \div b \in Nat /\ a % b \in 0 .. b - 1
      /\ a = (a \div b) * b + (a % b)
  BY DivFacts
<1> DEFINE p == a \div b
<1> HIDE DEF p
<1>2. p \in Nat /\ p * b <= a /\ a < p * b + b
  BY <1>1 DEF p
<1>3. ~(p < q)
  <2> SUFFICES ASSUME p + 1 <= q PROVE FALSE
    BY <1>2
  <2>1. (p + 1) * b <= q * b
    BY <1>2, MulMonotone
  <2>2. (p + 1) * b = p * b + b /\ p * b \in Nat /\ q * b \in Nat
    BY <1>2
  <2> QED BY <1>2, <2>1, <2>2
<1>4. ~(q < p)
  <2> SUFFICES ASSUME q + 1 <= p PROVE FALSE
    BY <1>2
  <2>1. (q + 1) * b <= p * b
    BY <1>2, MulMonotone
  <2>2. (q + 1) * b = q * b + b /\ p * b \in Nat /\ q * b \in Nat
    BY <1>2
  <2> QED BY <1>2, <2>1, <2>2
<1> QED BY <1>2, <1>3, <1>4 DEF p

(* A remainder is no more than what is left after any whole number.         *)
LEMMA ModBound ==
  ASSUME NEW q \in Nat, NEW b \in Nat \ {0}, NEW o \in Nat
  PROVE  (q * b + o) % b <= o /\ (q * b + o) % b \in Nat
<1>1. q * b + o \in Nat
  OBVIOUS
<1> DEFINE x == q * b + o
           p == x \div b
<1>2. p \in Nat /\ x % b \in 0 .. b - 1 /\ x = p * b + (x % b)
  BY <1>1, DivFacts
<1>3. q <= p
  <2> SUFFICES ASSUME p + 1 <= q PROVE FALSE
    BY <1>2
  <2>1. (p + 1) * b <= q * b
    BY <1>2, MulMonotone
  <2> HIDE DEF p
  <2>2. (p + 1) * b = p * b + b /\ p * b \in Nat /\ q * b \in Nat
    BY <1>2
  <2> QED BY <1>2, <2>1, <2>2
<1>4. q * b <= p * b
  BY <1>2, <1>3, MulMonotone
<1> HIDE DEF p
<1>5. p * b \in Nat /\ q * b \in Nat
  BY <1>2
<1> QED BY <1>2, <1>4, <1>5

(* The ceiling of a division.                                               *)
LEMMA CeilFacts ==
  ASSUME NEW a \in Nat \ {0}, NEW b \in Nat \ {0}
  PROVE  /\ CeilDiv(a, b) \in Nat \ {0}
         /\ (CeilDiv(a, b) - 1) * b < a /\ a <= CeilDiv(a, b) * b
<1> DEFINE q == (a + b - 1) \div b
<1>1. a + b - 1 \in Nat
  OBVIOUS
<1>2. /\ q \in Nat /\ (a + b - 1) % b \in 0 .. b - 1
      /\ a + b - 1 = q * b + ((a + b - 1) % b)
  BY <1>1, DivFacts
<1>3. q * b \in Nat /\ (q - 1) * b = q * b - b
  BY <1>2
<1> HIDE DEF q
<1>4. q # 0
  <2>1. 0 * b = 0
    OBVIOUS
  <2> QED BY <1>2, <2>1
<1>5. (q - 1) * b < a /\ a <= q * b
  BY <1>2, <1>3
<1> QED BY <1>2, <1>4, <1>5 DEF CeilDiv, q

-----------------------------------------------------------------------------
(* The sizes of the layers.                                                 *)
(* A table filled from the top down to the bottom exists,                   *)
LEMMA DownExists ==
  ASSUME NEW r \in Nat, NEW g
  PROVE  \E f : f = [k \in 0 .. r |-> IF k = r THEN 1 ELSE f[k + 1] * g[k + 2]]
<1> DEFINE Val(f, k) == IF k = r THEN 1 ELSE f[k + 1] * g[k + 2]
           Good == {m \in Nat : m <= r => \E f : f = [k \in r - m .. r |-> Val(f, k)]}
<1>1. 0 \in Good
  <2> DEFINE f == [k \in r - 0 .. r |-> 1]
  <2>1. f = [k \in r - 0 .. r |-> Val(f, k)]
    <3>1. \A k \in r - 0 .. r : Val(f, k) = 1
      OBVIOUS
    <3> HIDE DEF Val
    <3> QED BY <3>1
  <2> HIDE DEF f, Val
  <2> QED BY <2>1
<1>2. ASSUME NEW m \in Good PROVE m + 1 \in Good
  <2> SUFFICES ASSUME m + 1 <= r
               PROVE  \E f : f = [k \in r - (m + 1) .. r |-> Val(f, k)]
    OBVIOUS
  <2>1. PICK f : f = [k \in r - m .. r |-> Val(f, k)]
    <3> HIDE DEF Val
    <3> QED OBVIOUS
  <2> DEFINE q == [k \in r - (m + 1) .. r |-> IF k = r - (m + 1) THEN Val(f, k) ELSE f[k]]
  <2>2. \A k \in r - m .. r : f[k] = Val(f, k) /\ q[k] = f[k]
    <3> HIDE DEF Val
    <3>1. \A k \in r - m .. r : f[k] = Val(f, k)
      BY <2>1
    <3>2. \A k \in r - m .. r : k \in r - (m + 1) .. r /\ k # r - (m + 1)
      OBVIOUS
    <3>3. \A k \in r - m .. r : q[k] = f[k]
      BY <3>2
    <3> QED BY <3>1, <3>3
  <2>3. ASSUME NEW k \in r - (m + 1) .. r PROVE q[k] = Val(q, k)
    <3>1. k = r \/ q[k + 1] = f[k + 1]
      <4>1. k # r => k + 1 \in r - m .. r
        OBVIOUS
      <4> HIDE DEF q, Val
      <4> QED BY <2>2, <4>1
    <3>2. Val(q, k) = Val(f, k)
      <4> HIDE DEF q
      <4> QED BY <3>1
    <3>3. k = r - (m + 1) \/ k \in r - m .. r
      OBVIOUS
    <3>4. k = r - (m + 1) => q[k] = Val(f, k)
      <4> HIDE DEF Val
      <4> QED OBVIOUS
    <3> HIDE DEF q, Val
    <3> QED BY <2>2, <3>2, <3>3, <3>4
  <2>4. q = [k \in r - (m + 1) .. r |-> q[k]]
    <3> HIDE DEF Val
    <3> QED OBVIOUS
  <2> HIDE DEF q, Val
  <2> QED BY <2>3, <2>4
<1> HIDE DEF Good
<1>3. Good = Nat
  BY <1>1, <1>2, Induction DEF Good
<1>4. r \in Good /\ r - r = 0 /\ r <= r
  BY <1>3
<1>5. \E f : f = [k \in 0 .. r |-> Val(f, k)]
  <2> HIDE DEF Val
  <2> QED BY <1>4 DEF Good
<1> QED BY <1>5

(* and one filled from the bottom up.                                       *)
Rises(f, r, g, x) ==
  /\ f = [k \in 0 .. r |-> f[k]]
  /\ f[0] = CeilDiv(x, g[1])
  /\ \A k \in 1 .. r : f[k] = CeilDiv(f[k - 1], g[k + 1])
LEMMA UpExists ==
  ASSUME NEW r \in Nat, NEW g, NEW x
  PROVE  \E f : Rises(f, r, g, x)
<1> DEFINE Val(f, k) == IF k = 0 THEN CeilDiv(x, g[1]) ELSE CeilDiv(f[k - 1], g[k + 1])
           Good == {m \in Nat : \E f : f = [k \in 0 .. m |-> Val(f, k)]}
<1>1. 0 \in Good
  <2> DEFINE f == [k \in 0 .. 0 |-> CeilDiv(x, g[1])]
  <2>1. f = [k \in 0 .. 0 |-> Val(f, k)]
    <3>1. \A k \in 0 .. 0 : Val(f, k) = CeilDiv(x, g[1])
      OBVIOUS
    <3> HIDE DEF Val
    <3> QED BY <3>1
  <2> HIDE DEF f, Val
  <2> QED BY <2>1
<1>2. ASSUME NEW m \in Good PROVE m + 1 \in Good
  <2>1. PICK f : f = [k \in 0 .. m |-> Val(f, k)]
    <3> HIDE DEF Val
    <3> QED OBVIOUS
  <2> DEFINE q == [k \in 0 .. m + 1 |-> IF k = m + 1 THEN Val(f, k) ELSE f[k]]
  <2>2. \A k \in 0 .. m : f[k] = Val(f, k) /\ q[k] = f[k]
    <3> HIDE DEF Val
    <3>1. \A k \in 0 .. m : f[k] = Val(f, k)
      BY <2>1
    <3>2. \A k \in 0 .. m : k \in 0 .. m + 1 /\ k # m + 1
      OBVIOUS
    <3>3. \A k \in 0 .. m : q[k] = f[k]
      BY <3>2
    <3> QED BY <3>1, <3>3
  <2>3. ASSUME NEW k \in 0 .. m + 1 PROVE q[k] = Val(q, k)
    <3>1. k = 0 \/ q[k - 1] = f[k - 1]
      <4>1. k # 0 => k - 1 \in 0 .. m
        OBVIOUS
      <4> HIDE DEF q, Val
      <4> QED BY <2>2, <4>1
    <3>2. Val(q, k) = Val(f, k)
      <4> HIDE DEF q
      <4> QED BY <3>1
    <3>3. k = m + 1 \/ k \in 0 .. m
      OBVIOUS
    <3>4. k = m + 1 => q[k] = Val(f, k)
      <4> HIDE DEF Val
      <4> QED OBVIOUS
    <3> HIDE DEF q, Val
    <3> QED BY <2>2, <3>2, <3>3, <3>4
  <2>4. q = [k \in 0 .. m + 1 |-> q[k]]
    <3> HIDE DEF Val
    <3> QED OBVIOUS
  <2> HIDE DEF q, Val
  <2> QED BY <2>3, <2>4
<1> HIDE DEF Good
<1>3. Good = Nat
  BY <1>1, <1>2, Induction DEF Good
<1>4. \E f : f = [k \in 0 .. r |-> Val(f, k)]
  <2> HIDE DEF Val
  <2> QED BY <1>3 DEF Good
<1>5. PICK f : f = [k \in 0 .. r |-> Val(f, k)]
  <2> HIDE DEF Val
  <2> QED BY <1>4
<1>6. \A k \in 0 .. r : f[k] = Val(f, k)
  <2> HIDE DEF Val
  <2> QED BY <1>5
<1>7. f = [k \in 0 .. r |-> f[k]]
  <2> HIDE DEF Val
  <2> QED BY <1>5
<1>8. f[0] = CeilDiv(x, g[1])
  BY <1>6
<1>9. \A k \in 1 .. r : f[k] = CeilDiv(f[k - 1], g[k + 1])
  BY <1>6
<1>10. Rises(f, r, g, x)
  <2> HIDE DEF Val
  <2> QED BY <1>7, <1>8, <1>9 DEF Rises
<1> QED BY <1>10

(* The layers are numbered from 0 to the root's, and every hash has inputs. *)
LEMMA LayersTyped ==
  ASSUME Shape
  PROVE  /\ Root \in Nat /\ Layers = 0 .. Root
         /\ \A l \in Layers : input_size(l) \in Nat \ {0}
<1>1. Len(tree.arity) \in Nat /\ Len(tree.arity) > 0
  BY DEF Shape
<1>2. \A i \in 1 .. Len(tree.arity) : tree.arity[i] \in Nat \ {0}
  BY DEF Shape
<1> QED BY <1>1, <1>2 DEF Root, Layers, nof_layers, input_size

(* Each layer has as many hashes as the next one has inputs,                *)
LEMMA HashesRec ==
  ASSUME Shape
  PROVE  /\ nof_hashes(Root) = 1
         /\ \A l \in Layers \ {Root} : nof_hashes(l) = nof_hashes(l + 1) * input_size(l + 1)
<1> DEFINE Is(f) == f = [k \in Layers |-> IF k = Root THEN 1 ELSE f[k + 1] * input_size(k + 1)]
           table == CHOOSE f : Is(f)
<1>1. \E f : Is(f)
  <2>1. \A k \in Layers : input_size(k + 1) = tree.arity[k + 2]
    BY LayersTyped DEF input_size
  <2>2. \E f : f = [k \in 0 .. Root |-> IF k = Root THEN 1 ELSE f[k + 1] * tree.arity[k + 2]]
    BY LayersTyped, DownExists
  <2> QED BY <2>1, <2>2, LayersTyped
<1>2. Is(table)
  <2> HIDE DEF Is
  <2> QED BY <1>1
<1>3. \A l \in Layers : nof_hashes(l) = table[l]
  BY DEF nof_hashes
<1> HIDE DEF table
<1>4. \A l \in Layers : table[l] = IF l = Root THEN 1 ELSE table[l + 1] * input_size(l + 1)
  BY <1>2
<1>5. \A l \in Layers \ {Root} : l + 1 \in Layers
  BY LayersTyped
<1> QED BY <1>3, <1>4, <1>5, LayersTyped

(* and needs as many of them as there are inputs from below to hash.        *)
LEMMA OccupiedRec ==
  ASSUME Shape
  PROVE  /\ occupied(0) = CeilDiv(tree.leaves, input_size(0))
         /\ \A l \in Layers \ {Root} : occupied(l + 1) = CeilDiv(occupied(l), input_size(l + 1))
<1> DEFINE Is(f) == f = [k \in Layers |->
                           CeilDiv(IF k = 0 THEN tree.leaves ELSE f[k - 1], input_size(k))]
           table == CHOOSE f : Is(f)
<1>1. \E f : Is(f)
  <2>1. PICK f : Rises(f, Root, tree.arity, tree.leaves)
    BY LayersTyped, UpExists
  <2>2. \A k \in Layers : input_size(k) = tree.arity[k + 1]
    BY DEF input_size
  <2>3. \A k \in Layers : k = 0 \/ k \in 1 .. Root
    BY LayersTyped
  <2>4. \A k \in Layers : f[k] = CeilDiv(IF k = 0 THEN tree.leaves ELSE f[k - 1], input_size(k))
    <3>1. f[0] = CeilDiv(tree.leaves, tree.arity[1])
      BY <2>1 DEF Rises
    <3>2. \A k \in 1 .. Root : f[k] = CeilDiv(f[k - 1], tree.arity[k + 1])
      BY <2>1 DEF Rises
    <3> QED BY ONLY <3>1, <3>2, <2>2, <2>3
  <2>5. f = [k \in Layers |-> f[k]]
    BY <2>1, LayersTyped DEF Rises
  <2>6. f = [k \in Layers |-> CeilDiv(IF k = 0 THEN tree.leaves ELSE f[k - 1], input_size(k))]
    BY <2>4, <2>5
  <2> QED BY <2>6
<1>2. Is(table)
  <2> HIDE DEF Is
  <2> QED BY <1>1
<1>3. \A l \in Layers : occupied(l) = table[l]
  BY DEF occupied
<1> HIDE DEF table
<1>4. \A l \in Layers : table[l] = CeilDiv(IF l = 0 THEN tree.leaves ELSE table[l - 1], input_size(l))
  BY <1>2
<1>5. \A l \in Layers \ {Root} : l + 1 \in Layers /\ l + 1 # 0 /\ (l + 1) - 1 = l
  BY LayersTyped
<1> QED BY <1>3, <1>4, <1>5, LayersTyped

(* so there is something in every layer.                                    *)
LEMMA LayersPositive ==
  ASSUME Shape, tree.leaves \in Nat \ {0}
  PROVE  \A l \in Layers : nof_hashes(l) \in Nat \ {0} /\ occupied(l) \in Nat \ {0}
<1> DEFINE Up == {m \in Nat : m <= Root => occupied(m) \in Nat \ {0}}
           Down == {m \in Nat : m <= Root => nof_hashes(Root - m) \in Nat \ {0}}
<1>0. /\ Root \in Nat /\ Layers = 0 .. Root
      /\ \A l \in Layers : input_size(l) \in Nat \ {0}
  BY LayersTyped
<1>1. 0 \in Up
  <2>1. input_size(0) \in Nat \ {0} /\ occupied(0) = CeilDiv(tree.leaves, input_size(0))
    BY <1>0, OccupiedRec
  <2>2. occupied(0) \in Nat \ {0}
    BY <2>1, CeilFacts
  <2> QED BY <2>2
<1>2. ASSUME NEW m \in Up PROVE m + 1 \in Up
  <2> SUFFICES ASSUME m + 1 <= Root PROVE occupied(m + 1) \in Nat \ {0}
    OBVIOUS
  <2>1. m \in Layers \ {Root} /\ m + 1 \in Layers /\ occupied(m) \in Nat \ {0}
    BY <1>0
  <2>2. occupied(m + 1) = CeilDiv(occupied(m), input_size(m + 1))
    BY <2>1, OccupiedRec
  <2> QED BY <1>0, <2>1, <2>2, CeilFacts
<1>3. 0 \in Down
  BY <1>0, HashesRec
<1>4. ASSUME NEW m \in Down PROVE m + 1 \in Down
  <2> SUFFICES ASSUME m + 1 <= Root PROVE nof_hashes(Root - (m + 1)) \in Nat \ {0}
    OBVIOUS
  <2> DEFINE l == Root - (m + 1)
  <2>1. l \in Layers \ {Root} /\ l + 1 \in Layers /\ l + 1 = Root - m
    BY <1>0
  <2>2. nof_hashes(l) = nof_hashes(l + 1) * input_size(l + 1)
    BY <2>1, HashesRec
  <2>3. nof_hashes(Root - m) \in Nat \ {0}
    <3>1. m \in Nat /\ m <= Root
      BY <1>0
    <3> QED BY <3>1
  <2>4. \A x, y \in Nat \ {0} : x * y \in Nat \ {0}
    <3> TAKE x, y \in Nat \ {0}
    <3>1. 1 <= x /\ 1 \in Nat /\ x \in Nat /\ y \in Nat
      OBVIOUS
    <3>2. 1 * y <= x * y /\ x * y \in Nat
      BY <3>1, MulMonotone
    <3> QED BY <3>1, <3>2
  <2> HIDE DEF l
  <2>5. nof_hashes(l) \in Nat \ {0}
    BY <1>0, <2>1, <2>2, <2>3, <2>4
  <2> QED BY <2>5 DEF l
<1> HIDE DEF Up, Down
<1>5. Up = Nat /\ Down = Nat
  BY <1>1, <1>2, <1>3, <1>4, Induction DEF Up, Down
<1>6. ASSUME NEW l \in Layers PROVE nof_hashes(l) \in Nat \ {0} /\ occupied(l) \in Nat \ {0}
  <2>1. l \in Up /\ l <= Root /\ Root - l \in Down /\ Root - l <= Root /\ Root - (Root - l) = l
    BY <1>0, <1>5
  <2> QED BY <2>1 DEF Up, Down
<1> QED BY <1>6

(* Cutting n hashes into segments leaves 2 to K + 1 of them for the last, or *)
(* all when there are not as many.                                          *)
LEMMA Cut ==
  ASSUME NEW n \in Nat \ {0},
         NEW b, b = IF n < K THEN n ELSE Least(n, ((n - 2) % K) + 2),
         NEW m, m = (n - b) \div K
  PROVE  /\ b \in 1 .. K + 1 /\ b <= n
         /\ m \in Nat /\ n = m * K + b
         /\ m # 0 => b >= 2
<1>0. K \in Nat /\ K >= 2
  BY MerkleAssumption
<1>1. CASE n < K
  <2>1. b = n /\ n - b = 0
    BY <1>1
  <2>2. 0 \div K = 0
    BY <1>0
  <2>3. m = 0 /\ 0 * K = 0
    BY <1>0, <2>1, <2>2
  <2> QED BY <1>0, <1>1, <2>1, <2>3
<1>2. CASE n >= K
  <2> DEFINE q == (n - 2) \div K
             r == (n - 2) % K
  <2>1. n - 2 \in Nat /\ K \in Nat \ {0}
    BY <1>0, <1>2
  <2>2. q \in Nat /\ r \in 0 .. K - 1 /\ n - 2 = q * K + r
    BY <2>1, DivFacts
  <2>3. b = Least(n, r + 2)
    BY <1>0, <1>2
  <2> HIDE DEF q, r
  <2>4. q * K \in Nat /\ r \in Nat
    BY <1>0, <2>2
  <2>5. b = r + 2 /\ n - b = q * K
    BY <2>2, <2>3, <2>4 DEF Least
  <2>6. (q * K) \div K = q
    BY <1>0, <2>2, <2>4, DivUnique
  <2> QED BY <1>0, <2>2, <2>4, <2>5, <2>6
<1> QED BY <1>0, <1>1, <1>2

(* The segments of a layer.                                                 *)
LEMMA LayerCut ==
  ASSUME TreeOK, NEW l \in Layers
  PROVE  /\ nof_hashes_2_execute(l) \in Nat \ {0}
         /\ nof_hashes_2_execute(l) <= nof_hashes(l)
         /\ last_batch(l) \in 1 .. K + 1 /\ max_segment(l) \in Nat
         /\ nof_hashes_2_execute(l) = max_segment(l) * K + last_batch(l)
         /\ max_segment(l) # 0 => last_batch(l) >= 2
         /\ \A s \in Segment(l) : is_last(l, s) <=> s = max_segment(l)
<1>1. nof_hashes_2_execute(l) \in Nat \ {0} /\ nof_hashes_2_execute(l) <= nof_hashes(l)
  <2>1. nof_hashes(l) \in Nat \ {0} /\ occupied(l) \in Nat \ {0}
    BY LayersPositive DEF TreeOK
  <2> QED BY <2>1 DEF nof_hashes_2_execute, Least
<1> DEFINE n == nof_hashes_2_execute(l)
           b == last_batch(l)
           m == max_segment(l)
<1>2. b = (IF n < K THEN n ELSE Least(n, ((n - 2) % K) + 2)) /\ m = (n - b) \div K
  BY DEF last_batch, max_segment
<1> HIDE DEF n, b, m
<1>3. /\ b \in 1 .. K + 1 /\ b <= n
      /\ m \in Nat /\ n = m * K + b
      /\ m # 0 => b >= 2
  BY <1>1, <1>2, Cut DEF n
<1>4. ASSUME NEW s \in 0 .. m PROVE s * K + b = n <=> s = m
  <2>0. K \in Nat \ {0} /\ s \in Nat /\ b \in Nat /\ m * K \in Nat /\ s * K \in Nat
    BY <1>3, MerkleAssumption
  <2>1. ASSUME s # m PROVE s * K + b # n
    <3>1. s + 1 <= m /\ s + 1 \in Nat
      BY <1>3, <2>0, <2>1
    <3>2. (s + 1) * K <= m * K
      BY <1>3, <2>0, <3>1, MulMonotone
    <3>3. (s + 1) * K = s * K + K
      BY <2>0
    <3> QED BY <1>3, <2>0, <3>2, <3>3
  <2> QED BY <1>3, <2>1
<1> QED BY <1>1, <1>3, <1>4 DEF n, b, m, is_last, Segment

(* The hashes of two layers: the lower one fits into the inputs of the      *)
(* upper one, and leaves less than two hashes of it without an input.       *)
LEMMA Carry ==
  ASSUME NEW a \in Nat \ {0}, NEW h \in Nat \ {0}, NEW o \in Nat \ {0},
         NEW low, low = Least(h * a, o + 1),
         NEW up, up = Least(h, CeilDiv(o, a) + 1)
  PROVE  low <= up * a /\ (up - 2) * a <= low - 2
<1> DEFINE c == CeilDiv(o, a)
<1>1. c \in Nat \ {0} /\ (c - 1) * a < o /\ o <= c * a
  BY CeilFacts
<1> HIDE DEF c
<1>2. /\ h * a \in Nat /\ c * a \in Nat /\ (c - 1) * a = c * a - a /\ (c + 1) * a = c * a + a
      /\ a \in Nat /\ h \in Nat /\ c \in Nat /\ c + 1 \in Nat
  BY <1>1
<1>3. up \in Nat /\ up <= h /\ up <= c + 1 /\ (up = h \/ up = c + 1)
  BY <1>2 DEF Least, c
<1>4. low \in Nat /\ low <= h * a /\ low <= o + 1 /\ (low = h * a \/ low = o + 1)
  BY <1>2 DEF Least
<1>5. up * a \in Nat /\ (up - 2) * a = up * a - 2 * a
  BY <1>3
<1>6. up * a <= h * a /\ up * a <= (c + 1) * a
  BY <1>2, <1>3, MulMonotone
<1>7. low <= up * a
  <2>1. CASE up = h
    BY <1>4, <2>1
  <2>2. CASE up = c + 1
    <3>1. up * a = c * a + a
      BY <1>2, <2>2
    <3> QED BY <1>1, <1>2, <1>4, <3>1
  <2> QED BY <1>3, <2>1, <2>2
<1>8. up * a - 2 * a <= low - 2
  <2>1. CASE low = h * a
    BY <1>2, <1>4, <1>5, <1>6, <2>1
  <2>2. CASE low = o + 1
    BY <1>1, <1>2, <1>4, <1>5, <1>6, <2>2
  <2> QED BY <1>4, <2>1, <2>2
<1> QED BY <1>5, <1>7, <1>8

(* The last segment of a layer gives its outputs to the last of the next.   *)
LEMMA TwoLayers ==
  ASSUME TreeOK, NEW l \in Layers \ {Root}
  PROVE  /\ l + 1 \in Layers /\ input_size(l + 1) \in Nat \ {0}
         /\ results_size(l) = nof_hashes_2_execute(l + 1) * input_size(l + 1)
         /\ results_size(l) \in Nat
         /\ nof_hashes_2_execute(l) <= results_size(l)
         /\ max_segment(l + 1) # 0 => max_segment(l + 1) * input_size(l + 1) <= max_segment(l)
<1>0. Shape /\ tree.leaves \in Nat \ {0}
  BY DEF TreeOK
<1>1. /\ l \in Nat /\ l \in Layers /\ l + 1 \in Layers /\ Root \in Nat
      /\ input_size(l + 1) \in Nat \ {0}
  BY <1>0, LayersTyped
<1> DEFINE a == input_size(l + 1)
           low == nof_hashes_2_execute(l)
           up == nof_hashes_2_execute(l + 1)
           ml == max_segment(l)
           mu == max_segment(l + 1)
<1>2. low <= up * a /\ (up - 2) * a <= low - 2
  <2>1. /\ nof_hashes(l + 1) \in Nat \ {0} /\ occupied(l) \in Nat \ {0}
        /\ nof_hashes(l) = nof_hashes(l + 1) * a
        /\ occupied(l + 1) = CeilDiv(occupied(l), a)
    BY <1>0, <1>1, LayersPositive, HashesRec, OccupiedRec
  <2>2. /\ low = Least(nof_hashes(l + 1) * a, occupied(l) + 1)
        /\ up = Least(nof_hashes(l + 1), CeilDiv(occupied(l), a) + 1)
    BY <2>1 DEF nof_hashes_2_execute
  <2> HIDE DEF low, up, a
  <2> QED BY <1>1, <2>1, <2>2, Carry DEF a
<1>3. /\ low \in Nat \ {0} /\ ml \in Nat /\ low = ml * K + last_batch(l)
      /\ last_batch(l) \in 1 .. K + 1
  BY <1>1, LayerCut
<1>4. /\ up \in Nat \ {0} /\ mu \in Nat /\ up = mu * K + last_batch(l + 1)
      /\ last_batch(l + 1) \in 1 .. K + 1 /\ (mu # 0 => last_batch(l + 1) >= 2)
  BY <1>1, LayerCut
<1>5. results_size(l) = up * a
  BY <1>1 DEF results_size
<1> HIDE DEF a, low, up, ml, mu
<1>6. a \in Nat \ {0} /\ K \in Nat \ {0} /\ up * a \in Nat
  BY <1>1, <1>4, MerkleAssumption DEF a
<1>7. ASSUME mu # 0 PROVE mu * a <= ml
  <2>1. mu * K \in Nat /\ mu * a \in Nat /\ ml * K \in Nat /\ (mu * K) * a \in Nat
    BY <1>3, <1>4, <1>6
  <2>2. mu * K <= up - 2 /\ up - 2 \in Nat
    BY <1>4, <1>7, <2>1
  <2>3. (mu * K) * a <= (up - 2) * a
    BY <1>6, <2>1, <2>2, MulMonotone
  <2>4. (mu * K) * a = (mu * a) * K
    BY <1>4, <1>6
  <2>5. low <= ml * K + K + 1
    BY <1>3, <1>6, <2>1
  <2>6. (up - 2) * a \in Nat
    BY <1>6, <2>2
  <2>7. (mu * a) * K < ml * K + K
    BY <1>2, <1>3, <1>6, <2>1, <2>3, <2>4, <2>5, <2>6
  <2>8. ASSUME ml + 1 <= mu * a PROVE FALSE
    <3>1. (ml + 1) * K <= (mu * a) * K
      BY <1>3, <1>6, <2>1, <2>8, MulMonotone
    <3>2. (ml + 1) * K = ml * K + K
      BY <1>3, <1>6
    <3>3. (mu * a) * K \in Nat
      BY <1>6, <2>1
    <3> QED BY <1>6, <2>1, <2>7, <3>1, <3>2, <3>3
  <2> QED BY <1>3, <2>1, <2>8
<1> QED BY <1>1, <1>2, <1>5, <1>6, <1>7 DEF a, low, up, ml, mu

-----------------------------------------------------------------------------
(* Where the segments lie.                                                  *)
(* A segment is within its layer, and ends where the next begins.           *)
LEMMA SegmentEnds ==
  ASSUME TreeOK, NEW l \in Layers, NEW s \in Segment(l)
  PROVE  /\ s \in Nat /\ s <= max_segment(l) /\ s * K \in Nat
         /\ Count(l, s) \in Nat \ {0} /\ Count(l, s) <= K + 1
         /\ s * K + Count(l, s) <= nof_hashes_2_execute(l)
         /\ s = max_segment(l) => /\ Count(l, s) = last_batch(l)
                                  /\ s * K + Count(l, s) = nof_hashes_2_execute(l)
         /\ s # max_segment(l) => Count(l, s) = K /\ s * K + Count(l, s) = (s + 1) * K
<1>1. /\ last_batch(l) \in 1 .. K + 1 /\ max_segment(l) \in Nat
      /\ nof_hashes_2_execute(l) = max_segment(l) * K + last_batch(l)
      /\ is_last(l, s) <=> s = max_segment(l)
  BY LayerCut
<1>2. K \in Nat \ {0, 1}
  BY MerkleAssumption
<1>3. s \in Nat /\ s <= max_segment(l)
  BY <1>1 DEF Segment
<1>4. s * K \in Nat /\ max_segment(l) * K \in Nat /\ (s + 1) * K = s * K + K
  BY <1>1, <1>2, <1>3
<1>5. CASE s = max_segment(l)
  BY <1>1, <1>2, <1>3, <1>4, <1>5 DEF Count
<1>6. CASE s # max_segment(l)
  <2>1. Count(l, s) = K
    BY <1>1, <1>6 DEF Count
  <2>2. s + 1 <= max_segment(l) /\ s + 1 \in Nat
    BY <1>1, <1>3, <1>6
  <2>3. (s + 1) * K <= max_segment(l) * K
    BY <1>1, <1>2, <2>2, MulMonotone
  <2> QED BY <1>1, <1>2, <1>3, <1>4, <1>6, <2>1, <2>3
<1> QED BY <1>5, <1>6

(* A segment comes to an end before a later one begins, by any measure.     *)
LEMMA SegmentsApart ==
  ASSUME TreeOK, NEW l \in Layers, NEW s \in Segment(l), NEW t \in Segment(l), s < t,
         NEW a \in Nat
  PROVE  /\ s * K * a \in Nat /\ t * K * a \in Nat /\ Count(l, s) * a \in Nat
         /\ s * K * a + Count(l, s) * a <= t * K * a
<1>1. /\ s \in Nat /\ t \in Nat /\ t <= max_segment(l) /\ s * K \in Nat /\ t * K \in Nat
      /\ s # max_segment(l) => Count(l, s) = K /\ s * K + Count(l, s) = (s + 1) * K
      /\ Count(l, s) \in Nat
  BY SegmentEnds
<1>2. max_segment(l) \in Nat /\ K \in Nat
  BY LayerCut, MerkleAssumption
<1>3. Count(l, s) = K /\ s * K + Count(l, s) = (s + 1) * K
  BY <1>1, <1>2
<1>4. (s + 1) * K <= t * K
  BY <1>1, <1>2, MulMonotone
<1>5. s * K + Count(l, s) \in Nat /\ s * K + Count(l, s) <= t * K
  BY <1>1, <1>3, <1>4
<1>6. (s * K + Count(l, s)) * a <= t * K * a
  BY <1>1, <1>5, MulMonotone
<1>7. (s * K + Count(l, s)) * a = s * K * a + Count(l, s) * a
  BY <1>1
<1> QED BY <1>1, <1>6, <1>7

(* No two segments have an input in common,                                 *)
LEMMA ReadsApart ==
  ASSUME TreeOK, NEW l \in Layers, NEW s \in Segment(l), NEW t \in Segment(l),
         NEW i \in Reads(l, s), i \in Reads(l, t)
  PROVE  s = t
<1>1. s \in Nat /\ t \in Nat /\ input_size(l) \in Nat
  BY SegmentEnds, LayersTyped DEF TreeOK
<1>2. ~(s < t)
  <2> SUFFICES ASSUME s < t PROVE FALSE
    OBVIOUS
  <2>1. /\ s * K * input_size(l) \in Nat /\ t * K * input_size(l) \in Nat
        /\ Count(l, s) * input_size(l) \in Nat
        /\ s * K * input_size(l) + Count(l, s) * input_size(l) <= t * K * input_size(l)
    BY <1>1, SegmentsApart
  <2> QED BY <2>1 DEF Reads
<1>3. ~(t < s)
  <2> SUFFICES ASSUME t < s PROVE FALSE
    OBVIOUS
  <2>1. /\ s * K * input_size(l) \in Nat /\ t * K * input_size(l) \in Nat
        /\ Count(l, t) * input_size(l) \in Nat
        /\ t * K * input_size(l) + Count(l, t) * input_size(l) <= s * K * input_size(l)
    BY <1>1, SegmentsApart
  <2> QED BY <2>1 DEF Reads
<1> QED BY <1>1, <1>2, <1>3

(* nor an output,                                                           *)
LEMMA OutputsApart ==
  ASSUME TreeOK, NEW l \in Layers, NEW s \in Segment(l), NEW t \in Segment(l),
         NEW i \in Outputs(l, s), i \in Outputs(l, t)
  PROVE  s = t
<1>1. s \in Nat /\ t \in Nat /\ s * K \in Nat /\ t * K \in Nat
      /\ Count(l, s) \in Nat /\ Count(l, t) \in Nat
  BY SegmentEnds
<1>2. ~(s < t)
  <2> SUFFICES ASSUME s < t PROVE FALSE
    OBVIOUS
  <2>1. s * K * 1 + Count(l, s) * 1 <= t * K * 1
    BY SegmentsApart
  <2> QED BY <1>1, <2>1 DEF Outputs
<1>3. ~(t < s)
  <2> SUFFICES ASSUME t < s PROVE FALSE
    OBVIOUS
  <2>1. t * K * 1 + Count(l, t) * 1 <= s * K * 1
    BY SegmentsApart
  <2> QED BY <1>1, <2>1 DEF Outputs
<1> QED BY <1>1, <1>2, <1>3

(* and only the last writes padding, behind all outputs.                    *)
LEMMA PadFacts ==
  ASSUME TreeOK, NEW l \in Layers \ {Root}, NEW s \in Segment(l)
  PROVE  /\ Pad(l, s) \in Nat
         /\ s # max_segment(l) => Pad(l, s) = 0
         /\ s = max_segment(l) => s * K + Count(l, s) + Pad(l, s) = results_size(l)
         /\ \A i \in PadPlaces(l, s) : s = max_segment(l) /\ i >= nof_hashes_2_execute(l)
<1>1. /\ s * K \in Nat /\ Count(l, s) \in Nat
      /\ s = max_segment(l) => /\ Count(l, s) = last_batch(l)
                               /\ s * K + Count(l, s) = nof_hashes_2_execute(l)
  BY SegmentEnds
<1>2. is_last(l, s) <=> s = max_segment(l)
  BY LayerCut
<1>3. results_size(l) \in Nat /\ nof_hashes_2_execute(l) <= results_size(l)
  BY TwoLayers
<1>4. nof_hashes_2_execute(l) \in Nat
  BY LayerCut
<1>5. CASE s = max_segment(l)
  BY <1>1, <1>2, <1>3, <1>4, <1>5 DEF Pad, PadPlaces
<1>6. CASE s # max_segment(l)
  BY <1>1, <1>2, <1>6 DEF Pad, PadPlaces
<1> QED BY <1>5, <1>6

(* The outputs of a segment are inputs of a segment,                        *)
LEMMA ParentTyped ==
  ASSUME TreeOK, NEW l \in Layers \ {Root}, NEW c \in Segment(l)
  PROVE  /\ Parent(l, c) \in Segment(l + 1)
         /\ Parent(l, c) * input_size(l + 1) <= c
         /\ Parent(l, c) # max_segment(l + 1) =>
              /\ c # max_segment(l)
              /\ c + 1 <= (Parent(l, c) + 1) * input_size(l + 1)
<1> DEFINE a == input_size(l + 1)
           q == c \div a
<1>1. /\ l + 1 \in Layers /\ a \in Nat \ {0}
      /\ max_segment(l + 1) # 0 => max_segment(l + 1) * a <= max_segment(l)
  BY TwoLayers
<1>2. c \in Nat /\ c <= max_segment(l) /\ max_segment(l) \in Nat /\ max_segment(l + 1) \in Nat
  BY <1>1, SegmentEnds, LayerCut
<1>3. q \in Nat /\ c % a \in 0 .. a - 1 /\ c = q * a + (c % a)
  BY <1>1, <1>2, DivFacts
<1>4. Parent(l, c) = Least(q, max_segment(l + 1))
  BY DEF Parent
<1> HIDE DEF a, q
<1>5. q * a \in Nat /\ (q + 1) * a = q * a + a
  BY <1>1, <1>3
<1>6. Parent(l, c) \in Nat /\ Parent(l, c) <= q /\ Parent(l, c) <= max_segment(l + 1)
  BY <1>2, <1>3, <1>4 DEF Least
<1>7. Parent(l, c) * a <= q * a
  BY <1>1, <1>3, <1>6, MulMonotone
<1>8. Parent(l, c) * a <= c
  <2>1. Parent(l, c) * a \in Nat
    BY <1>1, <1>6
  <2> QED BY <1>1, <1>2, <1>3, <1>5, <1>7, <2>1
<1>9. ASSUME Parent(l, c) # max_segment(l + 1)
      PROVE  c # max_segment(l) /\ c + 1 <= (Parent(l, c) + 1) * a
  <2>1. Parent(l, c) = q /\ q + 1 <= max_segment(l + 1) /\ max_segment(l + 1) # 0
    BY <1>2, <1>3, <1>4, <1>9 DEF Least
  <2>2. c + 1 <= (q + 1) * a
    BY <1>1, <1>2, <1>3, <1>5
  <2>3. (q + 1) * a <= max_segment(l + 1) * a /\ max_segment(l + 1) * a \in Nat
    BY <1>1, <1>2, <1>3, <2>1, MulMonotone
  <2> QED BY <1>1, <1>2, <1>5, <2>1, <2>2, <2>3
<1> QED BY <1>2, <1>6, <1>8, <1>9 DEF a, Segment

(* and so is the padding behind them.                                       *)
LEMMA WritesInside ==
  ASSUME TreeOK, NEW l \in Layers \ {Root}, NEW c \in Segment(l),
         NEW s, s = Parent(l, c), NEW a, a = input_size(l + 1)
  PROVE  /\ s * K * a \in Nat /\ Count(l + 1, s) * a \in Nat
         /\ s * K * a <= c * K
         /\ c * K + Count(l, c) + Pad(l, c) <= s * K * a + Count(l + 1, s) * a
<1>1. /\ l + 1 \in Layers /\ a \in Nat \ {0} /\ s \in Segment(l + 1) /\ K \in Nat
  BY TwoLayers, ParentTyped, MerkleAssumption
<1>2. /\ s * a <= c
      /\ s # max_segment(l + 1) => c # max_segment(l) /\ c + 1 <= (s + 1) * a
  BY ParentTyped
<1>3. /\ c \in Nat /\ c * K \in Nat /\ Count(l, c) \in Nat
      /\ c * K + Count(l, c) <= nof_hashes_2_execute(l)
      /\ c # max_segment(l) => c * K + Count(l, c) = (c + 1) * K
  BY SegmentEnds
<1>4. /\ s \in Nat /\ s * K \in Nat /\ Count(l + 1, s) \in Nat
      /\ s = max_segment(l + 1) => s * K + Count(l + 1, s) = nof_hashes_2_execute(l + 1)
      /\ s # max_segment(l + 1) => s * K + Count(l + 1, s) = (s + 1) * K
  BY <1>1, SegmentEnds
<1>5. /\ Pad(l, c) \in Nat /\ (c # max_segment(l) => Pad(l, c) = 0)
      /\ c = max_segment(l) => c * K + Count(l, c) + Pad(l, c) = results_size(l)
  BY PadFacts
<1>6. /\ results_size(l) \in Nat /\ nof_hashes_2_execute(l) <= results_size(l)
      /\ results_size(l) = nof_hashes_2_execute(l + 1) * a
      /\ nof_hashes_2_execute(l) \in Nat /\ nof_hashes_2_execute(l + 1) \in Nat
  BY <1>1, TwoLayers, LayerCut
<1>7. s * K * a \in Nat /\ Count(l + 1, s) * a \in Nat /\ s * a \in Nat
  BY <1>1, <1>4
<1>8. s * K * a <= c * K
  <2>1. (s * a) * K <= c * K
    BY <1>1, <1>2, <1>3, <1>7, MulMonotone
  <2>2. (s * a) * K = s * K * a
    BY <1>1, <1>4
  <2> QED BY <2>1, <2>2
<1>9. (s * K + Count(l + 1, s)) * a = s * K * a + Count(l + 1, s) * a
  BY <1>1, <1>4
<1>10. CASE s = max_segment(l + 1)
  <2>1. s * K * a + Count(l + 1, s) * a = results_size(l)
    BY <1>4, <1>6, <1>9, <1>10
  <2>2. c * K + Count(l, c) + Pad(l, c) <= results_size(l)
    BY <1>3, <1>5, <1>6
  <2> QED BY <1>7, <1>8, <2>1, <2>2
<1>11. CASE s # max_segment(l + 1)
  <2>1. c * K + Count(l, c) + Pad(l, c) = (c + 1) * K
    BY <1>2, <1>3, <1>5, <1>11
  <2>2. (s + 1) * a \in Nat /\ c + 1 \in Nat
    BY <1>1, <1>3, <1>4
  <2>3. (c + 1) * K <= ((s + 1) * a) * K
    BY <1>1, <1>2, <1>11, <2>2, MulMonotone
  <2>4. ((s + 1) * a) * K = ((s + 1) * K) * a
    BY <1>1, <1>4
  <2>5. ((s + 1) * K) * a = s * K * a + Count(l + 1, s) * a
    BY <1>4, <1>9, <1>11
  <2> QED BY <1>7, <1>8, <2>1, <2>3, <2>4, <2>5
<1> QED BY <1>10, <1>11

LEMMA WritesAreReads ==
  ASSUME TreeOK, NEW l \in Layers \ {Root}, NEW c \in Segment(l)
  PROVE  /\ Outputs(l, c) \subseteq Reads(l + 1, Parent(l, c))
         /\ PadPlaces(l, c) \subseteq Reads(l + 1, Parent(l, c))
<1> DEFINE s == Parent(l, c)
           a == input_size(l + 1)
<1>1. /\ s * K * a \in Nat /\ Count(l + 1, s) * a \in Nat
      /\ s * K * a <= c * K
      /\ c * K + Count(l, c) + Pad(l, c) <= s * K * a + Count(l + 1, s) * a
  BY WritesInside
<1>2. c * K \in Nat /\ Count(l, c) \in Nat /\ Pad(l, c) \in Nat
  BY SegmentEnds, PadFacts
<1> HIDE DEF s, a
<1>3. Reads(l + 1, s) = s * K * a .. s * K * a + Count(l + 1, s) * a - 1
  BY DEF Reads, a
<1>4. Outputs(l, c) \subseteq Reads(l + 1, s)
  BY <1>1, <1>2, <1>3 DEF Outputs
<1>5. PadPlaces(l, c) \subseteq Reads(l + 1, s)
  BY <1>1, <1>2, <1>3 DEF PadPlaces
<1> QED BY <1>4, <1>5 DEF s

(* Every segment above layer 0 has inputs from below.                       *)
LEMMA HasChild ==
  ASSUME TreeOK, NEW l \in Layers \ {Root}, NEW s \in Segment(l + 1)
  PROVE  \E c \in Segment(l) : Parent(l, c) = s
<1> DEFINE a == input_size(l + 1)
           m == max_segment(l + 1)
<1>1. /\ l + 1 \in Layers /\ a \in Nat \ {0} /\ l \in Layers
      /\ m # 0 => m * a <= max_segment(l)
  BY TwoLayers
<1>2. m \in Nat /\ max_segment(l) \in Nat
  BY <1>1, LayerCut
<1> HIDE DEF a, m
<1>3. s \in Nat /\ s <= m
  BY <1>2 DEF Segment, m
<1>4. s * a \in Nat /\ s * a <= m * a /\ m * a \in Nat
  BY <1>1, <1>2, <1>3, MulMonotone
<1>5. s * a <= max_segment(l)
  <2>1. m = 0 => m * a = 0
    BY <1>1
  <2> QED BY <1>1, <1>2, <1>4, <2>1
<1>6. (s * a) \div a = s
  BY <1>1, <1>3, <1>4, DivUnique
<1>7. Parent(l, s * a) = s
  BY <1>2, <1>3, <1>6 DEF Parent, Least, a, m
<1>8. s * a \in Segment(l)
  BY <1>2, <1>4, <1>5 DEF Segment
<1> QED BY <1>7, <1>8

-----------------------------------------------------------------------------
(* Counting what is ready.                                                  *)
(* Two sets without a common element.                                       *)
LEMMA DisjointUnion ==
  ASSUME NEW S, NEW T, IsFiniteSet(S), IsFiniteSet(T), \A x \in T : x \notin S
  PROVE  Cardinality(S \cup T) = Cardinality(S) + Cardinality(T)
<1>1. S \cap T = {}
  OBVIOUS
<1>2. Cardinality(S) \in Nat /\ Cardinality(T) \in Nat
  BY FS_CardinalityType
<1>3. Cardinality(S \cup T) = Cardinality(S) + Cardinality(T) - Cardinality(S \cap T)
  BY FS_Union
<1>4. Cardinality({}) = 0
  BY FS_EmptySet
<1>5. Cardinality(S \cap T) = 0
  BY <1>1, <1>4, Zenon
<1> QED BY ONLY <1>2, <1>3, <1>5

LEMMA ReadsSize ==
  ASSUME TreeOK, NEW l \in Layers, NEW s \in Segment(l)
  PROVE  /\ IsFiniteSet(Reads(l, s))
         /\ Cardinality(Reads(l, s)) = Count(l, s) * input_size(l)
<1>1. s * K \in Nat /\ Count(l, s) \in Nat \ {0} /\ input_size(l) \in Nat \ {0}
  BY SegmentEnds, LayersTyped DEF TreeOK
<1> DEFINE first == s * K * input_size(l)
           size == Count(l, s) * input_size(l)
<1>2. first \in Nat /\ size \in Nat
  BY <1>1
<1>3. Reads(l, s) = first .. first + size - 1
  BY DEF Reads
<1> HIDE DEF first, size
<1>4. IsFiniteSet(first .. first + size - 1) /\ Cardinality(first .. first + size - 1) = size
  BY <1>2, FS_Interval
<1> QED BY <1>3, <1>4 DEF size

LEMMA WritesSize ==
  ASSUME TreeOK, NEW l \in Layers \ {Root}, NEW c \in Segment(l)
  PROVE  /\ IsFiniteSet(Outputs(l, c)) /\ Cardinality(Outputs(l, c)) = Count(l, c)
         /\ IsFiniteSet(PadPlaces(l, c)) /\ Cardinality(PadPlaces(l, c)) = Pad(l, c)
<1>1. c * K \in Nat /\ Count(l, c) \in Nat /\ Pad(l, c) \in Nat
  BY SegmentEnds, PadFacts
<1>2. \A x, y \in Nat : IsFiniteSet(x .. x + y - 1) /\ Cardinality(x .. x + y - 1) = y
  BY FS_Interval
<1>3. IsFiniteSet(Outputs(l, c)) /\ Cardinality(Outputs(l, c)) = Count(l, c)
  BY <1>1, <1>2 DEF Outputs
<1>4. c * K + Count(l, c) \in Nat
  BY <1>1
<1>5. IsFiniteSet(PadPlaces(l, c)) /\ Cardinality(PadPlaces(l, c)) = Pad(l, c)
  BY <1>1, <1>2, <1>4 DEF PadPlaces
<1> QED BY <1>3, <1>5

LEMMA CountedFinite ==
  ASSUME TreeOK, NEW l \in Layers \ {Root}, NEW s \in Segment(l + 1), NEW done, NEW sent
  PROVE  /\ Counted(done, sent, l, s) \subseteq Reads(l + 1, s)
         /\ IsFiniteSet(Counted(done, sent, l, s))
         /\ Cardinality(Counted(done, sent, l, s)) \in Nat
<1>1. Counted(done, sent, l, s) \subseteq Reads(l + 1, s)
  BY DEF Counted
<1>2. IsFiniteSet(Reads(l + 1, s))
  BY TwoLayers, ReadsSize
<1> QED BY <1>1, <1>2, FS_Subset, FS_CardinalityType

(* No output is padding.                                                    *)
LEMMA OutputsNotPadding ==
  ASSUME TreeOK, NEW l \in Layers \ {Root}, NEW c \in Segment(l), NEW d \in Segment(l),
         NEW i \in Outputs(l, c)
  PROVE  i \notin PadPlaces(l, d)
<1>1. /\ c * K \in Nat /\ Count(l, c) \in Nat
      /\ c * K + Count(l, c) <= nof_hashes_2_execute(l)
  BY SegmentEnds
<1>2. nof_hashes_2_execute(l) \in Nat
  BY LayerCut
<1>3. i \in Nat /\ i < nof_hashes_2_execute(l)
  BY <1>1, <1>2 DEF Outputs
<1>4. i \in PadPlaces(l, d) => i >= nof_hashes_2_execute(l)
  BY PadFacts
<1> QED BY <1>2, <1>3, <1>4

(* As long as a task is missing the segment is not ready.                   *)
LEMMA OneMissing ==
  ASSUME TreeOK, NEW l \in Layers \ {Root}, NEW s \in Segment(l + 1), NEW done, NEW sent,
         NEW c \in Children(l, s), <<l, c>> \notin done
  PROVE  Cardinality(Counted(done, sent, l, s)) < Count(l + 1, s) * input_size(l + 1)
<1>1. c \in Segment(l) /\ Parent(l, c) = s
  BY DEF Children
<1>2. c * K \in Nat /\ Count(l, c) \in Nat \ {0}
  BY <1>1, SegmentEnds
<1>3. c * K \in Outputs(l, c) /\ c * K \in Reads(l + 1, s)
  <2>1. c * K \in Outputs(l, c)
    BY <1>2 DEF Outputs
  <2> QED BY <2>1, <1>1, WritesAreReads
<1>4. c * K \notin Counted(done, sent, l, s)
  <2> SUFFICES ASSUME NEW d \in Children(l, s),
                      \/ <<l, d>> \in done /\ c * K \in Outputs(l, d)
                      \/ c * K \in PadPlaces(l, d)
               PROVE  FALSE
    BY DEF Counted
  <2>1. d \in Segment(l)
    BY DEF Children
  <2>2. c * K \notin PadPlaces(l, d)
    BY <1>1, <1>3, <2>1, OutputsNotPadding
  <2>3. d = c
    BY <1>1, <1>3, <2>1, <2>2, OutputsApart
  <2> QED BY <2>2, <2>3
<1>5. /\ Counted(done, sent, l, s) \subseteq Reads(l + 1, s)
      /\ Cardinality(Counted(done, sent, l, s)) \in Nat
  BY CountedFinite
<1>6. /\ IsFiniteSet(Reads(l + 1, s))
      /\ Cardinality(Reads(l + 1, s)) = Count(l + 1, s) * input_size(l + 1)
  BY TwoLayers, ReadsSize
<1>7. /\ Cardinality(Counted(done, sent, l, s)) <= Cardinality(Reads(l + 1, s))
      /\ Cardinality(Reads(l + 1, s)) # Cardinality(Counted(done, sent, l, s))
  BY <1>3, <1>4, <1>5, <1>6, FS_Subset
<1>8. Cardinality(Reads(l + 1, s)) \in Nat
  BY <1>6, FS_CardinalityType
<1> QED BY <1>5, <1>6, <1>7, <1>8

(* A completed task counts its outputs, once,                               *)
LEMMA CountOutputs ==
  ASSUME TreeOK, NEW l \in Layers \ {Root}, NEW c \in Segment(l), NEW done, NEW sent,
         <<l, c>> \notin done
  PROVE  Cardinality(Counted(done \cup {<<l, c>>}, sent, l, Parent(l, c)))
           = Cardinality(Counted(done, sent, l, Parent(l, c))) + Count(l, c)
<1> DEFINE s == Parent(l, c)
<1>1. s \in Segment(l + 1) /\ c \in Children(l, s)
  BY ParentTyped DEF Children
<1>2. Outputs(l, c) \subseteq Reads(l + 1, s)
  BY WritesAreReads
<1> HIDE DEF s
<1>3. Counted(done \cup {<<l, c>>}, sent, l, s) = Counted(done, sent, l, s) \cup Outputs(l, c)
  BY <1>1, <1>2 DEF Counted
<1>4. ASSUME NEW i \in Outputs(l, c) PROVE i \notin Counted(done, sent, l, s)
  <2> SUFFICES ASSUME NEW d \in Children(l, s),
                      \/ <<l, d>> \in done /\ i \in Outputs(l, d)
                      \/ i \in PadPlaces(l, d)
               PROVE  FALSE
    BY DEF Counted
  <2>1. d \in Segment(l)
    BY DEF Children
  <2>2. i \notin PadPlaces(l, d)
    BY <2>1, OutputsNotPadding
  <2>3. d = c
    BY <2>1, <2>2, OutputsApart
  <2> QED BY <2>2, <2>3
<1>5. /\ IsFiniteSet(Outputs(l, c)) /\ Cardinality(Outputs(l, c)) = Count(l, c)
      /\ IsFiniteSet(Counted(done, sent, l, s))
  BY <1>1, WritesSize, CountedFinite
<1>6. Cardinality(Counted(done, sent, l, s) \cup Outputs(l, c))
        = Cardinality(Counted(done, sent, l, s)) + Cardinality(Outputs(l, c))
  BY <1>4, <1>5, DisjointUnion
<1> QED BY <1>3, <1>5, <1>6 DEF s

(* and one that is sent its padding.                                        *)
LEMMA CountPadding ==
  ASSUME TreeOK, NEW l \in Layers \ {Root}, NEW c \in Segment(l), NEW done, NEW sent,
         <<l, c>> \notin sent
  PROVE  Cardinality(Counted(done, sent \cup {<<l, c>>}, l, Parent(l, c)))
           = Cardinality(Counted(done, sent, l, Parent(l, c))) + Pad(l, c)
<1> DEFINE s == Parent(l, c)
<1>1. s \in Segment(l + 1) /\ c \in Children(l, s)
  BY ParentTyped DEF Children
<1>2. PadPlaces(l, c) \subseteq Reads(l + 1, s)
  BY WritesAreReads
<1> HIDE DEF s
<1>3. Counted(done, sent \cup {<<l, c>>}, l, s) = Counted(done, sent, l, s) \cup PadPlaces(l, c)
  BY <1>1, <1>2 DEF Counted
<1>4. ASSUME NEW i \in PadPlaces(l, c) PROVE i \notin Counted(done, sent, l, s)
  <2> SUFFICES ASSUME NEW d \in Children(l, s),
                      \/ i \in Outputs(l, d)
                      \/ <<l, d>> \in sent /\ i \in PadPlaces(l, d)
               PROVE  FALSE
    BY DEF Counted
  <2>1. d \in Segment(l)
    BY DEF Children
  <2>2. i \notin Outputs(l, d)
    BY <2>1, OutputsNotPadding
  <2>3. c = max_segment(l) /\ (i \in PadPlaces(l, d) => d = max_segment(l))
    BY <2>1, PadFacts
  <2> QED BY <2>2, <2>3
<1>5. /\ IsFiniteSet(PadPlaces(l, c)) /\ Cardinality(PadPlaces(l, c)) = Pad(l, c)
      /\ IsFiniteSet(Counted(done, sent, l, s))
  BY <1>1, WritesSize, CountedFinite
<1>6. Cardinality(Counted(done, sent, l, s) \cup PadPlaces(l, c))
        = Cardinality(Counted(done, sent, l, s)) + Cardinality(PadPlaces(l, c))
  BY <1>4, <1>5, DisjointUnion
<1> QED BY <1>3, <1>5, <1>6 DEF s

(* What a segment counts depends on the segments below it only.             *)
LEMMA CountsAlike ==
  ASSUME NEW l, NEW s, NEW done, NEW sent, NEW done2, NEW sent2,
         \A d \in Children(l, s) : /\ <<l, d>> \in done2 <=> <<l, d>> \in done
                                   /\ <<l, d>> \in sent2 <=> <<l, d>> \in sent
  PROVE  Counted(done2, sent2, l, s) = Counted(done, sent, l, s)
BY DEF Counted

-----------------------------------------------------------------------------
(* The map of segments.                                                     *)
(* Sending a task keeps the accounts: its segment is in the map, and its    *)
(* padding is counted.                                                      *)
LEMMA SendCounts ==
  ASSUME TreeOK, NEW l \in Layers \ {Root}, NEW c \in Segment(l), NEW done, NEW sent, NEW S,
         done \subseteq sent, <<l, c>> \notin sent,
         Accounts(done, sent, S), Ordered(done, sent)
  PROVE  Accounts(done, sent \cup {<<l, c>>},
                  segment_db(S, <<l + 1, Parent(l, c)>>, l, c, Pad(l, c)))
<1> DEFINE p == Parent(l, c)
           id == <<l + 1, p>>
           size == Count(l + 1, p) * input_size(l + 1)
           T == segment_db(S, id, l, c, Pad(l, c))
           sent2 == sent \cup {<<l, c>>}
<1>1. p \in Segment(l + 1) /\ c \in Children(l, p) /\ l + 1 \in Layers
  BY ParentTyped, TwoLayers DEF Children
<1>2. PICK new : /\ DOMAIN new = {"ready", "size", "m_input_data"}
                 /\ new.size = size /\ new.ready = 0
                 /\ T = [x \in DOMAIN S \cup {id} |->
                           IF x = id THEN [(IF id \in DOMAIN S THEN S[id] ELSE new)
                                             EXCEPT !.ready = @ + Pad(l, c)]
                           ELSE S[x]]
  <2> DEFINE data == IF l < tree.store THEN Uninitialised(size) ELSE <<>>
             new == [ready |-> 0, size |-> size, m_input_data |-> data]
  <2>1. T = [x \in DOMAIN S \cup {id} |->
               IF x = id THEN [(IF id \in DOMAIN S THEN S[id] ELSE new)
                                 EXCEPT !.ready = @ + Pad(l, c)]
               ELSE S[x]]
    BY DEF segment_db, Count
  <2> HIDE DEF T, size, data
  <2>2. DOMAIN new = {"ready", "size", "m_input_data"} /\ new.size = size /\ new.ready = 0
    OBVIOUS
  <2> HIDE DEF new
  <2> QED BY <2>1, <2>2
<1> HIDE DEF T
<1>3. DOMAIN T = DOMAIN S \cup {id} /\ \A x \in DOMAIN S : x # id => T[x] = S[x]
  BY <1>2
<1> DEFINE db == IF id \in DOMAIN S THEN S[id] ELSE new
<1>4. T[id] = [db EXCEPT !.ready = @ + Pad(l, c)]
  BY <1>2
<1>5. \A x \in DOMAIN S : DOMAIN S[x] = {"ready", "size", "m_input_data"}
  BY DEF Accounts
<1>6. /\ DOMAIN db = {"ready", "size", "m_input_data"}
      /\ db.size = size
      /\ db.ready = Cardinality(Counted(done, sent, l, p))
  <2>1. CASE id \in DOMAIN S
    BY <1>1, <1>5, <2>1 DEF Accounts
  <2>2. CASE id \notin DOMAIN S
    <3>1. id \notin done
      BY <1>1 DEF Ordered
    <3>2. \A d \in Children(l, p) : <<l, d>> \notin sent
      BY <1>1, <2>2, <3>1 DEF Accounts
    <3>3. Counted(done, sent, l, p) = {}
      BY <3>2 DEF Counted
    <3> QED BY <1>2, <2>2, <3>3, FS_EmptySet
  <2> QED BY <2>1, <2>2
<1> HIDE DEF db
<1>7. /\ DOMAIN T[id] = {"ready", "size", "m_input_data"}
      /\ T[id].size = size
      /\ T[id].ready = Cardinality(Counted(done, sent2, l, p))
  <2>1. T[id].ready = db.ready + Pad(l, c)
    BY <1>4, <1>6
  <2>2. Cardinality(Counted(done, sent2, l, p)) = Cardinality(Counted(done, sent, l, p)) + Pad(l, c)
    BY CountPadding
  <2>3. DOMAIN T[id] = {"ready", "size", "m_input_data"} /\ T[id].size = size
    BY <1>4, <1>6
  <2> QED BY <1>6, <2>1, <2>2, <2>3
<1> HIDE DEF sent2
<1>8. \A x \in DOMAIN T : DOMAIN T[x] = {"ready", "size", "m_input_data"}
  BY <1>3, <1>5, <1>7
<1>9. ASSUME NEW k \in Layers \ {Root}, NEW s \in Segment(k + 1)
      PROVE  /\ (\E d \in Children(k, s) : <<k, d>> \in sent2) /\ <<k + 1, s>> \notin done
                  => <<k + 1, s>> \in DOMAIN T
             /\ <<k + 1, s>> \in DOMAIN T =>
                  /\ T[<<k + 1, s>>].size = Count(k + 1, s) * input_size(k + 1)
                  /\ T[<<k + 1, s>>].ready = Cardinality(Counted(done, sent2, k, s))
  <2>1. CASE k = l /\ s = p
    BY <1>3, <1>7, <2>1
  <2>2. CASE k # l \/ s # p
    <3>1. k # l \/ c \notin Children(k, s)
      BY <2>2 DEF Children
    <3>3. \A d \in Children(k, s) : <<k, d>> \in sent2 <=> <<k, d>> \in sent
      BY <3>1 DEF sent2
    <3>2. Counted(done, sent2, k, s) = Counted(done, sent, k, s)
      BY ONLY <3>3, CountsAlike
    <3>4. <<k + 1, s>> # id
      <4>1. k \in Nat /\ l \in Nat
        BY LayersTyped DEF TreeOK
      <4> QED BY <2>2, <4>1
    <3>5. /\ (\E d \in Children(k, s) : <<k, d>> \in sent) /\ <<k + 1, s>> \notin done
               => <<k + 1, s>> \in DOMAIN S
          /\ <<k + 1, s>> \in DOMAIN S =>
               /\ S[<<k + 1, s>>].size = Count(k + 1, s) * input_size(k + 1)
               /\ S[<<k + 1, s>>].ready = Cardinality(Counted(done, sent, k, s))
      BY DEF Accounts
    <3> HIDE DEF id
    <3> QED BY <1>3, <3>2, <3>3, <3>4, <3>5
  <2> QED BY <2>1, <2>2
<1>10. Accounts(done, sent2, T)
  BY <1>8, <1>9 DEF Accounts
<1> QED BY <1>10 DEF T, sent2

(* Using a completed task keeps them: its own inputs are forgotten, and its *)
(* outputs are counted.                                                     *)
Retired(S, l, c) ==
  [x \in DOMAIN S \ {<<l, c>>} |->
    IF x = <<l + 1, Parent(l, c)>> THEN [S[x] EXCEPT !.ready = @ + Count(l, c)] ELSE S[x]]
LEMMA UseCounts ==
  ASSUME TreeOK, NEW l \in Layers \ {Root}, NEW c \in Segment(l), NEW done, NEW sent, NEW S,
         done \subseteq sent, <<l, c>> \in sent, <<l, c>> \notin done,
         Accounts(done, sent, S), Ordered(done, sent),
         NEW T, T = Retired(S, l, c)
  PROVE  /\ Accounts(done \cup {<<l, c>>}, sent, T)
         /\ <<l + 1, Parent(l, c)>> \in DOMAIN T
         /\ <<l + 1, Parent(l, c)>> \notin sent
<1> DEFINE p == Parent(l, c)
           id == <<l + 1, p>>
           done2 == done \cup {<<l, c>>}
<1>1. p \in Segment(l + 1) /\ c \in Children(l, p) /\ l + 1 \in Layers
  BY ParentTyped, TwoLayers DEF Children
<1>2. l \in Nat
  BY LayersTyped DEF TreeOK
<1>3. id # <<l, c>>
  BY <1>2
<1>4. id \notin sent
  BY <1>1 DEF Ordered
<1>5. id \in DOMAIN S
  BY <1>1, <1>4 DEF Accounts
<1>6. \A x \in DOMAIN S : DOMAIN S[x] = {"ready", "size", "m_input_data"}
  BY DEF Accounts
<1>7. /\ S[id].size = Count(l + 1, p) * input_size(l + 1)
      /\ S[id].ready = Cardinality(Counted(done, sent, l, p))
  BY <1>1, <1>5 DEF Accounts
<1>8. /\ DOMAIN T = DOMAIN S \ {<<l, c>>}
      /\ T[id] = [S[id] EXCEPT !.ready = @ + Count(l, c)]
      /\ \A x \in DOMAIN T : x # id => T[x] = S[x]
  BY <1>3, <1>5 DEF Retired
<1>9. /\ DOMAIN T[id] = {"ready", "size", "m_input_data"}
      /\ T[id].size = Count(l + 1, p) * input_size(l + 1)
      /\ T[id].ready = Cardinality(Counted(done2, sent, l, p))
  <2>1. Cardinality(Counted(done2, sent, l, p))
          = Cardinality(Counted(done, sent, l, p)) + Count(l, c)
    BY CountOutputs
  <2>2. DOMAIN S[id] = {"ready", "size", "m_input_data"}
    BY <1>5, <1>6
  <2> HIDE DEF id, p, done2
  <2>3. /\ DOMAIN T[id] = DOMAIN S[id] /\ T[id].size = S[id].size
        /\ T[id].ready = S[id].ready + Count(l, c)
    BY ONLY <1>8, <2>2
  <2> QED BY <1>7, <2>1, <2>2, <2>3
<1> HIDE DEF done2
<1>10. ASSUME NEW k \in Layers \ {Root}, NEW s \in Segment(k + 1)
       PROVE  /\ (\E d \in Children(k, s) : <<k, d>> \in sent) /\ <<k + 1, s>> \notin done2
                   => <<k + 1, s>> \in DOMAIN T
              /\ <<k + 1, s>> \in DOMAIN T =>
                   /\ T[<<k + 1, s>>].size = Count(k + 1, s) * input_size(k + 1)
                   /\ T[<<k + 1, s>>].ready = Cardinality(Counted(done2, sent, k, s))
  <2>1. CASE k = l /\ s = p
    BY <1>3, <1>5, <1>8, <1>9, <2>1
  <2>2. CASE k # l \/ s # p
    <3>1. k # l \/ c \notin Children(k, s)
      BY <2>2 DEF Children
    <3>2. \A d \in Children(k, s) : <<k, d>> \in done2 <=> <<k, d>> \in done
      BY <3>1 DEF done2
    <3>3. Counted(done2, sent, k, s) = Counted(done, sent, k, s)
      BY ONLY <3>2, CountsAlike
    <3>4. <<k + 1, s>> # id
      <4>1. k \in Nat /\ l \in Nat
        BY LayersTyped DEF TreeOK
      <4> QED BY <2>2, <4>1
    <3>5. /\ (\E d \in Children(k, s) : <<k, d>> \in sent) /\ <<k + 1, s>> \notin done
               => <<k + 1, s>> \in DOMAIN S
          /\ <<k + 1, s>> \in DOMAIN S =>
               /\ S[<<k + 1, s>>].size = Count(k + 1, s) * input_size(k + 1)
               /\ S[<<k + 1, s>>].ready = Cardinality(Counted(done, sent, k, s))
      BY DEF Accounts
    <3>6. <<k + 1, s>> \notin done2 => <<k + 1, s>> \notin done /\ <<k + 1, s>> # <<l, c>>
      BY DEF done2
    <3> HIDE DEF id
    <3> QED BY <1>8, <3>3, <3>4, <3>5, <3>6
  <2> QED BY <2>1, <2>2
<1>11. \A x \in DOMAIN T : DOMAIN T[x] = {"ready", "size", "m_input_data"}
  BY <1>6, <1>8, <1>9
<1>12. Accounts(done2, sent, T)
  BY <1>10, <1>11 DEF Accounts
<1> QED BY <1>3, <1>4, <1>5, <1>8, <1>12 DEF done2

-----------------------------------------------------------------------------
(* As long as the tree is the same, so are its sizes.                       *)
HashesOf(arity, l) ==
  LET n[k \in 0 .. Len(arity) - 1] ==
        IF k = Len(arity) - 1 THEN 1 ELSE n[k + 1] * arity[k + 1 + 1]
  IN  n[l]
OccupiedOf(tr, l) ==
  LET n[k \in 0 .. Len(tr.arity) - 1] ==
        CeilDiv(IF k = 0 THEN tr.leaves ELSE n[k - 1], tr.arity[k + 1])
  IN  n[l]
LEMMA ArityFrame ==
  ASSUME tree'.arity = tree.arity
  PROVE  /\ Root' = Root /\ Layers' = Layers
         /\ \A l : input_size(l)' = input_size(l) /\ nof_hashes(l)' = nof_hashes(l)
         /\ Capacity' = Capacity
<1>1. Root' = Root /\ Layers' = Layers /\ \A l : input_size(l)' = input_size(l)
  BY DEF Root, Layers, nof_layers, input_size
<1>2. \A l : nof_hashes(l)' = nof_hashes(l)
  <2>1. \A l : nof_hashes(l) = HashesOf(tree.arity, l)
    BY DEF nof_hashes, HashesOf, Root, Layers, nof_layers, input_size
  <2>2. \A l : nof_hashes(l)' = HashesOf(tree'.arity, l)
    BY DEF nof_hashes, HashesOf, Root, Layers, nof_layers, input_size
  <2> QED BY <2>1, <2>2
<1>3. Capacity' = Capacity
  BY <1>1, <1>2 DEF Capacity
<1> QED BY <1>1, <1>2, <1>3

LEMMA Frame ==
  ASSUME tree' = tree
  PROVE  /\ Root' = Root /\ Layers' = Layers
         /\ \A l : /\ input_size(l)' = input_size(l)
                   /\ nof_hashes(l)' = nof_hashes(l) /\ occupied(l)' = occupied(l)
                   /\ nof_hashes_2_execute(l)' = nof_hashes_2_execute(l)
                   /\ last_batch(l)' = last_batch(l) /\ max_segment(l)' = max_segment(l)
                   /\ results_size(l)' = results_size(l)
                   /\ Segment(l)' = Segment(l)
         /\ \A l, s : /\ is_last(l, s)' = is_last(l, s) /\ Count(l, s)' = Count(l, s)
                      /\ Parent(l, s)' = Parent(l, s) /\ Pad(l, s)' = Pad(l, s)
                      /\ Reads(l, s)' = Reads(l, s) /\ Children(l, s)' = Children(l, s)
                      /\ Outputs(l, s)' = Outputs(l, s) /\ PadPlaces(l, s)' = PadPlaces(l, s)
         /\ Capacity' = Capacity
<1>1. /\ Root' = Root /\ Layers' = Layers /\ Capacity' = Capacity
      /\ \A l : input_size(l)' = input_size(l)
  BY ArityFrame
<1>2. \A l : nof_hashes(l)' = nof_hashes(l)
  BY ArityFrame
<1>3. \A l : occupied(l)' = occupied(l)
  <2>1. \A l : occupied(l) = OccupiedOf(tree, l)
    BY DEF occupied, OccupiedOf, Layers, nof_layers, input_size
  <2>2. \A l : occupied(l)' = OccupiedOf(tree', l)
    BY DEF occupied, OccupiedOf, Layers, nof_layers, input_size
  <2> QED BY <2>1, <2>2
<1>4. \A l : nof_hashes_2_execute(l)' = nof_hashes_2_execute(l)
  BY <1>2, <1>3 DEF nof_hashes_2_execute
<1>5. \A l : last_batch(l)' = last_batch(l)
  BY <1>4 DEF last_batch
<1>6. \A l : max_segment(l)' = max_segment(l)
  BY <1>4, <1>5 DEF max_segment
<1>7. \A l : results_size(l)' = results_size(l)
  BY <1>1, <1>4 DEF results_size
<1>8. \A l : Segment(l)' = Segment(l)
  BY <1>6 DEF Segment
<1>9. \A l, s : is_last(l, s)' = is_last(l, s)
  BY <1>4, <1>5 DEF is_last
<1>10. \A l, s : Count(l, s)' = Count(l, s)
  BY <1>5, <1>9 DEF Count
<1>11. \A l, s : Parent(l, s)' = Parent(l, s)
  BY <1>1, <1>6 DEF Parent
<1>12. \A l, s : Pad(l, s)' = Pad(l, s)
  BY <1>5, <1>7, <1>9 DEF Pad
<1>13. \A l, s : Reads(l, s)' = Reads(l, s)
  BY <1>1, <1>10 DEF Reads
<1>14. \A l, s : Children(l, s)' = Children(l, s)
  BY <1>8, <1>11 DEF Children
<1>15. \A l, s : Outputs(l, s)' = Outputs(l, s) /\ PadPlaces(l, s)' = PadPlaces(l, s)
  BY <1>10, <1>12 DEF Outputs, PadPlaces
<1> QED BY <1>1, <1>2, <1>3, <1>4, <1>5, <1>6, <1>7, <1>8, <1>9, <1>10, <1>11, <1>12, <1>13,
           <1>14, <1>15

LEMMA FrameParts ==
  ASSUME tree' = tree
  PROVE  /\ Shape' <=> Shape
         /\ TreeOK' <=> TreeOK
         /\ \A t : JobOK(t)' <=> JobOK(t)
         /\ \A done, sent, S : Accounts(done, sent, S)' <=> Accounts(done, sent, S)
         /\ \A done, sent : Ordered(done, sent)' <=> Ordered(done, sent)
         /\ \A sent, idx : Leaves(sent, idx)' <=> Leaves(sent, idx)
<1>1. Shape' <=> Shape
  BY DEF Shape
<1>2. TreeOK' <=> TreeOK
  BY <1>1, Frame DEF TreeOK
<1>3. \A t : ReadsFrom(t)' <=> ReadsFrom(t)
  <2> TAKE t
  <2>1. /\ input_size(t.layer)' = input_size(t.layer)
        /\ input_size(0)' = input_size(0) /\ last_batch(0)' = last_batch(0)
    BY Frame
  <2> QED BY ONLY <2>1, tree' = tree, Zenon DEF ReadsFrom
<1>4. \A t : WritesTo(t)' <=> WritesTo(t)
  BY Frame DEF WritesTo
<1>5. \A t : JobOK(t)' <=> JobOK(t)
  BY <1>3, <1>4, Frame DEF JobOK
<1>6. \A done, sent, l, s : Counted(done, sent, l, s)' = Counted(done, sent, l, s)
  BY Frame DEF Counted
<1>7. \A done, sent, S : Accounts(done, sent, S)' <=> Accounts(done, sent, S)
  <2>1. /\ Root' = Root /\ Layers' = Layers
        /\ \A l : Segment(l)' = Segment(l) /\ input_size(l)' = input_size(l)
        /\ \A l, s : Children(l, s)' = Children(l, s) /\ Count(l, s)' = Count(l, s)
    BY Frame
  <2> TAKE done, sent, S
  <2>2. \A l, s : Counted(done, sent, l, s)' = Counted(done, sent, l, s)
    BY <1>6
  <2> QED BY ONLY <2>1, <2>2 DEF Accounts
<1>8. \A done, sent : Ordered(done, sent)' <=> Ordered(done, sent)
  BY Frame DEF Ordered
<1>9. \A sent, idx : Leaves(sent, idx)' <=> Leaves(sent, idx)
  BY Frame DEF Leaves
<1> QED BY <1>1, <1>2, <1>5, <1>7, <1>8, <1>9

-----------------------------------------------------------------------------
(* The steps.                                                               *)
(* What dispatch_task is told of a task's inputs.                           *)
HasInput(t, l, s, from, first) ==
  t.layer = l /\ t.segment = s /\ t.batch = Count(l, s) /\ t.from = from /\ t.first = first

Reading(l, s, from, first) == \A t : HasInput(t, l, s, from, first) => ReadsFrom(t)

(* The task that dispatch_task makes.                                       *)
LEMMA Dispatched ==
  ASSUME TreeOK, DOMAIN task = Slots, NEW slot \in Slots,
         NEW l \in Layers, NEW s \in Segment(l), NEW from \in Buffers, NEW first \in Nat, NEW S,
         Reading(l, s, from, first), dispatch_task(slot, l, s, from, first, S)
  PROVE  \E j : /\ task' = [task EXCEPT ![slot] = j]
                /\ j # NoTask /\ JobOK(j) /\ Id(j) = <<l, s>>
                /\ j.status = "READY" /\ HasInput(j, l, s, from, first)
                /\ segments' = IF l = Root THEN S
                               ELSE segment_db(S, <<l + 1, Parent(l, s)>>, l, s, Pad(l, s))
<1> DEFINE Job(n, pad, to, at) ==
             [status |-> "READY", layer |-> l, segment |-> s, from |-> from, first |-> first,
              batch |-> Count(l, s), next |-> n, padding |-> pad, to |-> to, at |-> at]
<1>1. /\ l \in Nat /\ Root \in Nat /\ \A k \in Layers : input_size(k) \in Nat \ {0}
      /\ s \in Nat /\ s * K \in Nat /\ Count(l, s) \in Nat /\ K \in Nat \ {0}
  BY LayersTyped, SegmentEnds, MerkleAssumption DEF TreeOK
<1>2. ASSUME NEW n \in Nat, NEW pad \in Nat, NEW to \in Buffers, NEW at \in Nat
      PROVE  Job(n, pad, to, at) # NoTask /\ Job(n, pad, to, at) \in HashTasks
  <2>1. Job(n, pad, to, at) \in HashTasks
    BY <1>1 DEF HashTasks
  <2>2. NoTask \notin HashTasks
    BY MerkleAssumption
  <2> HIDE DEF Job
  <2> QED BY <2>1, <2>2
<1>3. ASSUME NEW n, NEW pad, NEW to, NEW at, WritesTo(Job(n, pad, to, at)),
             Job(n, pad, to, at) \in HashTasks
      PROVE  /\ JobOK(Job(n, pad, to, at)) /\ Id(Job(n, pad, to, at)) = <<l, s>>
             /\ Job(n, pad, to, at).status = "READY"
             /\ HasInput(Job(n, pad, to, at), l, s, from, first)
  <2> DEFINE j == Job(n, pad, to, at)
  <2>1. /\ j.layer = l /\ j.segment = s /\ j.batch = Count(l, s)
        /\ j.from = from /\ j.first = first /\ j.status = "READY"
    OBVIOUS
  <2> HIDE DEF Job
  <2>2. HasInput(j, l, s, from, first)
    BY <2>1 DEF HasInput
  <2>3. ReadsFrom(j)
    BY <2>2 DEF Reading
  <2> QED BY <1>3, <2>1, <2>2, <2>3 DEF JobOK, Id
<1>4. CASE l = Root
  <2>1. <<"results", l>> \in Buffers
    BY <1>1 DEF Buffers
  <2>2. task' = [task EXCEPT ![slot] = Job(0, 0, <<"results", l>>, 0)] /\ segments' = S
    BY <1>4 DEF dispatch_task, Count
  <2>3. Job(0, 0, <<"results", l>>, 0) # NoTask /\ Job(0, 0, <<"results", l>>, 0) \in HashTasks
    BY ONLY <1>2, <2>1
  <2>4. WritesTo(Job(0, 0, <<"results", l>>, 0))
    BY <1>4 DEF WritesTo
  <2>5. /\ JobOK(Job(0, 0, <<"results", l>>, 0))
        /\ Id(Job(0, 0, <<"results", l>>, 0)) = <<l, s>>
        /\ Job(0, 0, <<"results", l>>, 0).status = "READY"
        /\ HasInput(Job(0, 0, <<"results", l>>, 0), l, s, from, first)
    BY ONLY <1>3, <2>3, <2>4
  <2> HIDE DEF Job
  <2> QED BY <1>4, <2>2, <2>3, <2>5
<1>5. CASE l # Root
  <2> DEFINE p == Parent(l, s)
             pad == Pad(l, s)
             mod == (s * K) % (K * input_size(l + 1))
             to == IF l < tree.store THEN <<"segment", l + 1, p>> ELSE <<"results", l>>
             at == IF l < tree.store THEN mod ELSE s * K
  <2>1. l + 1 \in Layers /\ p \in Segment(l + 1) /\ pad \in Nat
    BY <1>5, ParentTyped, PadFacts, TwoLayers
  <2>2. p \in Nat
    BY <2>1, SegmentEnds
  <2>3. to \in Buffers
    <3>1. <<"segment", l + 1, p>> \in {"segment"} \X Nat \X Nat
      BY <1>1, <2>2
    <3>2. <<"results", l>> \in {"results"} \X Nat
      BY <1>1
    <3> HIDE DEF p
    <3> QED BY <3>1, <3>2 DEF Buffers
  <2>4. at \in Nat
    <3>1. K * input_size(l + 1) \in Nat \ {0}
      <4>1. \A x, y \in Nat \ {0} : x * y \in Nat \ {0}
        OBVIOUS
      <4> QED BY <1>1, <2>1, <4>1
    <3>2. \A x \in Nat, y \in Nat \ {0} : x % y \in Nat
      OBVIOUS
    <3>3. mod \in Nat
      BY <1>1, <3>1, <3>2
    <3> QED BY <1>1, <3>3
  <2>5. task' = [task EXCEPT ![slot] = Job(p, pad, to, at)]
    BY <1>5 DEF dispatch_task, Count, Parent, Pad
  <2>6. segments' = segment_db(S, <<l + 1, p>>, l, s, pad)
    BY <1>5 DEF dispatch_task, Parent, Pad
  <2>7. WritesTo(Job(p, pad, to, at))
    <3>1. l < tree.store \/ l >= tree.store
      BY <1>1 DEF TreeOK, Shape
    <3> HIDE DEF p, pad, mod
    <3> QED BY <1>5, <3>1 DEF WritesTo, p, pad, mod
  <2> HIDE DEF p, pad, to, at
  <2>8. Job(p, pad, to, at) # NoTask /\ Job(p, pad, to, at) \in HashTasks
    BY ONLY <1>2, <2>1, <2>2, <2>3, <2>4
  <2>9. /\ JobOK(Job(p, pad, to, at)) /\ Id(Job(p, pad, to, at)) = <<l, s>>
        /\ Job(p, pad, to, at).status = "READY"
        /\ HasInput(Job(p, pad, to, at), l, s, from, first)
    BY ONLY <1>3, <2>7, <2>8
  <2> HIDE DEF Job
  <2> QED BY <1>5, <2>5, <2>6, <2>8, <2>9 DEF p, pad
<1> QED BY <1>4, <1>5

(* The tasks in the other slots.                                            *)
Others(slot) == {Id(task[x]) : x \in {y \in Slots \ {slot} : task[y] # NoTask}}
Apart(slot, done) ==
  \A x \in Slots \ {slot} : task[x] # NoTask =>
    /\ Id(task[x]) \notin done
    /\ \A y \in Slots \ {slot} : task[y] # NoTask /\ Id(task[y]) = Id(task[x]) => x = y

(* What holds when a slot is free for another task, and when it has it.     *)
SlotFree(slot, done, sent, S) ==
  /\ TreeOK /\ Jobs /\ DOMAIN task = Slots /\ tree' = tree
  /\ sent = done \cup Others(slot) /\ Apart(slot, done)
  /\ Accounts(done, sent, S) /\ Ordered(done, sent)
SlotTaken(done, sent, l, s) ==
  /\ DOMAIN task' = Slots /\ Jobs' /\ Single(done)'
  /\ done \cup Flight' = sent \cup {<<l, s>>}
  /\ Accounts(done, done \cup Flight, segments)'
  /\ Ordered(done, done \cup Flight)'

(* A slot gets a segment that was not sent, and whose inputs are there.     *)
LEMMA SendOne ==
  ASSUME NEW slot \in Slots,
         NEW l \in Layers, NEW s \in Segment(l), NEW from \in Buffers, NEW first \in Nat, NEW S,
         NEW done, NEW sent, SlotFree(slot, done, sent, S), <<l, s>> \notin sent,
         l # 0 => \A c \in Children(l - 1, s) : <<l - 1, c>> \in done,
         Reading(l, s, from, first), dispatch_task(slot, l, s, from, first, S)
  PROVE  SlotTaken(done, sent, l, s)
<1>0. /\ TreeOK /\ Jobs /\ DOMAIN task = Slots /\ tree' = tree
      /\ sent = done \cup Others(slot) /\ Apart(slot, done)
      /\ Accounts(done, sent, S) /\ Ordered(done, sent)
  BY DEF SlotFree
<1>1. PICK j : /\ task' = [task EXCEPT ![slot] = j]
               /\ j # NoTask /\ JobOK(j) /\ Id(j) = <<l, s>>
               /\ segments' = IF l = Root THEN S
                              ELSE segment_db(S, <<l + 1, Parent(l, s)>>, l, s, Pad(l, s))
  BY <1>0, Dispatched
<1>2. /\ DOMAIN task' = Slots /\ task'[slot] = j
      /\ \A x \in Slots \ {slot} : task'[x] = task[x]
  BY <1>0, <1>1
<1>3. Jobs'
  <2>1. \A x \in Slots : task'[x] # NoTask => JobOK(task'[x])
    BY <1>0, <1>1, <1>2 DEF Jobs
  <2>2. \A x \in Slots : task'[x] # NoTask => JobOK(task[x])'
    BY <1>0, <2>1, FrameParts
  <2> QED BY <2>2 DEF Jobs
<1>4. done \cup Flight' = sent \cup {<<l, s>>}
  <2>1. \A x \in Slots : Id(task[x])' = Id(task'[x])
    BY DEF Id
  <2>2. Flight' = {Id(task'[x]) : x \in {y \in Slots : task'[y] # NoTask}}
    BY <2>1 DEF Flight
  <2>3. ASSUME NEW i PROVE i \in Flight' <=> i \in Others(slot) \/ i = <<l, s>>
    <3>1. i \in Others(slot) <=> \E x \in Slots \ {slot} : task[x] # NoTask /\ i = Id(task[x])
      BY DEF Others
    <3>2. i \in Flight' <=> \E x \in Slots : task'[x] # NoTask /\ i = Id(task'[x])
      BY <2>2
    <3> QED BY ONLY <1>1, <1>2, <3>1, <3>2, slot \in Slots
  <2> QED BY <1>0, <2>3
<1>5. Single(done)'
  <2>1. \A x \in Slots : Id(task[x])' = Id(task'[x])
    BY DEF Id
  <2>2. \A x \in Slots \ {slot} : task[x] # NoTask => Id(task[x]) # <<l, s>>
    BY <1>0 DEF Others
  <2>3. \A x \in Slots \ {slot} : task[x] # NoTask =>
          /\ Id(task[x]) \notin done
          /\ \A y \in Slots \ {slot} : task[y] # NoTask /\ Id(task[y]) = Id(task[x]) => x = y
    BY <1>0 DEF Apart
  <2>4. <<l, s>> \notin done
    BY <1>0
  <2>5. \A x \in Slots : task'[x] # NoTask =>
          /\ Id(task'[x]) \notin done
          /\ \A y \in Slots : task'[y] # NoTask /\ Id(task'[y]) = Id(task'[x]) => x = y
    BY ONLY <1>1, <1>2, <2>2, <2>3, <2>4
  <2> QED BY <2>1, <2>5 DEF Single
<1>6. Accounts(done, sent \cup {<<l, s>>}, segments')
  <2>1. CASE l # Root
    <3>1. done \subseteq sent /\ l \in Layers \ {Root}
      BY <1>0, <2>1
    <3>2. Accounts(done, sent \cup {<<l, s>>},
                   segment_db(S, <<l + 1, Parent(l, s)>>, l, s, Pad(l, s)))
      BY ONLY <1>0, <3>1, SendCounts, s \in Segment(l), <<l, s>> \notin sent
    <3> QED BY <1>1, <2>1, <3>2
  <2>2. CASE l = Root
    <3>1. \A k \in Layers \ {Root} : \A t : \A d \in Children(k, t) :
            <<k, d>> \in sent \cup {<<l, s>>} <=> <<k, d>> \in sent
      BY <2>2
    <3>2. \A k \in Layers \ {Root} : \A t :
            Counted(done, sent \cup {<<l, s>>}, k, t) = Counted(done, sent, k, t)
      BY ONLY <3>1, CountsAlike
    <3>3. segments' = S
      BY <1>1, <2>2
    <3> QED BY ONLY <1>0, <3>1, <3>2, <3>3 DEF Accounts
  <2> QED BY <2>1, <2>2
<1>7. Ordered(done, sent \cup {<<l, s>>})
  <2> SUFFICES ASSUME NEW k \in Layers \ {Root}, NEW t \in Segment(k + 1),
                      <<k + 1, t>> \in sent \cup {<<l, s>>}, NEW c \in Children(k, t)
               PROVE  <<k, c>> \in done
    BY DEF Ordered
  <2>1. CASE <<k + 1, t>> \in sent
    BY <1>0, <2>1 DEF Ordered
  <2>2. CASE <<k + 1, t>> = <<l, s>>
    <3>1. k \in Nat /\ l = k + 1 /\ t = s
      BY <1>0, <2>2, LayersTyped DEF TreeOK
    <3>2. l # 0 /\ l - 1 = k
      BY <3>1
    <3> QED BY <3>1, <3>2
  <2> QED BY <2>1, <2>2
<1>8. PICK all, T : all = done \cup Flight' /\ T = segments'
  OBVIOUS
<1>9. Accounts(done, all, T)' /\ Ordered(done, all)'
  BY <1>0, <1>4, <1>6, <1>7, <1>8, FrameParts
<1>10. Accounts(done, done \cup Flight, segments)' /\ Ordered(done, done \cup Flight)'
  BY <1>8, <1>9
<1> QED BY <1>2, <1>3, <1>4, <1>5, <1>10 DEF SlotTaken

(* A segment of layer 0 that is not padded reads leaves that are there.     *)
LEMMA LeavesThere ==
  ASSUME TreeOK, NEW s \in Segment(0), tree.leaves = Capacity \/ s # max_segment(0)
  PROVE  s * K * input_size(0) + Count(0, s) * input_size(0) <= tree.leaves
<1> DEFINE a == input_size(0)
           n == nof_hashes_2_execute(0)
<1>1. /\ 0 \in Layers /\ a \in Nat \ {0}
      /\ nof_hashes(0) \in Nat \ {0} /\ occupied(0) \in Nat \ {0}
      /\ occupied(0) = CeilDiv(tree.leaves, a) /\ tree.leaves \in Nat \ {0}
  <2>1. 0 \in Layers
    BY LayersTyped DEF TreeOK
  <2> QED BY <2>1, LayersTyped, LayersPositive, OccupiedRec DEF TreeOK
<1>2. /\ s \in Nat /\ s * K \in Nat /\ Count(0, s) \in Nat
      /\ s * K + Count(0, s) <= n
      /\ s # max_segment(0) => s * K + Count(0, s) = (s + 1) * K
      /\ s <= max_segment(0)
  BY <1>1, SegmentEnds
<1>3. /\ n \in Nat /\ n <= nof_hashes(0) /\ max_segment(0) \in Nat /\ last_batch(0) \in Nat
      /\ n = max_segment(0) * K + last_batch(0)
      /\ max_segment(0) # 0 => last_batch(0) >= 2
  BY <1>1, LayerCut
<1>4. s * K * a + Count(0, s) * a = (s * K + Count(0, s)) * a
  <2> \A x, y, z \in Nat : x * z + y * z = (x + y) * z
    OBVIOUS
  <2> QED BY <1>1, <1>2
<1>5. CASE tree.leaves = Capacity
  <2>1. (s * K + Count(0, s)) * a <= nof_hashes(0) * a
    <3>1. s * K + Count(0, s) \in Nat /\ s * K + Count(0, s) <= nof_hashes(0)
      BY <1>1, <1>2, <1>3
    <3> HIDE DEF a
    <3> QED BY <1>1, <3>1, MulMonotone
  <2> QED BY <1>4, <1>5, <2>1 DEF Capacity
<1>6. CASE s # max_segment(0)
  <2> HIDE DEF n, a
  <2>1. s + 1 <= max_segment(0) /\ last_batch(0) >= 2
    <3>1. s \in Nat /\ max_segment(0) \in Nat /\ s <= max_segment(0)
      BY <1>2, <1>3
    <3>2. s + 1 <= max_segment(0) /\ max_segment(0) # 0
      BY ONLY <1>6, <3>1
    <3>3. max_segment(0) # 0 => last_batch(0) >= 2
      BY <1>3
    <3> QED BY ONLY <3>2, <3>3
  <2>2. (s + 1) * K <= max_segment(0) * K /\ (s + 1) * K \in Nat /\ max_segment(0) * K \in Nat
    BY <1>2, <1>3, <2>1, MulMonotone, MerkleAssumption
  <2>3. n <= occupied(0) + 1
    BY <1>1 DEF nof_hashes_2_execute, Least, n
  <2>4. (s + 1) * K <= occupied(0) - 1 /\ occupied(0) - 1 \in Nat
    <3> DEFINE x == max_segment(0) * K
               y == (s + 1) * K
    <3>1. x \in Nat /\ y \in Nat /\ y <= x /\ last_batch(0) \in Nat /\ n \in Nat
          /\ occupied(0) \in Nat \ {0} /\ n = x + last_batch(0)
      BY <1>1, <1>3, <2>2
    <3> HIDE DEF x, y
    <3>2. y <= occupied(0) - 1 /\ occupied(0) - 1 \in Nat
      BY ONLY <2>1, <2>3, <3>1
    <3> QED BY <3>2 DEF y
  <2>5. (s + 1) * K * a <= (occupied(0) - 1) * a
    BY <1>1, <2>2, <2>4, MulMonotone
  <2>6. (occupied(0) - 1) * a < tree.leaves
    BY <1>1, CeilFacts
  <2>7. (s + 1) * K * a \in Nat /\ (occupied(0) - 1) * a \in Nat
    BY <1>1, <2>2, <2>4
  <2>8. s * K * a + Count(0, s) * a = (s + 1) * K * a
    BY <1>2, <1>4, <1>6
  <2> QED BY <1>1, <2>5, <2>6, <2>7, <2>8 DEF a
<1> QED BY <1>5, <1>6

(* The next segment of layer 0, or none.                                    *)
LEMMA LeavesSent ==
  ASSUME NEW slot \in Slots, NEW S, NEW done, NEW sent, SlotFree(slot, done, sent, S),
         Sending, Leaves(sent, l0_segment_idx), SendLeaves(slot, S)
  PROVE  DOMAIN task' = Slots /\ Jobs' /\ Progress(done)' /\ Sending'
<1>0. /\ TreeOK /\ Jobs /\ DOMAIN task = Slots /\ tree' = tree
      /\ sent = done \cup Others(slot) /\ Apart(slot, done)
      /\ Accounts(done, sent, S) /\ Ordered(done, sent)
  BY DEF SlotFree
<1>1. /\ 0 \in Layers /\ input_size(0) \in Nat \ {0} /\ K \in Nat /\ max_segment(0) \in Nat
      /\ l0_segment_idx \in Nat /\ tree.leaves \in Nat /\ Capacity \in Nat
      /\ tree.leaves <= Capacity
  <2>1. 0 \in Layers
    BY <1>0, LayersTyped DEF TreeOK
  <2>2. input_size(0) \in Nat \ {0} /\ nof_hashes(0) \in Nat /\ max_segment(0) \in Nat
    BY <1>0, <2>1, LayersTyped, LayersPositive, LayerCut DEF TreeOK
  <2> QED BY <1>0, <2>1, <2>2, MerkleAssumption DEF TreeOK, Capacity, Sending
<1>2. max_segment(0)' = max_segment(0) /\ Capacity' = Capacity /\ Segment(0)' = Segment(0)
  BY <1>0, Frame
<1>3. CASE l0_segment_idx > max_segment(0)
  <2>1. /\ task' = [task EXCEPT ![slot] = NoTask] /\ segments' = S
        /\ l0_segment_idx' = l0_segment_idx /\ padding_required' = padding_required
    BY <1>3 DEF SendLeaves
  <2>2. /\ DOMAIN task' = Slots /\ task'[slot] = NoTask
        /\ \A x \in Slots \ {slot} : task'[x] = task[x]
    BY <1>0, <2>1
  <2>3. \A x \in Slots : Id(task[x])' = Id(task'[x])
    BY DEF Id
  <2>4. Jobs'
    <3>1. \A x \in Slots : task'[x] # NoTask => JobOK(task'[x])
      BY <1>0, <2>2 DEF Jobs
    <3>2. \A x \in Slots : task'[x] # NoTask => JobOK(task[x])'
      BY <1>0, <3>1, FrameParts
    <3> QED BY <3>2 DEF Jobs
  <2>5. Flight' = Others(slot)
    <3>1. ASSUME NEW i PROVE i \in Flight' <=> i \in Others(slot)
      <4>1. i \in Others(slot) <=> \E x \in Slots \ {slot} : task[x] # NoTask /\ i = Id(task[x])
        BY DEF Others
      <4>2. i \in Flight' <=> \E x \in Slots : task'[x] # NoTask /\ i = Id(task'[x])
        BY <2>3 DEF Flight
      <4> QED BY ONLY <2>2, <4>1, <4>2, slot \in Slots
    <3> QED BY <3>1
  <2>6. Single(done)'
    <3>1. \A x \in Slots : task'[x] # NoTask =>
            /\ Id(task'[x]) \notin done
            /\ \A y \in Slots : task'[y] # NoTask /\ Id(task'[y]) = Id(task'[x]) => x = y
      BY ONLY <1>0, <2>2, slot \in Slots DEF Apart
    <3> QED BY <2>3, <3>1 DEF Single
  <2>7. PICK idx : idx = l0_segment_idx'
    OBVIOUS
  <2>8. Accounts(done, sent, S)' /\ Ordered(done, sent)' /\ Leaves(sent, idx)'
    BY <1>0, <2>1, <2>7, FrameParts
  <2>9. Progress(done)'
    <3>1. done \cup Flight' = sent
      BY <1>0, <2>5
    <3>2. /\ Accounts(done, done \cup Flight, segments)' /\ Ordered(done, done \cup Flight)'
          /\ Leaves(done \cup Flight, l0_segment_idx)'
      BY <2>1, <2>7, <2>8, <3>1
    <3> QED BY <2>6, <3>2 DEF Progress
  <2>10. Sending'
    BY <1>0, <1>2, <2>1 DEF Sending
  <2> QED BY <2>2, <2>4, <2>9, <2>10
<1>4. CASE l0_segment_idx <= max_segment(0)
  <2>1. PICK s : s = l0_segment_idx
    OBVIOUS
  <2>2. /\ s \in Segment(0) /\ s \in Nat /\ s <= max_segment(0)
        /\ Count(0, s) \in Nat /\ s * K * input_size(0) \in Nat
    <3>1. s \in Segment(0)
      BY <1>1, <1>4, <2>1 DEF Segment
    <3>2. s \in Nat /\ s * K \in Nat /\ Count(0, s) \in Nat
      BY <1>0, <1>1, <3>1, SegmentEnds
    <3> QED BY <1>1, <1>4, <2>1, <3>1, <3>2
  <2>3. <<0, s>> \notin sent
    BY <2>1, <2>2 DEF Leaves
  <2>4. PICK padded, leaves, here :
          padded = <<"padded leaves">> /\ leaves = <<"leaves">> /\ here = s * K * input_size(0)
    OBVIOUS
  <2>5. /\ l0_segment_idx' = s + 1
        /\ \/ /\ padding_required /\ s = max_segment(0) /\ padding_required' = FALSE
              /\ dispatch_task(slot, 0, s, padded, 0, S)
           \/ /\ ~(padding_required /\ s = max_segment(0)) /\ padding_required' = padding_required
              /\ dispatch_task(slot, 0, s, leaves, here, S)
    <3>1. ~(l0_segment_idx > max_segment(0))
      BY <1>1, <1>4
    <3> QED BY ONLY SendLeaves(slot, S), <2>1, <2>4, <3>1, Zenon DEF SendLeaves
  <2>6. /\ padded \in Buffers /\ leaves \in Buffers /\ here \in Nat
        /\ Count(0, s) = last_batch(0) => Reading(0, s, padded, 0)
        /\ here + Count(0, s) * input_size(0) <= tree.leaves =>
             Reading(0, s, leaves, here)
    <3>1. padded \in Buffers /\ leaves \in Buffers /\ here \in Nat
      BY <2>2, <2>4 DEF Buffers
    <3>2. Count(0, s) = last_batch(0) => Reading(0, s, padded, 0)
      BY ONLY <2>4, Zenon DEF Reading, ReadsFrom, HasInput
    <3>3. here + Count(0, s) * input_size(0) <= tree.leaves =>
             Reading(0, s, leaves, here)
      BY ONLY <2>4, Zenon DEF Reading, ReadsFrom, HasInput
    <3> QED BY ONLY <3>1, <3>2, <3>3
  <2>7. ASSUME NEW from \in Buffers, NEW first \in Nat,
               dispatch_task(slot, 0, s, from, first, S),
               Reading(0, s, from, first)
        PROVE  SlotTaken(done, sent, 0, s)
    <3>1. 0 # 0 => \A c \in Children(0 - 1, s) : <<0 - 1, c>> \in done
      OBVIOUS
    <3>2. s \in Segment(0) /\ 0 \in Layers
      BY <1>1, <2>2
    <3> QED BY ONLY <2>3, <2>7, <3>1, <3>2, SendOne, slot \in Slots, SlotFree(slot, done, sent, S)
  <2>8. ASSUME padding_required /\ s = max_segment(0),
               dispatch_task(slot, 0, s, padded, 0, S)
        PROVE  SlotTaken(done, sent, 0, s)
    <3>1. Count(0, s) = last_batch(0)
      BY <1>0, <1>1, <2>2, <2>8, SegmentEnds
    <3>2. Reading(0, s, padded, 0)
      BY ONLY <2>6, <3>1
    <3>3. padded \in Buffers /\ 0 \in Nat
      BY <2>6
    <3> QED BY ONLY <2>7, <2>8, <3>2, <3>3
  <2>9. ASSUME ~(padding_required /\ s = max_segment(0)),
               dispatch_task(slot, 0, s, leaves, here, S)
        PROVE  SlotTaken(done, sent, 0, s)
    <3>1. tree.leaves = Capacity \/ s # max_segment(0)
      <4>1. padding_required <=> tree.leaves < Capacity
        BY ONLY Sending, <1>4 DEF Sending
      <4> QED BY ONLY <1>1, <2>9, <4>1
    <3>2. here + Count(0, s) * input_size(0) <= tree.leaves
      BY <1>0, <2>2, <2>4, <3>1, LeavesThere
    <3>3. Reading(0, s, leaves, here)
      BY ONLY <2>6, <3>2
    <3>4. leaves \in Buffers /\ here \in Nat
      BY <2>6
    <3> QED BY ONLY <2>7, <2>9, <3>3, <3>4
  <2>10. SlotTaken(done, sent, 0, s)
    BY ONLY <2>5, <2>8, <2>9
  <2>11. l0_segment_idx' = s + 1
    BY ONLY <2>5, Zenon
  <2>12. padding_required' = IF padding_required /\ s = max_segment(0) THEN FALSE
                             ELSE padding_required
    BY ONLY <2>5, Zenon
  <2>13. Leaves(done \cup Flight, l0_segment_idx)'
    <3>1. \A x \in Segment(0) : x \in Nat
      BY <1>0, <1>1, SegmentEnds
    <3>2. \A x \in Segment(0) : <<0, x>> \in sent <=> x < s
      BY <2>1 DEF Leaves
    <3>3. \A x \in Segment(0) : <<0, x>> \in sent \cup {<<0, s>>} <=> x < s + 1
      <4> SUFFICES ASSUME NEW x \in Segment(0)
                   PROVE  <<0, x>> \in sent \cup {<<0, s>>} <=> x < s + 1
        OBVIOUS
      <4>1. x \in Nat /\ (<<0, x>> \in sent <=> x < s)
        BY <3>1, <3>2
      <4>2. <<0, x>> \in sent \cup {<<0, s>>} <=> <<0, x>> \in sent \/ x = s
        OBVIOUS
      <4>3. s \in Nat
        BY <2>2
      <4> QED BY ONLY <4>1, <4>2, <4>3
    <3>4. done \cup Flight' = sent \cup {<<0, s>>}
      BY <2>10 DEF SlotTaken
    <3> QED BY ONLY <1>2, <2>11, <3>3, <3>4 DEF Leaves
  <2>14. Sending'
    <3>1. l0_segment_idx' \in Nat
      BY ONLY <2>2, <2>11
    <3>2. padding_required' \in BOOLEAN
      BY ONLY <2>12, Sending DEF Sending
    <3>3. l0_segment_idx' <= max_segment(0) => s # max_segment(0)
      BY ONLY <1>1, <2>2, <2>11
    <3>4. s # max_segment(0) => padding_required' = padding_required
      BY ONLY <2>12
    <3>5. padding_required <=> tree.leaves < Capacity
      BY ONLY <1>4, Sending DEF Sending
    <3> QED BY ONLY <1>0, <1>2, <3>1, <3>2, <3>3, <3>4, <3>5 DEF Sending
  <2> QED BY ONLY <2>10, <2>13, <2>14 DEF Progress, SlotTaken
<1> QED BY <1>1, <1>3, <1>4

(* A slot is free when it is idle,                                          *)
LEMMA Idle ==
  ASSUME TreeOK, Jobs, DOMAIN task = Slots, tree' = tree, NEW done, Progress(done),
         NEW slot \in Slots, task[slot] = NoTask
  PROVE  SlotFree(slot, done, done \cup Flight, segments)
<1>1. Others(slot) = Flight
  <2>1. ASSUME NEW i PROVE i \in Others(slot) <=> i \in Flight
    <3>1. i \in Others(slot) <=> \E x \in Slots \ {slot} : task[x] # NoTask /\ i = Id(task[x])
      BY DEF Others
    <3>2. i \in Flight <=> \E x \in Slots : task[x] # NoTask /\ i = Id(task[x])
      BY DEF Flight
    <3> QED BY <3>1, <3>2
  <2> QED BY <2>1
<1>2. Apart(slot, done)
  BY DEF Progress, Single, Apart
<1> QED BY <1>1, <1>2 DEF SlotFree, Progress

(* and when its completed task has been used.                               *)
MapWithout(t) ==
  [x \in DOMAIN segments \ {Id(t)} |->
    IF x = <<t.layer + 1, t.next>> THEN [segments[x] EXCEPT !.ready = @ + t.batch]
                                   ELSE segments[x]]
LEMMA Used ==
  ASSUME TreeOK, Jobs, DOMAIN task = Slots, tree' = tree, NEW done, Progress(done),
         NEW slot \in Slots, NEW t, t = task[slot], t # NoTask, t.layer # Root,
         NEW S, S = MapWithout(t)
  PROVE  /\ SlotFree(slot, done \cup {Id(t)}, done \cup Flight, S)
         /\ t.layer \in Layers \ {Root} /\ t.next \in Segment(t.layer + 1)
         /\ t.next = Parent(t.layer, t.segment)
         /\ <<t.layer + 1, t.next>> \in DOMAIN S
         /\ <<t.layer + 1, t.next>> \notin done \cup Flight
<1>1. JobOK(t)
  BY DEF Jobs
<1>2. PICK l, c : l = t.layer /\ c = t.segment
  OBVIOUS
<1>3. /\ l \in Layers \ {Root} /\ c \in Segment(l)
      /\ t.batch = Count(l, c) /\ Id(t) = <<l, c>>
  BY <1>1, <1>2 DEF JobOK, Id
<1>4. t.next = Parent(l, c)
  BY <1>1, <1>2, <1>3 DEF JobOK, WritesTo
<1>5. Parent(l, c) \in Segment(l + 1)
  BY <1>3, ParentTyped
<1>6. PICK sent : sent = done \cup Flight
  OBVIOUS
<1>7. /\ Single(done) /\ Accounts(done, sent, segments) /\ Ordered(done, sent)
  BY <1>6 DEF Progress
<1>8. Id(t) \in sent /\ Id(t) \notin done /\ done \subseteq sent
  BY <1>6, <1>7 DEF Flight, Single
<1>9. S = Retired(segments, l, c)
  BY <1>2, <1>3, <1>4 DEF Retired, MapWithout
<1>10. /\ Accounts(done \cup {<<l, c>>}, sent, S)
       /\ <<l + 1, Parent(l, c)>> \in DOMAIN S
       /\ <<l + 1, Parent(l, c)>> \notin sent
  <2>1. <<l, c>> \in sent /\ <<l, c>> \notin done
    BY <1>3, <1>8
  <2> QED BY ONLY <1>3, <1>7, <1>8, <1>9, <2>1, UseCounts, TreeOK
<1>11. Ordered(done \cup {<<l, c>>}, sent)
  BY <1>7 DEF Ordered
<1>12. sent = (done \cup {<<l, c>>}) \cup Others(slot)
  <2>1. ASSUME NEW i PROVE i \in Flight <=> i \in Others(slot) \/ i = <<l, c>>
    <3>1. i \in Others(slot) <=> \E x \in Slots \ {slot} : task[x] # NoTask /\ i = Id(task[x])
      BY DEF Others
    <3>2. i \in Flight <=> \E x \in Slots : task[x] # NoTask /\ i = Id(task[x])
      BY DEF Flight
    <3>3. t = task[slot] /\ t # NoTask /\ slot \in Slots
      OBVIOUS
    <3> QED BY ONLY <1>3, <3>1, <3>2, <3>3
  <2> QED BY <1>6, <2>1
<1>13. Apart(slot, done \cup {<<l, c>>})
  <2>1. \A x \in Slots : task[x] # NoTask =>
          /\ Id(task[x]) \notin done
          /\ \A y \in Slots : task[y] # NoTask /\ Id(task[y]) = Id(task[x]) => x = y
    BY <1>7 DEF Single
  <2>2. t = task[slot] /\ t # NoTask /\ slot \in Slots
    OBVIOUS
  <2> QED BY ONLY <1>3, <2>1, <2>2 DEF Apart
<1>14. SlotFree(slot, done \cup {<<l, c>>}, sent, S)
  BY <1>10, <1>11, <1>12, <1>13 DEF SlotFree
<1> QED BY <1>2, <1>3, <1>4, <1>5, <1>6, <1>10, <1>14

(* When as many inputs are ready as the segment has, all its inputs are     *)
(* there, and the tasks that made them are done.                            *)
LEMMA AllThere ==
  ASSUME TreeOK, NEW l \in Layers \ {Root}, NEW s \in Segment(l + 1), NEW done, NEW sent, NEW S,
         Accounts(done, sent, S), <<l + 1, s>> \in DOMAIN S,
         S[<<l + 1, s>>].ready >= S[<<l + 1, s>>].size
  PROVE  /\ \A c \in Children(l, s) : <<l, c>> \in done
         /\ Counted(done, sent, l, s) = Reads(l + 1, s)
<1>1. /\ S[<<l + 1, s>>].size = Count(l + 1, s) * input_size(l + 1)
      /\ S[<<l + 1, s>>].ready = Cardinality(Counted(done, sent, l, s))
  BY DEF Accounts
<1>2. l + 1 \in Layers
  BY TwoLayers
<1>3. Count(l + 1, s) * input_size(l + 1) \in Nat
  <2>1. Count(l + 1, s) \in Nat /\ input_size(l + 1) \in Nat
    BY <1>2, SegmentEnds, LayersTyped DEF TreeOK
  <2> QED BY <2>1
<1>4. /\ Counted(done, sent, l, s) \subseteq Reads(l + 1, s)
      /\ Cardinality(Counted(done, sent, l, s)) \in Nat
  BY CountedFinite
<1>5. \A c \in Children(l, s) : <<l, c>> \in done
  <2> SUFFICES ASSUME NEW c \in Children(l, s), <<l, c>> \notin done PROVE FALSE
    OBVIOUS
  <2>1. Cardinality(Counted(done, sent, l, s)) < Count(l + 1, s) * input_size(l + 1)
    BY OneMissing
  <2> QED BY <1>1, <1>3, <1>4, <2>1
<1>6. Counted(done, sent, l, s) = Reads(l + 1, s)
  <2>1. /\ IsFiniteSet(Reads(l + 1, s))
        /\ Cardinality(Reads(l + 1, s)) = Count(l + 1, s) * input_size(l + 1)
    BY <1>2, ReadsSize
  <2>2. Cardinality(Counted(done, sent, l, s)) <= Cardinality(Reads(l + 1, s))
    BY <1>4, <2>1, FS_Subset
  <2>3. Cardinality(Counted(done, sent, l, s)) = Cardinality(Reads(l + 1, s))
    BY <1>1, <1>3, <1>4, <2>1, <2>2
  <2> QED BY <1>4, <2>1, <2>3, FS_Subset
<1> QED BY <1>5, <1>6

(* A segment of a higher layer is sent when all its inputs are there.       *)
LEMMA ParentSent ==
  ASSUME NEW slot \in Slots, NEW S, NEW done, NEW sent, SlotFree(slot, done, sent, S),
         Leaves(sent, l0_segment_idx), Sending,
         UNCHANGED <<l0_segment_idx, padding_required>>,
         NEW l \in Layers \ {Root}, NEW s \in Segment(l + 1),
         <<l + 1, s>> \in DOMAIN S, <<l + 1, s>> \notin sent,
         S[<<l + 1, s>>].ready >= S[<<l + 1, s>>].size,
         dispatch_task(slot, l + 1, s, SegmentInputs(l + 1, s).buffer,
                       SegmentInputs(l + 1, s).first, S)
  PROVE  DOMAIN task' = Slots /\ Jobs' /\ Progress(done)' /\ Sending'
<1>0. /\ TreeOK /\ tree' = tree /\ Accounts(done, sent, S)
  BY DEF SlotFree
<1>1. /\ l \in Nat /\ l + 1 \in Layers /\ l + 1 # 0 /\ (l + 1) - 1 = l
      /\ s \in Nat /\ s * K * input_size(l + 1) \in Nat
  <2>1. l \in Nat /\ l + 1 \in Layers /\ input_size(l + 1) \in Nat
    BY <1>0, LayersTyped, TwoLayers DEF TreeOK
  <2>2. s \in Nat /\ s * K \in Nat
    BY <1>0, <2>1, SegmentEnds
  <2> QED BY <2>1, <2>2
<1>2. \A c \in Children(l, s) : <<l, c>> \in done
  BY <1>0, AllThere
<1>3. PICK k, from, first : /\ k = l + 1 /\ from = SegmentInputs(l + 1, s).buffer
                            /\ first = SegmentInputs(l + 1, s).first
  OBVIOUS
<1>4. from \in Buffers /\ first \in Nat /\ Reading(k, s, from, first)
  <2>1. tree.store \in Nat
    BY <1>0 DEF TreeOK, Shape
  <2>2. CASE k <= tree.store
    <3>1. from = <<"segment", k, s>> /\ first = 0
      BY <1>3, <2>2 DEF SegmentInputs
    <3>2. from \in Buffers
      <4>1. <<"segment", k, s>> \in {"segment"} \X Nat \X Nat
        BY <1>1, <1>3
      <4> QED BY <3>1, <4>1 DEF Buffers
    <3>3. k # 0
      BY <1>1, <1>3
    <3>4. Reading(k, s, from, first)
      BY ONLY <2>2, <3>1, <3>3, Zenon DEF Reading, HasInput, ReadsFrom
    <3> QED BY <3>1, <3>2, <3>4
  <2>3. CASE ~(k <= tree.store)
    <3>1. from = <<"results", k - 1>> /\ first = s * K * input_size(k)
      BY <1>3, <2>3 DEF SegmentInputs
    <3>2. from \in Buffers
      <4>1. <<"results", k - 1>> \in {"results"} \X Nat
        BY <1>1, <1>3
      <4> QED BY <3>1, <4>1 DEF Buffers
    <3>3. k # 0 /\ k > tree.store
      BY <1>1, <1>3, <2>1, <2>3
    <3>4. Reading(k, s, from, first)
      BY ONLY <3>1, <3>3, Zenon DEF Reading, HasInput, ReadsFrom
    <3> QED BY <1>1, <1>3, <3>1, <3>2, <3>4
  <2> QED BY <2>2, <2>3
<1>5. SlotTaken(done, sent, k, s)
  <2>1. dispatch_task(slot, k, s, from, first, S)
    BY <1>3
  <2>2. k \in Layers /\ s \in Segment(k) /\ <<k, s>> \notin sent
    BY <1>1, <1>3
  <2>3. k # 0 => \A c \in Children(k - 1, s) : <<k - 1, c>> \in done
    BY <1>1, <1>2, <1>3
  <2> QED BY ONLY <1>4, <2>1, <2>2, <2>3, SendOne, slot \in Slots, SlotFree(slot, done, sent, S)
<1>6. Leaves(done \cup Flight, l0_segment_idx)'
  <2>1. \A x \in Segment(0) : <<0, x>> \in sent \cup {<<k, s>>} <=> x < l0_segment_idx
    <3>1. k # 0
      BY <1>1, <1>3
    <3>2. \A x \in Segment(0) : <<0, x>> \in sent \cup {<<k, s>>} <=> <<0, x>> \in sent
      BY ONLY <3>1
    <3> QED BY <3>2 DEF Leaves
  <2>2. Segment(0)' = Segment(0) /\ done \cup Flight' = sent \cup {<<k, s>>}
    BY <1>0, <1>5, Frame DEF SlotTaken
  <2>3. l0_segment_idx' = l0_segment_idx
    OBVIOUS
  <2> QED BY ONLY <2>1, <2>2, <2>3 DEF Leaves
<1>7. Sending'
  <2>1. max_segment(0)' = max_segment(0) /\ Capacity' = Capacity
    BY <1>0, Frame
  <2> QED BY <1>0, <2>1 DEF Sending
<1> QED BY <1>5, <1>6, <1>7 DEF SlotTaken, Progress

(* The invariant holds at first,                                            *)
LEMMA InitHolds ==
  ASSUME Init
  PROVE  IndInv
<1>1. PICK t \in Trees : tree = [arity |-> t.arity, store |-> t.store, leaves |-> 0, policy |-> "None"]
  BY DEF Init
<1>2. t.arity \in Seq(Nat \ {0}) /\ Len(t.arity) > 0 /\ t.store \in 0 .. Len(t.arity) - 1
  BY MerkleAssumption
<1>3. Shape
  BY <1>1, <1>2 DEF Shape
<1> QED BY <1>3 DEF Init, IndInv, Created

(* the calls of build begin it,                                             *)
LEMMA BuildHolds ==
  ASSUME Created, Build
  PROVE  Running' /\ Progress({})'
<1>1. Created
  OBVIOUS
<1>2. PICK n \in LeafCounts, policy \in {"None", "ZeroPadding", "LastValue"} :
        /\ n <= Capacity /\ tree' = [tree EXCEPT !.leaves = n, !.policy = policy]
        /\ padding_required' = (n < Capacity)
  BY DEF Build
<1>3. DOMAIN tree = {"arity", "store", "leaves", "policy"}
  BY <1>1 DEF Created, Shape
<1>4. /\ tree'.arity = tree.arity /\ tree'.store = tree.store /\ tree'.leaves = n
      /\ DOMAIN tree' = DOMAIN tree
  BY <1>2, <1>3
<1>5. TreeOK'
  <2>1. Shape'
    BY <1>1, <1>4 DEF Created, Shape
  <2>2. n \in Nat \ {0}
    BY MerkleAssumption
  <2> QED BY <1>2, <1>4, <2>1, <2>2, ArityFrame DEF TreeOK
<1>6. /\ task' = task /\ segments' = segments /\ l0_segment_idx' = 0 /\ state' = "building"
      /\ m_results' = [l \in Layers |-> Uninitialised(results_size(l)')]
  BY DEF Build
<1>7. Memory'
  <2>1. Layers' = Layers
    BY <1>4, ArityFrame
  <2>2. \A l \in Layers : m_results'[l] = Uninitialised(results_size(l)')
    BY <1>6
  <2>3. DOMAIN m_results' = Layers
    BY <1>6
  <2>4. \A l \in Layers : DOMAIN m_results'[l] = 0 .. results_size(l)' - 1
    BY <2>2 DEF Uninitialised
  <2>5. DOMAIN task' = Slots
    BY <1>1, <1>6 DEF Created
  <2> QED BY ONLY <2>1, <2>3, <2>4, <2>5 DEF Memory
<1>8. Sending'
  <2>1. Capacity' = Capacity
    BY <1>4, ArityFrame
  <2>2. padding_required' \in BOOLEAN /\ (padding_required' <=> n < Capacity)
    <3>1. padding_required' = (n < Capacity)
      BY <1>2
    <3>2. (n < Capacity) \in BOOLEAN
      OBVIOUS
    <3> QED BY ONLY <3>1, <3>2
  <2>3. tree'.leaves = n
    BY <1>4
  <2> QED BY ONLY <1>6, <2>1, <2>2, <2>3 DEF Sending
<1>9. \A x \in Slots : task'[x] = NoTask
  BY <1>1, <1>6 DEF Created
<1>10. Jobs'
  BY <1>9 DEF Jobs
<1>11. Progress({})'
  <2>1. Flight' = {}
    BY <1>9 DEF Flight
  <2>2. Single({})'
    BY <1>9 DEF Single
  <2>3. DOMAIN segments' = {}
    BY <1>1, <1>6 DEF Created
  <2>4. Accounts({}, {}, segments)'
    BY <2>3 DEF Accounts
  <2>5. Ordered({}, {})'
    BY DEF Ordered
  <2>6. Leaves({}, l0_segment_idx)'
    BY <1>6 DEF Leaves, Segment
  <2>7. {} \cup Flight' = {}
    BY <2>1
  <2> QED BY <2>2, <2>4, <2>5, <2>6, <2>7 DEF Progress
<1> QED BY <1>5, <1>6, <1>7, <1>8, <1>10, <1>11 DEF Running

(* a worker's step keeps it,                                                *)
LEMMA ExecuteHolds ==
  ASSUME Running, NEW done, Progress(done), NEW slot \in Slots, Execute(slot)
  PROVE  Running' /\ Progress(done)'
<1> DEFINE t == task[slot]
<1>1. t # NoTask /\ t.status = "READY" /\ task' = [task EXCEPT ![slot].status = "COMPLETED"]
  BY DEF Execute
<1>2. /\ tree' = tree /\ state' = state /\ l0_segment_idx' = l0_segment_idx
      /\ padding_required' = padding_required
  BY DEF Execute
<1>3. state \in {"building", "built"} /\ TreeOK /\ Memory /\ Sending /\ Jobs
  BY DEF Running
<1>4. Progress(done)
  OBVIOUS
<1>5. JobOK(t) /\ t \in HashTasks
  BY <1>1, <1>3 DEF Jobs, JobOK
<1>6. PICK u : u = [t EXCEPT !.status = "COMPLETED"]
  OBVIOUS
<1>7. /\ u \in HashTasks /\ u.layer = t.layer /\ u.segment = t.segment /\ u.batch = t.batch
      /\ u.from = t.from /\ u.first = t.first /\ u.next = t.next /\ u.padding = t.padding
      /\ u.to = t.to /\ u.at = t.at
  BY <1>5, <1>6 DEF HashTasks
<1>8. /\ DOMAIN task = Slots /\ DOMAIN task' = Slots /\ task'[slot] = u
      /\ \A x \in Slots \ {slot} : task'[x] = task[x]
  BY <1>1, <1>3, <1>6 DEF Memory
<1>9. u # NoTask
  BY <1>7, MerkleAssumption
<1>10. JobOK(u)
  <2>1. ReadsFrom(u)
    BY ONLY <1>5, <1>7, Zenon DEF JobOK, ReadsFrom
  <2>2. WritesTo(u)
    BY ONLY <1>5, <1>7, Zenon DEF JobOK, WritesTo
  <2> QED BY ONLY <1>5, <1>7, <2>1, <2>2 DEF JobOK
<1>11. Jobs'
  <2>1. \A x \in Slots : task'[x] # NoTask => JobOK(task'[x])
    BY <1>3, <1>8, <1>10 DEF Jobs
  <2>2. \A x \in Slots : task'[x] # NoTask => JobOK(task[x])'
    BY <1>2, <2>1, FrameParts
  <2> QED BY <2>2 DEF Jobs
<1>12. \A x \in Slots : Id(task[x])' = Id(task[x]) /\ (task'[x] # NoTask <=> task[x] # NoTask)
  <2>1. Id(u) = Id(t)
    BY <1>7 DEF Id
  <2>2. \A x \in Slots : Id(task[x])' = Id(task'[x])
    BY DEF Id
  <2> HIDE DEF t
  <2>3. t = task[slot] /\ t # NoTask
    BY <1>1 DEF t
  <2> QED BY <1>8, <1>9, <2>1, <2>2, <2>3
<1>13. Flight' = Flight
  BY <1>12 DEF Flight
<1>14. Single(done)'
  <2>1. \A x \in Slots : task[x] # NoTask =>
          /\ Id(task[x]) \notin done
          /\ \A y \in Slots : task[y] # NoTask /\ Id(task[y]) = Id(task[x]) => x = y
    BY <1>4 DEF Progress, Single
  <2> QED BY ONLY <1>12, <2>1 DEF Single
<1>15. /\ DOMAIN segments' = DOMAIN segments
       /\ \A x \in DOMAIN segments :
            DOMAIN segments[x] = {"ready", "size", "m_input_data"} =>
              /\ DOMAIN segments'[x] = {"ready", "size", "m_input_data"}
              /\ segments'[x].size = segments[x].size /\ segments'[x].ready = segments[x].ready
  <2>1. CASE segments' = segments
    BY <2>1
  <2>2. CASE segments' # segments
    <3>1. PICK id, data : segments' = [segments EXCEPT ![id].m_input_data = data]
      BY <2>2 DEF Execute
    <3> QED BY <3>1
  <2> QED BY <2>1, <2>2
<1>16. DOMAIN m_results' = DOMAIN m_results
       /\ \A l \in Layers : DOMAIN m_results'[l] = DOMAIN m_results[l]
  <2>1. CASE m_results' = m_results
    BY <2>1
  <2>2. CASE m_results' # m_results
    <3>1. PICK k, g : m_results' = [m_results EXCEPT ![k] = g] /\ DOMAIN g = DOMAIN m_results[k]
      <4> DEFINE output == [h \in 0 .. t.batch - 1 |->
                             Hash(t.layer, [k \in 0 .. input_size(t.layer) - 1 |->
                                             Inputs(t)[h * input_size(t.layer) + k]])]
                 here(i) == i - t.at \in 0 .. t.batch + t.padding - 1
                 new(i) == output[Least(i - t.at, t.batch - 1)]
                 to == t.to[2]
                 Written == [i \in DOMAIN m_results[to] |->
                              IF here(i) THEN new(i) ELSE m_results[to][i]]
      <4>1. m_results' = [m_results EXCEPT ![to] = Written]
        BY <2>2 DEF Execute
      <4> HIDE DEF here, new, to
      <4>2. DOMAIN Written = DOMAIN m_results[to]
        OBVIOUS
      <4> HIDE DEF Written
      <4> QED BY <4>1, <4>2
    <3> QED BY <3>1
  <2> QED BY <2>1, <2>2
<1>17. PICK sent, S, T, idx : sent = done \cup Flight /\ S = segments /\ T = segments' /\ idx = l0_segment_idx
  OBVIOUS
<1>18. Accounts(done, sent, S) /\ Ordered(done, sent) /\ Leaves(sent, idx)
  BY <1>4, <1>17 DEF Progress
<1>19. Accounts(done, sent, T)
  <2>1. /\ DOMAIN T = DOMAIN S
        /\ \A x \in DOMAIN S :
            DOMAIN S[x] = {"ready", "size", "m_input_data"} =>
              /\ DOMAIN T[x] = {"ready", "size", "m_input_data"}
              /\ T[x].size = S[x].size /\ T[x].ready = S[x].ready
    BY <1>15, <1>17
  <2> QED BY ONLY <1>18, <2>1 DEF Accounts
<1>20. Accounts(done, sent, T)' /\ Ordered(done, sent)' /\ Leaves(sent, idx)'
  BY <1>2, <1>18, <1>19, FrameParts
<1>21. Progress(done)'
  <2>1. done \cup Flight' = sent /\ segments' = T /\ l0_segment_idx' = idx
    BY <1>2, <1>13, <1>17
  <2> QED BY ONLY <1>14, <1>20, <2>1 DEF Progress
<1>22. Memory'
  <2>1. Layers' = Layers /\ \A l : results_size(l)' = results_size(l)
    BY <1>2, Frame
  <2> QED BY <1>3, <1>8, <1>16, <2>1 DEF Memory
<1>23. Sending'
  <2>1. max_segment(0)' = max_segment(0) /\ Capacity' = Capacity
    BY <1>2, Frame
  <2> QED BY <1>2, <1>3, <2>1 DEF Sending
<1>24. TreeOK'
  BY <1>2, <1>3, FrameParts
<1> QED BY <1>2, <1>3, <1>11, <1>21, <1>22, <1>23, <1>24 DEF Running

(* and so do the calling thread's.                                          *)
LEMMA SendingHolds ==
  ASSUME TreeOK, Memory, tree' = tree, m_results' = m_results, state' = state,
         state \in {"building", "built"}, NEW done,
         DOMAIN task' = Slots, Jobs', Progress(done)', Sending'
  PROVE  Running' /\ Progress(done)'
<1>1. TreeOK'
  BY FrameParts
<1>2. Memory'
  BY Frame DEF Memory
<1> QED BY <1>1, <1>2 DEF Running

LEMMA UseIdleHolds ==
  ASSUME Running, NEW done, Progress(done), NEW slot \in Slots, UseIdle(slot)
  PROVE  Running' /\ Progress(done)'
<1>1. /\ task[slot] = NoTask /\ SendLeaves(slot, segments)
      /\ tree' = tree /\ m_results' = m_results /\ state' = state /\ state = "building"
  BY DEF UseIdle
<1>2. TreeOK /\ Memory /\ Sending /\ Jobs /\ DOMAIN task = Slots
  BY DEF Running, Memory
<1>3. Progress(done)
  OBVIOUS
<1>4. PICK sent, S : sent = done \cup Flight /\ S = segments
  OBVIOUS
<1>5. SlotFree(slot, done, sent, S)
  BY <1>1, <1>2, <1>3, <1>4, Idle
<1>6. Leaves(sent, l0_segment_idx)
  BY <1>3, <1>4 DEF Progress
<1>7. SendLeaves(slot, S)
  BY <1>1, <1>4
<1>8. DOMAIN task' = Slots /\ Jobs' /\ Progress(done)' /\ Sending'
  BY ONLY <1>2, <1>5, <1>6, <1>7, LeavesSent, slot \in Slots
<1> QED BY ONLY <1>1, <1>2, <1>8, SendingHolds

LEMMA UseCompletedHolds ==
  ASSUME Running, NEW done, Progress(done), NEW slot \in Slots, UseCompleted(slot),
         NEW t, t = task[slot],
         NEW all, all = IF t.layer = Root THEN done ELSE done \cup {Id(t)}
  PROVE  Running' /\ Progress(all)'
<1>1. t = task[slot]
  OBVIOUS
<1>2. PICK S : S = MapWithout(t)
  OBVIOUS
<1>3. PICK id : id = <<t.layer + 1, t.next>>
  OBVIOUS
<1>4. /\ tree' = tree /\ m_results' = m_results /\ state = "building" /\ t # NoTask
      /\ \/ /\ t.layer = Root /\ state' = "built"
            /\ UNCHANGED <<l0_segment_idx, padding_required, task, segments>>
         \/ /\ t.layer # Root /\ S[id].ready >= S[id].size
            /\ dispatch_task(slot, t.layer + 1, t.next, SegmentInputs(t.layer + 1, t.next).buffer,
                             SegmentInputs(t.layer + 1, t.next).first, S)
            /\ UNCHANGED <<state, l0_segment_idx, padding_required>>
         \/ /\ t.layer # Root /\ SendLeaves(slot, S) /\ state' = state
  BY <1>1, <1>2, <1>3, Zenon DEF UseCompleted, Id, MapWithout
<1>5. TreeOK /\ Memory /\ Sending /\ Jobs /\ DOMAIN task = Slots
  BY DEF Running, Memory
<1>6. Progress(done)
  OBVIOUS
<1>7. CASE t.layer = Root
  <2>1. /\ state' = "built" /\ task' = task /\ segments' = segments
        /\ l0_segment_idx' = l0_segment_idx /\ padding_required' = padding_required
    BY ONLY <1>4, <1>7
  <2>2. PICK sent, T, idx : sent = done \cup Flight /\ T = segments /\ idx = l0_segment_idx
    OBVIOUS
  <2>3. Accounts(done, sent, T)' /\ Ordered(done, sent)' /\ Leaves(sent, idx)'
    <3>1. Accounts(done, sent, T) /\ Ordered(done, sent) /\ Leaves(sent, idx)
      BY <1>6, <2>2 DEF Progress
    <3> QED BY <1>4, <3>1, FrameParts
  <2>4. done \cup Flight' = sent /\ segments' = T /\ l0_segment_idx' = idx
    <3>1. Flight' = Flight
      BY <2>1 DEF Flight, Id
    <3> QED BY <2>1, <2>2, <3>1
  <2>5. Single(done)'
    BY <1>6, <2>1 DEF Progress, Single, Id
  <2>6. Progress(done)'
    BY ONLY <2>3, <2>4, <2>5 DEF Progress
  <2>7. Jobs'
    <3>1. \A x \in Slots : task'[x] # NoTask => JobOK(task[x])'
      BY <1>4, <1>5, <2>1, FrameParts DEF Jobs
    <3> QED BY <3>1 DEF Jobs
  <2>8. Sending'
    <3>1. max_segment(0)' = max_segment(0) /\ Capacity' = Capacity
      BY <1>4, Frame
    <3> QED BY <1>4, <1>5, <2>1, <3>1 DEF Sending
  <2>9. Memory' /\ TreeOK'
    <3>1. Layers' = Layers /\ \A l : results_size(l)' = results_size(l)
      BY <1>4, Frame
    <3> QED BY <1>4, <1>5, <2>1, <3>1, FrameParts DEF Memory
  <2>10. all = done
    BY <1>7
  <2>11. Running'
    BY <2>1, <2>7, <2>8, <2>9 DEF Running
  <2> QED BY ONLY <2>6, <2>10, <2>11
<1>8. CASE t.layer # Root
  <2>1. PICK sent, l, s :
          /\ all = done \cup {Id(t)} /\ sent = done \cup Flight /\ l = t.layer /\ s = t.next
    BY <1>8
  <2>2. /\ SlotFree(slot, all, sent, S)
        /\ l \in Layers \ {Root} /\ s \in Segment(l + 1)
        /\ <<l + 1, s>> \in DOMAIN S /\ <<l + 1, s>> \notin sent
    <3>1. /\ SlotFree(slot, done \cup {Id(t)}, done \cup Flight, S)
          /\ t.layer \in Layers \ {Root} /\ t.next \in Segment(t.layer + 1)
          /\ t.next = Parent(t.layer, t.segment)
          /\ <<t.layer + 1, t.next>> \in DOMAIN S
          /\ <<t.layer + 1, t.next>> \notin done \cup Flight
      BY ONLY <1>1, <1>2, <1>4, <1>5, <1>6, <1>8, Used, slot \in Slots
    <3> QED BY ONLY <2>1, <3>1
  <2>3. Leaves(sent, l0_segment_idx)
    BY <1>6, <2>1 DEF Progress
  <2>4. CASE /\ S[id].ready >= S[id].size
             /\ dispatch_task(slot, l + 1, s, SegmentInputs(l + 1, s).buffer,
                              SegmentInputs(l + 1, s).first, S)
             /\ UNCHANGED <<state, l0_segment_idx, padding_required>>
    <3>1. S[<<l + 1, s>>].ready >= S[<<l + 1, s>>].size
      BY <1>3, <2>1, <2>4
    <3>2. UNCHANGED <<l0_segment_idx, padding_required>> /\ state' = state
      BY <2>4
    <3>3. DOMAIN task' = Slots /\ Jobs' /\ Progress(all)' /\ Sending'
      BY ONLY <1>5, <2>2, <2>3, <2>4, <3>1, <3>2, ParentSent, slot \in Slots
    <3> QED BY ONLY <1>4, <1>5, <3>2, <3>3, SendingHolds
  <2>5. CASE SendLeaves(slot, S) /\ state' = state
    <3>1. DOMAIN task' = Slots /\ Jobs' /\ Progress(all)' /\ Sending'
      BY ONLY <1>5, <2>2, <2>3, <2>5, LeavesSent, slot \in Slots
    <3> QED BY ONLY <1>4, <1>5, <2>5, <3>1, SendingHolds
  <2> QED BY ONLY <1>4, <1>8, <2>1, <2>4, <2>5
<1> QED BY <1>7, <1>8

LEMMA StutterHolds ==
  ASSUME Running, NEW done, Progress(done), UNCHANGED vars
  PROVE  Running' /\ Progress(done)'
<1>1. /\ tree' = tree /\ state' = state /\ l0_segment_idx' = l0_segment_idx
      /\ padding_required' = padding_required /\ task' = task /\ m_results' = m_results
      /\ segments' = segments
  BY DEF vars
<1>2. state \in {"building", "built"} /\ TreeOK /\ Memory /\ Sending /\ Jobs
  BY DEF Running
<1>3. PICK sent, T, idx : sent = done \cup Flight /\ T = segments /\ idx = l0_segment_idx
  OBVIOUS
<1>4. Accounts(done, sent, T)' /\ Ordered(done, sent)' /\ Leaves(sent, idx)'
  <2>1. Accounts(done, sent, T) /\ Ordered(done, sent) /\ Leaves(sent, idx)
    BY <1>3 DEF Progress
  <2> QED BY <1>1, <2>1, FrameParts
<1>5. done \cup Flight' = sent /\ segments' = T /\ l0_segment_idx' = idx
  <2>1. Flight' = Flight
    BY <1>1 DEF Flight, Id
  <2> QED BY <1>1, <1>3, <2>1
<1>6. Single(done)'
  BY <1>1 DEF Progress, Single, Id
<1>7. Progress(done)'
  BY ONLY <1>4, <1>5, <1>6 DEF Progress
<1>8. Jobs'
  <2>1. \A x \in Slots : task'[x] # NoTask => JobOK(task[x])'
    BY <1>1, <1>2, FrameParts DEF Jobs
  <2> QED BY <2>1 DEF Jobs
<1>9. Sending'
  <2>1. max_segment(0)' = max_segment(0) /\ Capacity' = Capacity
    BY <1>1, Frame
  <2> QED BY <1>1, <1>2, <2>1 DEF Sending
<1>10. DOMAIN task' = Slots
  BY <1>1, <1>2 DEF Memory
<1> QED BY ONLY <1>1, <1>2, <1>7, <1>8, <1>9, <1>10, SendingHolds

(* The invariant of a build, whatever the workers' order.                   *)
THEOREM Invariant == Spec => []IndInv
<1>1. Init => IndInv
  BY InitHolds
<1>2. IndInv /\ [Next]_vars => IndInv'
  <2> SUFFICES ASSUME IndInv, [Next]_vars PROVE IndInv'
    OBVIOUS
  <2>1. CASE state = "created" /\ Created
    <3>1. CASE Build
      BY <2>1, <3>1, BuildHolds DEF IndInv
    <3>2. CASE UNCHANGED vars
      BY <2>1, <3>2, FrameParts DEF IndInv, Created, vars
    <3> QED BY <2>1, <3>1, <3>2 DEF Next, Main, UseIdle, UseCompleted, Execute, Created
  <2>2. CASE Running /\ \E done : Progress(done)
    <3>1. PICK done : Progress(done)
      BY <2>2
    <3>2. ~Build
      BY <2>2 DEF Running, Build
    <3>3. ASSUME NEW slot \in Slots, UseIdle(slot) PROVE IndInv'
      BY <2>2, <3>1, <3>3, UseIdleHolds DEF IndInv
    <3>4. ASSUME NEW slot \in Slots, UseCompleted(slot) PROVE IndInv'
      BY <2>2, <3>1, <3>4, UseCompletedHolds DEF IndInv
    <3>5. ASSUME NEW slot \in Slots, Execute(slot) PROVE IndInv'
      BY <2>2, <3>1, <3>5, ExecuteHolds DEF IndInv
    <3>6. CASE UNCHANGED vars
      BY <2>2, <3>1, <3>6, StutterHolds DEF IndInv
    <3> QED BY <3>2, <3>3, <3>4, <3>5, <3>6 DEF Next, Main
  <2> QED BY <2>1, <2>2 DEF IndInv
<1> QED BY <1>1, <1>2, PTL DEF Spec

-----------------------------------------------------------------------------
(* What a task reads and writes.                                            *)
(* A task that is in a slot is sent and not done.                           *)
LEMMA InFlight ==
  ASSUME NEW done, Progress(done), NEW slot \in Slots, task[slot] # NoTask
  PROVE  Id(task[slot]) \in done \cup Flight /\ Id(task[slot]) \notin done
BY DEF Progress, Single, Flight

(* Before its task is done, the segment it writes to is not sent.           *)
LEMMA WriterFirst ==
  ASSUME TreeOK, NEW done, Progress(done), NEW slot \in Slots, NEW t, t = task[slot],
         t # NoTask, JobOK(t), t.layer # Root,
         NEW p, p = Parent(t.layer, t.segment)
  PROVE  /\ t.layer \in Layers \ {Root} /\ p \in Segment(t.layer + 1)
         /\ t.segment \in Children(t.layer, p)
         /\ <<t.layer + 1, p>> \notin done \cup Flight
<1>1. t.layer \in Layers \ {Root} /\ t.segment \in Segment(t.layer) /\ Id(t) = <<t.layer, t.segment>>
  BY DEF JobOK, Id
<1>2. p \in Segment(t.layer + 1) /\ t.segment \in Children(t.layer, p)
  BY <1>1, ParentTyped DEF Children
<1>3. Id(t) \notin done
  BY InFlight
<1>4. Ordered(done, done \cup Flight)
  BY DEF Progress
<1> QED BY ONLY <1>1, <1>2, <1>3, <1>4 DEF Ordered

(* The segment it reads is still in the map.                                *)
LEMMA ReaderThere ==
  ASSUME TreeOK, NEW done, Progress(done), NEW slot \in Slots, NEW t, t = task[slot],
         t # NoTask, JobOK(t), t.layer # 0
  PROVE  /\ <<t.layer, t.segment>> \in DOMAIN segments
         /\ segments[<<t.layer, t.segment>>].size = Count(t.layer, t.segment) * input_size(t.layer)
<1>1. PICK l, k, s : l = t.layer - 1 /\ k = t.layer /\ s = t.segment
  OBVIOUS
<1>2. /\ l \in Layers \ {Root} /\ k = l + 1 /\ s \in Segment(l + 1)
  <2>1. k \in 0 .. Root /\ Root \in Nat /\ Layers = 0 .. Root /\ k # 0 /\ s \in Segment(k)
    BY <1>1, LayersTyped DEF JobOK, TreeOK
  <2>2. k = l + 1 /\ l \in 0 .. Root /\ l # Root
    BY ONLY <1>1, <2>1
  <2> QED BY <2>1, <2>2
<1>3. PICK c \in Segment(l) : Parent(l, c) = s
  BY <1>2, HasChild
<1>4. PICK sent, S : sent = done \cup Flight /\ S = segments
  OBVIOUS
<1>5. Ordered(done, sent) /\ Accounts(done, sent, S) /\ <<k, s>> \in sent /\ <<k, s>> \notin done
  BY <1>1, <1>4, InFlight DEF Progress, Id
<1>6. c \in Children(l, s) /\ <<l, c>> \in sent
  <2>1. c \in Children(l, s)
    BY <1>3 DEF Children
  <2>2. <<l, c>> \in done
    BY ONLY <1>2, <1>5, <2>1 DEF Ordered
  <2> QED BY <1>4, <2>1, <2>2
<1>7. <<k, s>> \in DOMAIN S /\ S[<<k, s>>].size = Count(k, s) * input_size(k)
  BY ONLY <1>2, <1>5, <1>6 DEF Accounts
<1> QED BY <1>1, <1>4, <1>7

(* A task has its inputs,                                                   *)
LEMMA ReadsInside ==
  ASSUME TreeOK, NEW done, Progress(done), NEW slot \in Slots, NEW t, t = task[slot],
         t # NoTask, JobOK(t)
  PROVE  /\ t.from[1] = "segment" => <<t.from[2], t.from[3]>> \in DOMAIN segments
         /\ t.first + t.batch * input_size(t.layer) <= BufferSize(t.from)
<1>1. PICK l, s : l = t.layer /\ s = t.segment
  OBVIOUS
<1>2. l \in Layers /\ s \in Segment(l) /\ t.batch = Count(l, s) /\ ReadsFrom(t)
  BY <1>1 DEF JobOK
<1>3. /\ Count(l, s) \in Nat /\ input_size(l) \in Nat /\ s * K \in Nat /\ s \in Nat
      /\ s * K + Count(l, s) <= nof_hashes_2_execute(l)
      /\ Count(l, s) * input_size(l) \in Nat
  <2>1. /\ Count(l, s) \in Nat /\ s * K \in Nat /\ s \in Nat
        /\ s * K + Count(l, s) <= nof_hashes_2_execute(l)
    BY <1>2, SegmentEnds
  <2>2. input_size(l) \in Nat
    BY <1>2, LayersTyped DEF TreeOK
  <2>3. Count(l, s) * input_size(l) \in Nat
    BY <2>1, <2>2
  <2> QED BY <2>1, <2>2, <2>3
<1>4. CASE /\ t.layer = 0 /\ t.from = <<"leaves">> /\ t.first = t.segment * K * input_size(t.layer)
           /\ t.segment * K * input_size(t.layer) + t.batch * input_size(0) <= tree.leaves
  BY <1>4 DEF BufferSize
<1>5. CASE /\ t.layer = 0 /\ t.from = <<"padded leaves">> /\ t.first = 0
           /\ t.batch = last_batch(0)
  <2>1. BufferSize(t.from) = last_batch(0) * input_size(0) /\ t.from[1] # "segment"
    <3>1. PICK b : b = t.from
      OBVIOUS
    <3>2. b[1] = "padded leaves"
      <4>1. \A x : <<x>>[1] = x
        OBVIOUS
      <4>2. b = <<"padded leaves">>
        BY ONLY <1>5, <3>1, Zenon
      <4> QED BY ONLY <4>1, <4>2, Zenon
    <3>3. BufferSize(b) = last_batch(0) * input_size(0) /\ b[1] # "segment"
      BY ONLY <3>2 DEF BufferSize
    <3> QED BY ONLY <3>1, <3>3
  <2>2. last_batch(0) \in Nat /\ input_size(t.layer) = input_size(0) /\ input_size(0) \in Nat
    BY <1>1, <1>2, <1>3, <1>5
  <2>3. last_batch(0) * input_size(0) \in Nat
    BY ONLY <2>2
  <2>4. t.first = 0 /\ t.batch = last_batch(0)
    BY <1>5
  <2> QED BY ONLY <2>1, <2>2, <2>3, <2>4
<1>6. CASE /\ t.layer # 0 /\ t.layer <= tree.store
           /\ t.from = <<"segment", t.layer, t.segment>> /\ t.first = 0
  <2>1. BufferSize(t.from) = segments[<<l, s>>].size
    BY <1>1, <1>6 DEF BufferSize
  <2>2. <<l, s>> \in DOMAIN segments /\ segments[<<l, s>>].size = Count(l, s) * input_size(l)
    BY <1>1, <1>6, ReaderThere
  <2> QED BY <1>1, <1>2, <1>3, <1>6, <2>1, <2>2
<1>7. CASE /\ t.layer # 0 /\ t.layer > tree.store
           /\ t.from = <<"results", t.layer - 1>>
           /\ t.first = t.segment * K * input_size(t.layer)
  <2>1. PICK k : k = l - 1
    OBVIOUS
  <2>2. BufferSize(t.from) = results_size(k) /\ t.from[1] # "segment"
    BY <1>1, <1>7, <2>1 DEF BufferSize
  <2>3. k \in Layers \ {Root} /\ k + 1 = l
    <3>1. l \in 0 .. Root /\ Root \in Nat /\ Layers = 0 .. Root /\ l # 0
      BY <1>1, <1>2, <1>7, LayersTyped DEF TreeOK
    <3>2. k \in 0 .. Root /\ k # Root /\ k + 1 = l
      BY ONLY <2>1, <3>1
    <3> QED BY <3>1, <3>2
  <2>4. results_size(k) = nof_hashes_2_execute(l) * input_size(l) /\ nof_hashes_2_execute(l) \in Nat
    BY <1>2, <2>3, TwoLayers, LayerCut
  <2>5. (s * K + Count(l, s)) * input_size(l) <= nof_hashes_2_execute(l) * input_size(l)
    BY <1>3, <2>4, MulMonotone
  <2>6. \A x, y, z \in Nat : x * z + y * z = (x + y) * z
    OBVIOUS
  <2>7. s * K * input_size(l) + Count(l, s) * input_size(l) <= results_size(k)
    BY <1>3, <2>4, <2>5, <2>6
  <2> QED BY <1>1, <1>2, <1>7, <2>2, <2>7
<1> QED BY <1>2, <1>4, <1>5, <1>6, <1>7 DEF ReadsFrom

(* and room for its outputs.                                                *)
LEMMA WritesInsideBuffer ==
  ASSUME TreeOK, NEW done, Progress(done), NEW slot \in Slots, NEW t, t = task[slot],
         t # NoTask, JobOK(t)
  PROVE  /\ t.to[1] = "segment" => <<t.to[2], t.to[3]>> \in DOMAIN segments
         /\ t.at + t.batch + t.padding <= BufferSize(t.to)
<1>1. PICK l, s, p : l = t.layer /\ s = t.segment /\ p = Parent(l, s)
  OBVIOUS
<1>2. l \in Layers /\ s \in Segment(l) /\ t.batch = Count(l, s) /\ WritesTo(t)
  BY <1>1 DEF JobOK
<1>3. /\ Count(l, s) \in Nat /\ s * K \in Nat /\ s \in Nat /\ l \in Nat
      /\ s * K + Count(l, s) <= nof_hashes_2_execute(l)
      /\ nof_hashes_2_execute(l) <= nof_hashes(l) /\ nof_hashes_2_execute(l) \in Nat
  BY <1>2, SegmentEnds, LayersTyped, LayerCut DEF TreeOK
<1>4. CASE t.layer = Root /\ t.to = <<"results", t.layer>> /\ t.at = 0 /\ t.padding = 0
  <2>1. BufferSize(t.to) = results_size(l) /\ t.to[1] # "segment"
    BY <1>1, <1>4 DEF BufferSize
  <2>2. results_size(l) = 1 /\ nof_hashes(l) = 1
    BY <1>1, <1>4, HashesRec DEF results_size, TreeOK
  <2> QED BY <1>1, <1>2, <1>3, <1>4, <2>1, <2>2
<1>5. ASSUME t.layer # Root, t.next = Parent(t.layer, t.segment),
             t.padding = Pad(t.layer, t.segment)
      PROVE  /\ l \in Layers \ {Root} /\ t.next = p /\ t.padding = Pad(l, s) /\ Pad(l, s) \in Nat
             /\ s # max_segment(l) => Pad(l, s) = 0
             /\ s = max_segment(l) => s * K + Count(l, s) + Pad(l, s) = results_size(l)
             /\ nof_hashes_2_execute(l) <= results_size(l) /\ results_size(l) \in Nat
  BY <1>1, <1>2, <1>5, PadFacts, TwoLayers
<1>6. CASE /\ t.layer # Root /\ t.next = Parent(t.layer, t.segment)
           /\ t.padding = Pad(t.layer, t.segment)
           /\ t.layer < tree.store /\ t.to = <<"segment", t.layer + 1, t.next>>
           /\ t.at = (t.segment * K) % (K * input_size(t.layer + 1))
  <2> DEFINE a == input_size(l + 1)
  <2>1. BufferSize(t.to) = segments[<<l + 1, p>>].size
    BY <1>1, <1>6 DEF BufferSize
  <2>2. /\ p \in Segment(l + 1) /\ s \in Children(l, p) /\ <<l + 1, p>> \notin done \cup Flight
        /\ l \in Layers \ {Root}
    BY <1>1, <1>6, WriterFirst
  <2>3. <<l + 1, p>> \in DOMAIN segments /\ segments[<<l + 1, p>>].size = Count(l + 1, p) * a
    <3>1. PICK sent, S : sent = done \cup Flight /\ S = segments
      OBVIOUS
    <3>2. Accounts(done, sent, S) /\ <<l, s>> \in sent
      BY <1>1, <3>1, InFlight DEF Progress, Id
    <3>3. <<l + 1, p>> \notin done
      BY <2>2
    <3>4. <<l + 1, p>> \in DOMAIN S /\ S[<<l + 1, p>>].size = Count(l + 1, p) * a
      BY ONLY <2>2, <3>2, <3>3 DEF Accounts
    <3> QED BY <3>1, <3>4
  <2>4. /\ p * K * a \in Nat /\ Count(l + 1, p) * a \in Nat
        /\ p * K * a <= s * K
        /\ s * K + Count(l, s) + Pad(l, s) <= p * K * a + Count(l + 1, p) * a
    BY <1>1, <1>2, <2>2, WritesInside
  <2>5. a \in Nat \ {0} /\ p \in Nat /\ K \in Nat \ {0}
    BY <2>2, TwoLayers, SegmentEnds, MerkleAssumption
  <2>6. K * a \in Nat \ {0} /\ p * (K * a) = p * K * a
    <3>1. \A x, y \in Nat \ {0} : x * y \in Nat \ {0}
      OBVIOUS
    <3>2. \A x, y, z \in Nat : x * (y * z) = x * y * z
      OBVIOUS
    <3> HIDE DEF a
    <3> QED BY <2>5, <3>1, <3>2
  <2>7. PICK b, o : b = K * a /\ o = s * K - p * K * a
    OBVIOUS
  <2> HIDE DEF a
  <2>8. o \in Nat /\ s * K = p * b + o
    BY <1>3, <2>4, <2>6, <2>7
  <2>9. (p * b + o) % b <= o /\ (p * b + o) % b \in Nat
    BY <2>5, <2>6, <2>7, <2>8, ModBound
  <2>10. t.at <= o /\ t.at \in Nat
    BY <1>1, <1>6, <2>7, <2>8, <2>9 DEF a
  <2>11. o + Count(l, s) + Pad(l, s) <= Count(l + 1, p) * a
    BY <1>3, <1>5, <1>6, <2>4, <2>7
  <2>12. t.at + t.batch + t.padding <= BufferSize(t.to)
    <3>1. t.batch = Count(l, s) /\ t.padding = Pad(l, s) /\ Pad(l, s) \in Nat
      BY <1>2, <1>5, <1>6
    <3>2. BufferSize(t.to) = Count(l + 1, p) * a /\ Count(l + 1, p) * a \in Nat
      BY <2>1, <2>3, <2>4 DEF a
    <3>3. Count(l, s) \in Nat
      BY <1>3
    <3> QED BY ONLY <2>8, <2>10, <2>11, <3>1, <3>2, <3>3
  <2>13. <<t.to[2], t.to[3]>> = <<l + 1, p>>
    BY <1>1, <1>5, <1>6
  <2> QED BY <2>3, <2>12, <2>13
<1>7. CASE /\ t.layer # Root /\ t.next = Parent(t.layer, t.segment)
           /\ t.padding = Pad(t.layer, t.segment)
           /\ t.layer >= tree.store /\ t.to = <<"results", t.layer>> /\ t.at = t.segment * K
  <2>1. BufferSize(t.to) = results_size(l) /\ t.to[1] # "segment"
    BY <1>1, <1>7 DEF BufferSize
  <2> QED BY <1>1, <1>2, <1>3, <1>5, <1>7, <2>1
<1> QED BY <1>2, <1>4, <1>6, <1>7 DEF WritesTo

(* Every task reads and writes inside buffers that are there, in whatever   *)
(* order the workers complete the segments.                                 *)
THEOREM InsideAlways == Spec => []TasksInside
<1>1. IndInv => TasksInside
  <2> SUFFICES ASSUME IndInv, NEW slot \in Slots, Ready(slot), NEW t, t = task[slot]
               PROVE  /\ \A b \in {t.from, t.to} : b[1] = "segment" => <<b[2], b[3]>> \in DOMAIN segments
                      /\ t.first + t.batch * input_size(t.layer) <= BufferSize(t.from)
                      /\ t.at + t.batch + t.padding <= BufferSize(t.to)
    BY DEF TasksInside
  <2>1. t # NoTask
    BY DEF Ready
  <2>2. TreeOK /\ JobOK(t) /\ \E done : Progress(done)
    BY <2>1 DEF IndInv, Running, Created, Jobs
  <2>3. PICK done : Progress(done)
    BY <2>2
  <2>4. /\ t.from[1] = "segment" => <<t.from[2], t.from[3]>> \in DOMAIN segments
        /\ t.first + t.batch * input_size(t.layer) <= BufferSize(t.from)
    BY <2>1, <2>2, <2>3, ReadsInside
  <2>5. /\ t.to[1] = "segment" => <<t.to[2], t.to[3]>> \in DOMAIN segments
        /\ t.at + t.batch + t.padding <= BufferSize(t.to)
    BY <2>1, <2>2, <2>3, WritesInsideBuffer
  <2> QED BY <2>4, <2>5
<1> QED BY <1>1, Invariant, PTL

(* What a place holds changes only with the results or the segment it is in.*)
Kinds == {"leaves", "padded leaves", "results", "segment"}
LEMMA ContentKept ==
  ASSUME tree' = tree, NEW b, NEW i,
         b[1] \in Kinds,
         b[1] = "results" => m_results'[b[2]][i] = m_results[b[2]][i],
         b[1] = "segment" => segments'[<<b[2], b[3]>>].m_input_data[i]
                               = segments[<<b[2], b[3]>>].m_input_data[i]
  PROVE  Content(b, i)' = Content(b, i)
<1>1. CASE b[1] = "leaves"
  BY <1>1 DEF Content
<1>2. CASE b[1] = "padded leaves"
  <2>1. padded_leaves(i)' = padded_leaves(i)
    <3>1. Padding' = Padding
      BY DEF Padding
    <3>2. input_size(0)' = input_size(0)
      BY Frame
    <3> QED BY <3>1, <3>2 DEF padded_leaves
  <2>2. Content(b, i) = padded_leaves(i)
    BY ONLY <1>2 DEF Content
  <2>3. Content(b, i)' = padded_leaves(i)'
    BY ONLY <1>2 DEF Content
  <2> QED BY ONLY <2>1, <2>2, <2>3
<1>3. CASE b[1] = "results"
  BY <1>3 DEF Content
<1>4. CASE b[1] = "segment"
  BY <1>4 DEF Content
<1> QED BY <1>1, <1>2, <1>3, <1>4 DEF Kinds

(* The inputs of a task are what is at its places.                          *)
LEMMA InputsKept ==
  ASSUME tree' = tree, NEW slot, NEW t, t = task[slot], task'[slot] = t,
         \A i \in 0 .. t.batch * input_size(t.layer) - 1 :
           Content(t.from, t.first + i)' = Content(t.from, t.first + i)
  PROVE  Inputs(task[slot])' = Inputs(task[slot])
<1>1. Inputs(t)' = Inputs(t)
  BY Frame DEF Inputs
<1>2. Inputs(task[slot])' = Inputs(t)'
  BY DEF Inputs
<1> QED BY <1>1, <1>2

(* The calling thread leaves the other slots and the data of the segments   *)
(* alone, apart from the one it forgets.                                    *)
Kept(x, S) ==
  /\ \A y \in Slots \ {x} : task'[y] = task[y]
  /\ \A id \in DOMAIN S : DOMAIN S[id] = {"ready", "size", "m_input_data"}
                            => segments'[id].m_input_data = S[id].m_input_data

LEMMA DispatchKeeps ==
  ASSUME DOMAIN task = Slots, NEW x \in Slots, NEW l, NEW s, NEW from, NEW first, NEW S,
         dispatch_task(x, l, s, from, first, S)
  PROVE  Kept(x, S)
<1>1. \E job : task' = [task EXCEPT ![x] = job]
  BY Zenon DEF dispatch_task
<1>2. \E id, n : segments' = S \/ segments' = segment_db(S, id, l, s, n)
  BY Zenon DEF dispatch_task
<1>3. \A y \in Slots \ {x} : task'[y] = task[y]
  BY <1>1
<1>4. PICK id, n : segments' = S \/ segments' = segment_db(S, id, l, s, n)
  BY <1>2
<1>5. ASSUME NEW i \in DOMAIN S, DOMAIN S[i] = {"ready", "size", "m_input_data"},
             segments' = segment_db(S, id, l, s, n)
      PROVE  segments'[i].m_input_data = S[i].m_input_data
  <2>1. PICK new : segments' = [y \in DOMAIN S \cup {id} |->
                                 IF y = id THEN [(IF id \in DOMAIN S THEN S[id] ELSE new)
                                                   EXCEPT !.ready = @ + n]
                                 ELSE S[y]]
    BY <1>5, Zenon DEF segment_db
  <2>2. i \in DOMAIN S \cup {id}
    OBVIOUS
  <2>3. segments'[i] = IF i = id THEN [(IF id \in DOMAIN S THEN S[id] ELSE new)
                                         EXCEPT !.ready = @ + n]
                       ELSE S[i]
    BY ONLY <2>1, <2>2
  <2>4. segments'[i] = S[i] \/ segments'[i] = [S[i] EXCEPT !.ready = @ + n]
    BY <2>3
  <2>5. [S[i] EXCEPT !.ready = @ + n].m_input_data = S[i].m_input_data
    BY ONLY <1>5
  <2> QED BY ONLY <2>4, <2>5
<1> QED BY <1>3, <1>4, <1>5 DEF Kept

LEMMA SendKeeps ==
  ASSUME DOMAIN task = Slots, NEW x \in Slots, NEW S, SendLeaves(x, S)
  PROVE  Kept(x, S)
<1>1. CASE task' = [task EXCEPT ![x] = NoTask] /\ segments' = S
  BY <1>1 DEF Kept
<1>2. CASE \E from, first : dispatch_task(x, 0, l0_segment_idx, from, first, S)
  BY <1>2, DispatchKeeps
<1>3. \/ task' = [task EXCEPT ![x] = NoTask] /\ segments' = S
      \/ \E from, first : dispatch_task(x, 0, l0_segment_idx, from, first, S)
  BY Zenon DEF SendLeaves
<1> QED BY <1>1, <1>2, <1>3

LEMMA ThreadKeeps ==
  ASSUME DOMAIN task = Slots, NEW x \in Slots, UseIdle(x) \/ UseCompleted(x),
         \A id \in DOMAIN segments : DOMAIN segments[id] = {"ready", "size", "m_input_data"}
  PROVE  /\ tree' = tree /\ m_results' = m_results
         /\ \A y \in Slots \ {x} : task'[y] = task[y]
         /\ \A id \in DOMAIN segments :
              task[x] = NoTask \/ Id(task[x]) # id
                => segments'[id].m_input_data = segments[id].m_input_data
         /\ task[x] = NoTask \/ task[x].status = "COMPLETED"
<1>1. tree' = tree /\ m_results' = m_results
  BY DEF UseIdle, UseCompleted
<1>2. CASE UseIdle(x)
  <2>1. SendLeaves(x, segments) /\ task[x] = NoTask
    BY <1>2 DEF UseIdle
  <2>2. PICK S : S = segments
    OBVIOUS
  <2>3. Kept(x, S)
    BY <2>1, <2>2, SendKeeps
  <2> QED BY <1>1, <2>1, <2>2, <2>3 DEF Kept
<1>3. CASE UseCompleted(x)
  <2>1. PICK t : t = task[x]
    OBVIOUS
  <2>2. PICK S : S = MapWithout(t)
    OBVIOUS
  <2>3. t # NoTask /\ t.status = "COMPLETED"
    BY <1>3, <2>1 DEF UseCompleted
  <2>4. \/ UNCHANGED <<task, segments>>
        \/ \E l, s, from, first : dispatch_task(x, l, s, from, first, S)
        \/ SendLeaves(x, S)
    BY <1>3, <2>1, <2>2, Zenon DEF UseCompleted, MapWithout, Id
  <2>5. CASE UNCHANGED <<task, segments>>
    BY <1>1, <2>1, <2>3, <2>5
  <2>6. ASSUME Kept(x, S)
        PROVE  /\ \A y \in Slots \ {x} : task'[y] = task[y]
               /\ \A id \in DOMAIN segments :
                    Id(t) # id => segments'[id].m_input_data = segments[id].m_input_data
    <3> SUFFICES ASSUME NEW id \in DOMAIN segments, Id(t) # id
                 PROVE  segments'[id].m_input_data = segments[id].m_input_data
      BY <2>6 DEF Kept
    <3>1. DOMAIN segments[id] = {"ready", "size", "m_input_data"}
      OBVIOUS
    <3>2. id \in DOMAIN S /\ (S[id] = segments[id] \/ S[id] = [segments[id] EXCEPT !.ready = @ + t.batch])
      BY <2>2 DEF MapWithout
    <3>3. DOMAIN S[id] = {"ready", "size", "m_input_data"} /\ S[id].m_input_data = segments[id].m_input_data
      BY ONLY <3>1, <3>2
    <3> QED BY <2>6, <3>2, <3>3 DEF Kept
  <2>7. CASE \E l, s, from, first : dispatch_task(x, l, s, from, first, S)
    <3>1. Kept(x, S)
      BY <2>7, DispatchKeeps
    <3> QED BY ONLY <1>1, <2>1, <2>3, <2>6, <3>1
  <2>8. CASE SendLeaves(x, S)
    <3>1. Kept(x, S)
      BY <2>8, SendKeeps
    <3> QED BY ONLY <1>1, <2>1, <2>3, <2>6, <3>1
  <2> QED BY <2>4, <2>5, <2>7, <2>8
<1> QED BY <1>2, <1>3

(* Another task writes to a place this one reads only before this one is    *)
(* sent.                                                                    *)
LEMMA WriterApart ==
  ASSUME TreeOK, NEW done, Progress(done), NEW slot \in Slots, NEW t, t = task[slot],
         t # NoTask, JobOK(t), NEW x \in Slots, NEW w, w = task[x], w # NoTask, JobOK(w),
         w.layer + 1 = t.layer
  PROVE  w.layer \in Layers \ {Root} /\ Parent(w.layer, w.segment) # t.segment
<1>1. PICK l, s, p : l = w.layer /\ s = t.segment /\ p = Parent(w.layer, w.segment)
  OBVIOUS
<1>2. l \in Layers \ {Root}
  <2>1. w.layer \in 0 .. Root /\ t.layer \in 0 .. Root /\ Root \in Nat /\ Layers = 0 .. Root
    BY LayersTyped DEF JobOK, TreeOK
  <2>2. w.layer # Root
    BY ONLY <2>1, w.layer + 1 = t.layer
  <2> QED BY <1>1, <2>1, <2>2
<1>3. /\ p \in Segment(l + 1) /\ w.segment \in Children(l, p)
      /\ <<l + 1, p>> \notin done \cup Flight
  BY <1>1, <1>2, WriterFirst
<1>4. Id(t) \in done \cup Flight /\ Id(t) = <<l + 1, s>>
  BY <1>1, InFlight DEF Id
<1> QED BY <1>1, <1>2, <1>3, <1>4

(* A buffer tells of which layer it is.                                     *)
LEMMA ReadsShape ==
  ASSUME NEW t, ReadsFrom(t)
  PROVE  /\ t.from[1] \in Kinds
         /\ t.from[1] = "results" =>
              /\ t.layer # 0 /\ t.from = <<"results", t.layer - 1>>
              /\ t.first = t.segment * K * input_size(t.layer)
         /\ t.from[1] = "segment" => t.layer # 0 /\ t.from = <<"segment", t.layer, t.segment>>
<1>1. CASE t.layer = 0 /\ t.from = <<"leaves">>
  BY ONLY <1>1 DEF Kinds
<1>2. CASE t.layer = 0 /\ t.from = <<"padded leaves">>
  <2>1. t.from[1] = "padded leaves"
    <3>1. \A x : <<x>>[1] = x
      OBVIOUS
    <3> QED BY ONLY <1>2, <3>1, Zenon
  <2>2. PICK f : f = t.from[1]
    OBVIOUS
  <2>3. f # "results" /\ f # "segment" /\ f \in Kinds
    BY ONLY <2>1, <2>2 DEF Kinds
  <2> QED BY ONLY <2>2, <2>3
<1>3. CASE t.layer # 0 /\ t.from = <<"segment", t.layer, t.segment>>
  BY ONLY <1>3 DEF Kinds
<1>4. CASE /\ t.layer # 0 /\ t.from = <<"results", t.layer - 1>>
           /\ t.first = t.segment * K * input_size(t.layer)
  BY ONLY <1>4 DEF Kinds
<1>5. \/ t.layer = 0 /\ t.from = <<"leaves">>
      \/ t.layer = 0 /\ t.from = <<"padded leaves">>
      \/ t.layer # 0 /\ t.from = <<"segment", t.layer, t.segment>>
      \/ /\ t.layer # 0 /\ t.from = <<"results", t.layer - 1>>
         /\ t.first = t.segment * K * input_size(t.layer)
  BY Zenon DEF ReadsFrom
<1> QED BY ONLY <1>1, <1>2, <1>3, <1>4, <1>5, Zenon

LEMMA WritesShape ==
  ASSUME NEW t, WritesTo(t)
  PROVE  /\ t.to[1] \in {"results", "segment"}
         /\ t.to[1] = "results" =>
              /\ t.to = <<"results", t.layer>>
              /\ \/ t.layer = Root
                 \/ t.padding = Pad(t.layer, t.segment) /\ t.at = t.segment * K
         /\ t.to[1] = "segment" =>
              /\ t.layer # Root /\ t.next = Parent(t.layer, t.segment)
              /\ t.to = <<"segment", t.layer + 1, t.next>>
BY DEF WritesTo

(* A place in the results that a task reads is not one that another writes. *)
LEMMA ResultsApart ==
  ASSUME TreeOK, NEW done, Progress(done), NEW slot \in Slots, NEW t, t = task[slot],
         t # NoTask, JobOK(t), NEW x \in Slots, NEW w, w = task[x], w # NoTask, JobOK(w),
         NEW k, t.from = <<"results", k>>, w.to = <<"results", k>>,
         NEW i \in 0 .. t.batch * input_size(t.layer) - 1
  PROVE  (t.first + i) - w.at \notin 0 .. w.batch + w.padding - 1
<1>1. PICK l, s : l = t.layer /\ s = t.segment
  OBVIOUS
<1>2. l # 0 /\ k = l - 1 /\ t.first = s * K * input_size(l)
  <2>1. t.from[1] = "results" /\ t.from[2] = k
    OBVIOUS
  <2>2. /\ t.layer # 0 /\ t.from = <<"results", t.layer - 1>>
        /\ t.first = t.segment * K * input_size(t.layer)
    BY <2>1, ReadsShape DEF JobOK
  <2> QED BY <1>1, <2>1, <2>2
<1>3. w.layer = k /\ (w.layer = Root \/ (w.padding = Pad(w.layer, w.segment) /\ w.at = w.segment * K))
  <2>1. w.to[1] = "results" /\ w.to[2] = k
    OBVIOUS
  <2>2. /\ w.to = <<"results", w.layer>>
        /\ w.layer = Root \/ (w.padding = Pad(w.layer, w.segment) /\ w.at = w.segment * K)
    BY <2>1, WritesShape DEF JobOK
  <2> QED BY <2>1, <2>2
<1>4. l \in Nat /\ w.layer + 1 = l
  BY <1>1, <1>2, <1>3, LayersTyped DEF JobOK, TreeOK
<1>5. PICK c, p : c = w.segment /\ p = Parent(w.layer, w.segment)
  OBVIOUS
<1>6. k \in Layers \ {Root} /\ p # s
  BY <1>1, <1>3, <1>4, <1>5, WriterApart
<1>7. /\ w.padding = Pad(k, c) /\ w.at = c * K /\ w.batch = Count(k, c)
      /\ c \in Segment(k) /\ t.batch = Count(l, s) /\ s \in Segment(l)
      /\ p = Parent(k, c) /\ l \in Layers /\ k + 1 = l
  BY <1>1, <1>3, <1>4, <1>5, <1>6 DEF JobOK
<1>8. /\ c * K \in Nat /\ Count(k, c) \in Nat /\ Pad(k, c) \in Nat
      /\ s * K * input_size(l) \in Nat /\ Count(l, s) * input_size(l) \in Nat
  <2>1. c * K \in Nat /\ Count(k, c) \in Nat /\ Pad(k, c) \in Nat
    BY <1>6, <1>7, SegmentEnds, PadFacts
  <2>2. s * K \in Nat /\ Count(l, s) \in Nat /\ input_size(l) \in Nat
    BY <1>7, SegmentEnds, LayersTyped DEF TreeOK
  <2> QED BY <2>1, <2>2
<1>9. PICK j : j = t.first + i
  OBVIOUS
<1>10. j \in Reads(l, s)
  <2>1. i \in 0 .. Count(l, s) * input_size(l) - 1
    BY <1>1, <1>7
  <2>2. j = s * K * input_size(l) + i
    BY <1>2, <1>9
  <2> QED BY ONLY <1>8, <2>1, <2>2 DEF Reads
<1>11. j - w.at \in 0 .. w.batch + w.padding - 1 => j \in Outputs(k, c) \cup PadPlaces(k, c)
  <2>1. j \in Nat
    BY <1>8, <1>10 DEF Reads
  <2>2. j - c * K \in 0 .. Count(k, c) + Pad(k, c) - 1
          => j \in c * K .. c * K + Count(k, c) + Pad(k, c) - 1
    BY ONLY <1>8, <2>1
  <2>3. c * K .. c * K + Count(k, c) + Pad(k, c) - 1 \subseteq Outputs(k, c) \cup PadPlaces(k, c)
    BY ONLY <1>8 DEF Outputs, PadPlaces
  <2> QED BY <1>7, <2>2, <2>3
<1>12. j \in Outputs(k, c) \cup PadPlaces(k, c) => j \in Reads(l, p)
  BY <1>6, <1>7, WritesAreReads
<1>13. p \in Segment(l)
  BY <1>6, <1>7, ParentTyped
<1> QED BY <1>6, <1>7, <1>9, <1>10, <1>11, <1>12, <1>13, ReadsApart

(* A worker's step leaves what the other tasks read.                        *)
LEMMA ExecuteKeeps ==
  ASSUME TreeOK, Memory, NEW done, Progress(done), NEW slot \in Slots, NEW t, t = task[slot],
         t # NoTask, JobOK(t), NEW x \in Slots \ {slot}, JobOK(task[x]), Execute(x),
         NEW i \in 0 .. t.batch * input_size(t.layer) - 1
  PROVE  Content(t.from, t.first + i)' = Content(t.from, t.first + i)
<1>1. PICK w : w = task[x]
  OBVIOUS
<1>2. w # NoTask /\ tree' = tree /\ JobOK(w)
  BY <1>1 DEF Execute
<1>3. PICK j : j = t.first + i
  OBVIOUS
<1>4. /\ t.from[1] \in Kinds
      /\ t.from[1] = "results" =>
           /\ t.layer # 0 /\ t.from = <<"results", t.layer - 1>>
           /\ t.first = t.segment * K * input_size(t.layer)
      /\ t.from[1] = "segment" => t.layer # 0 /\ t.from = <<"segment", t.layer, t.segment>>
  BY ReadsShape DEF JobOK
<1>5. /\ w.to[1] \in {"results", "segment"}
      /\ w.to[1] = "results" =>
           /\ w.to = <<"results", w.layer>>
           /\ \/ w.layer = Root
              \/ w.padding = Pad(w.layer, w.segment) /\ w.at = w.segment * K
      /\ w.to[1] = "segment" =>
           /\ w.layer # Root /\ w.next = Parent(w.layer, w.segment)
           /\ w.to = <<"segment", w.layer + 1, w.next>>
  BY <1>2, WritesShape DEF JobOK
<1>6. ASSUME t.from[1] = "results"
      PROVE  m_results'[t.from[2]][j] = m_results[t.from[2]][j]
  <2>1. PICK k : k = t.layer - 1
    OBVIOUS
  <2>2. t.from = <<"results", k>> /\ t.from[2] = k
    BY <1>4, <1>6, <2>1
  <2>3. CASE w.to[1] # "results"
    <3>1. m_results' = m_results
      BY <1>1, <2>3 DEF Execute
    <3> QED BY <2>2, <3>1
  <2>4. CASE w.to[1] = "results" /\ w.layer # k
    <3>1. w.to[2] = w.layer
      BY <1>5, <2>4
    <3>2. \E new : m_results' = [m_results EXCEPT ![w.layer] = new]
      <4>1. PICK to : to = w.to[2]
        OBVIOUS
      <4>2. \E new : m_results' = [m_results EXCEPT ![to] = new]
        BY <1>1, <2>4, <4>1, Zenon DEF Execute
      <4> QED BY <3>1, <4>1, <4>2
    <3>3. PICK new : m_results' = [m_results EXCEPT ![w.layer] = new]
      BY <3>2
    <3>4. m_results'[k] = m_results[k]
      <4>1. k \in DOMAIN m_results
        <5>1. t.layer \in 0 .. Root /\ Root \in Nat /\ Layers = 0 .. Root /\ t.layer # 0
          BY <1>4, <1>6, LayersTyped DEF JobOK, TreeOK
        <5>2. k \in Layers
          BY ONLY <2>1, <5>1
        <5> QED BY <5>2 DEF Memory
      <4> QED BY ONLY <2>4, <3>3, <4>1
    <3> QED BY <2>2, <3>4
  <2>5. CASE w.to[1] = "results" /\ w.layer = k
    <3>1. w.to = <<"results", k>> /\ w.to[2] = k
      BY <1>5, <2>5
    <3>2. j - w.at \notin 0 .. w.batch + w.padding - 1
      BY <1>1, <1>2, <1>3, <2>2, <3>1, ResultsApart
    <3>3. \E g : m_results' = [m_results EXCEPT ![k] =
                   [q \in DOMAIN m_results[k] |->
                     IF q - w.at \in 0 .. w.batch + w.padding - 1
                       THEN g[Least(q - w.at, w.batch - 1)] ELSE m_results[k][q]]]
      <4> DEFINE output == [h \in 0 .. w.batch - 1 |->
                             Hash(w.layer, [q \in 0 .. input_size(w.layer) - 1 |->
                                             Inputs(w)[h * input_size(w.layer) + q]])]
      <4>1. PICK to : to = w.to[2]
        OBVIOUS
      <4>2. m_results' = [m_results EXCEPT ![to] =
              [q \in DOMAIN m_results[to] |->
                IF q - w.at \in 0 .. w.batch + w.padding - 1
                  THEN output[Least(q - w.at, w.batch - 1)] ELSE m_results[to][q]]]
        BY <1>1, <2>5, <4>1 DEF Execute
      <4>3. to = k
        BY <3>1, <4>1
      <4> HIDE DEF output
      <4> QED BY ONLY <4>2, <4>3
    <3>4. PICK g : m_results' = [m_results EXCEPT ![k] =
                     [q \in DOMAIN m_results[k] |->
                       IF q - w.at \in 0 .. w.batch + w.padding - 1
                         THEN g[Least(q - w.at, w.batch - 1)] ELSE m_results[k][q]]]
      BY <3>3
    <3>5. k \in DOMAIN m_results
      BY <1>2, <2>5 DEF Memory, JobOK
    <3>6. m_results'[k] = [q \in DOMAIN m_results[k] |->
                            IF q - w.at \in 0 .. w.batch + w.padding - 1
                              THEN g[Least(q - w.at, w.batch - 1)] ELSE m_results[k][q]]
      BY ONLY <3>4, <3>5
    <3>7. j \in DOMAIN m_results[k]
      <4>1. /\ t.first + t.batch * input_size(t.layer) <= BufferSize(t.from)
        BY <1>2, ReadsInside
      <4>2. BufferSize(t.from) = results_size(k)
        BY <2>2 DEF BufferSize
      <4>3. DOMAIN m_results[k] = 0 .. results_size(k) - 1
        BY <1>2, <2>5 DEF Memory, JobOK
      <4>4. t.first \in Nat /\ t.batch \in Nat /\ input_size(t.layer) \in Nat
        BY LayersTyped DEF JobOK, HashTasks, TreeOK
      <4>5. PICK a : a = t.batch * input_size(t.layer)
        OBVIOUS
      <4>6. a \in Nat
        BY <4>4, <4>5
      <4>7. results_size(k) \in Nat
        <5>1. k \in Layers \ {Root}
          <6>1. t.layer \in 0 .. Root /\ Root \in Nat /\ Layers = 0 .. Root /\ t.layer # 0
            BY <1>4, <1>6, LayersTyped DEF JobOK, TreeOK
          <6>2. k \in Layers /\ k # Root
            BY ONLY <2>1, <6>1
          <6> QED BY <6>2
        <5> QED BY <5>1, TwoLayers
      <4>8. i \in 0 .. a - 1
        BY <4>5
      <4>9. t.first + a <= results_size(k)
        BY <4>1, <4>2, <4>5
      <4>10. t.first \in Nat
        BY <4>4
      <4> QED BY ONLY <1>3, <4>3, <4>6, <4>7, <4>8, <4>9, <4>10
    <3>8. m_results'[k][j] = m_results[k][j]
      BY ONLY <3>2, <3>6, <3>7
    <3> QED BY <2>2, <3>8
  <2> QED BY <2>3, <2>4, <2>5
<1>7. ASSUME t.from[1] = "segment"
      PROVE  segments'[<<t.from[2], t.from[3]>>].m_input_data[j]
               = segments[<<t.from[2], t.from[3]>>].m_input_data[j]
  <2>1. PICK id : id = <<t.layer, t.segment>>
    OBVIOUS
  <2>2. <<t.from[2], t.from[3]>> = id
    BY <1>4, <1>7, <2>1
  <2>3. CASE w.to[1] = "results"
    <3>1. segments' = segments
      BY <1>1, <2>3 DEF Execute
    <3> QED BY <2>2, <3>1
  <2>4. CASE w.to[1] = "segment"
    <3>1. PICK to : to = <<w.to[2], w.to[3]>>
      OBVIOUS
    <3>2. PICK new : segments' = [segments EXCEPT ![to].m_input_data = new]
      <4>1. w.to[1] # "results"
        BY <2>4
      <4>2. \E new : segments' = [segments EXCEPT ![to].m_input_data = new]
        BY <1>1, <3>1, <4>1, Zenon DEF Execute
      <4> QED BY <4>2
    <3>3. to # id
      <4>1. to = <<w.layer + 1, Parent(w.layer, w.segment)>>
        BY <1>5, <2>4, <3>1
      <4>2. w.layer + 1 = t.layer => Parent(w.layer, w.segment) # t.segment
        BY <1>1, <1>2, WriterApart
      <4> QED BY <2>1, <4>1, <4>2
    <3>4. id \in DOMAIN segments
      BY <1>4, <1>7, <2>1, ReaderThere
    <3>5. segments'[id] = segments[id]
      BY ONLY <3>2, <3>3, <3>4
    <3> QED BY <2>2, <3>5
  <2> QED BY <1>5, <2>3, <2>4
<1>8. Content(t.from, j)' = Content(t.from, j)
  <2>1. PICK b : b = t.from
    OBVIOUS
  <2>2. b[1] \in Kinds
    BY <1>4, <2>1
  <2>3. b[1] = "results" => m_results'[b[2]][j] = m_results[b[2]][j]
    BY ONLY <1>6, <2>1
  <2>4. b[1] = "segment" => segments'[<<b[2], b[3]>>].m_input_data[j]
                              = segments[<<b[2], b[3]>>].m_input_data[j]
    BY ONLY <1>7, <2>1
  <2>5. tree' = tree
    BY <1>2
  <2>6. Content(b, j)' = Content(b, j)
    BY ONLY <2>2, <2>3, <2>4, <2>5, ContentKept
  <2> QED BY ONLY <2>1, <2>6
<1> QED BY <1>3, <1>8

(* In a step a task that stays ready keeps its inputs.                      *)
LEMMA InputsSteady ==
  ASSUME IndInv, [Next]_vars, NEW slot \in Slots, Ready(slot), Ready(slot)'
  PROVE  Inputs(task[slot])' = Inputs(task[slot])
<1>1. PICK t : t = task[slot]
  OBVIOUS
<1>2. t # NoTask /\ t.status = "READY" /\ task'[slot].status = "READY"
  BY <1>1 DEF Ready
<1>3. TreeOK /\ Memory /\ Jobs /\ JobOK(t) /\ state \in {"building", "built"} /\ \E done : Progress(done)
  BY <1>1, <1>2 DEF IndInv, Running, Created, Jobs
<1>4. PICK done : Progress(done)
  BY <1>3
<1>5. DOMAIN task = Slots
  BY <1>3 DEF Memory
<1>6. ASSUME UNCHANGED vars
      PROVE  Inputs(task[slot])' = Inputs(task[slot])
  <2>1. tree' = tree /\ task' = task /\ m_results' = m_results /\ segments' = segments
    BY <1>6 DEF vars
  <2>2. \A i \in 0 .. t.batch * input_size(t.layer) - 1 :
          Content(t.from, t.first + i)' = Content(t.from, t.first + i)
    <3> SUFFICES ASSUME NEW i PROVE Content(t.from, t.first + i)' = Content(t.from, t.first + i)
      OBVIOUS
    <3>1. t.from[1] \in Kinds
      BY <1>3, ReadsShape DEF JobOK
    <3>2. PICK b, j : b = t.from /\ j = t.first + i
      OBVIOUS
    <3>3. b[1] \in Kinds
      BY <3>1, <3>2
    <3>4. b[1] = "results" => m_results'[b[2]][j] = m_results[b[2]][j]
      BY ONLY <2>1
    <3>5. b[1] = "segment" => segments'[<<b[2], b[3]>>].m_input_data[j]
                                = segments[<<b[2], b[3]>>].m_input_data[j]
      BY ONLY <2>1
    <3>6. Content(b, j)' = Content(b, j)
      BY ONLY <2>1, <3>3, <3>4, <3>5, ContentKept
    <3> QED BY ONLY <3>2, <3>6
  <2> QED BY <1>1, <2>1, <2>2, InputsKept
<1>7. ~Build
  BY <1>3 DEF Build
<1>8. ASSUME NEW x \in Slots, UseIdle(x) \/ UseCompleted(x)
      PROVE  Inputs(task[slot])' = Inputs(task[slot])
  <2>1. \A id \in DOMAIN segments : DOMAIN segments[id] = {"ready", "size", "m_input_data"}
    BY <1>4 DEF Progress, Accounts
  <2>2. /\ tree' = tree /\ m_results' = m_results
        /\ \A y \in Slots \ {x} : task'[y] = task[y]
        /\ \A id \in DOMAIN segments :
             task[x] = NoTask \/ Id(task[x]) # id
               => segments'[id].m_input_data = segments[id].m_input_data
        /\ task[x] = NoTask \/ task[x].status = "COMPLETED"
    BY <1>5, <1>8, <2>1, ThreadKeeps
  <2>3. x # slot /\ task'[slot] = t
    BY <1>1, <1>2, <2>2
  <2>4. ASSUME NEW i
        PROVE  Content(t.from, t.first + i)' = Content(t.from, t.first + i)
    <3>1. /\ t.from[1] \in Kinds
          /\ t.from[1] = "segment" => t.layer # 0 /\ t.from = <<"segment", t.layer, t.segment>>
      BY <1>3, ReadsShape DEF JobOK
    <3>2. PICK b, j : b = t.from /\ j = t.first + i
      OBVIOUS
    <3>3. ASSUME b[1] = "segment"
          PROVE  segments'[<<b[2], b[3]>>].m_input_data = segments[<<b[2], b[3]>>].m_input_data
      <4>1. PICK id : id = <<t.layer, t.segment>>
        OBVIOUS
      <4>2. <<b[2], b[3]>> = id /\ t.layer # 0
        BY <3>1, <3>2, <3>3, <4>1
      <4>3. id \in DOMAIN segments
        BY <1>1, <1>2, <1>3, <1>4, <4>1, <4>2, ReaderThere
      <4>4. task[x] = NoTask \/ Id(task[x]) # id
        <5>1. Id(t) = id
          BY <4>1 DEF Id
        <5> QED BY <1>1, <1>2, <1>4, <2>3, <5>1 DEF Progress, Single
      <4> QED BY <2>2, <4>2, <4>3, <4>4
    <3>4. Content(b, j)' = Content(b, j)
      <4>1. b[1] \in Kinds
        BY <3>1, <3>2
      <4>2. b[1] = "results" => m_results'[b[2]][j] = m_results[b[2]][j]
        BY ONLY <2>2
      <4>3. b[1] = "segment" => segments'[<<b[2], b[3]>>].m_input_data[j]
                                  = segments[<<b[2], b[3]>>].m_input_data[j]
        BY ONLY <3>3
      <4> QED BY ONLY <2>2, <4>1, <4>2, <4>3, ContentKept
    <3> QED BY ONLY <3>2, <3>4
  <2> QED BY <1>1, <2>2, <2>3, <2>4, InputsKept
<1>9. ASSUME NEW x \in Slots, Execute(x)
      PROVE  Inputs(task[slot])' = Inputs(task[slot])
  <2>1. /\ task' = [task EXCEPT ![x].status = "COMPLETED"] /\ task[x] # NoTask /\ tree' = tree
    BY <1>9 DEF Execute
  <2>2. JobOK(task[x]) /\ task[x] \in HashTasks
    BY <1>3, <2>1 DEF Jobs, JobOK
  <2>3. x # slot
    <3> SUFFICES ASSUME x = slot PROVE FALSE
      OBVIOUS
    <3>1. task'[slot].status = "COMPLETED"
      BY <1>5, <2>1, <2>2 DEF HashTasks
    <3> QED BY <1>2, <3>1
  <2>4. task'[slot] = t
    BY <1>1, <1>5, <2>1, <2>3
  <2>5. \A i \in 0 .. t.batch * input_size(t.layer) - 1 :
          Content(t.from, t.first + i)' = Content(t.from, t.first + i)
    BY <1>1, <1>2, <1>3, <1>4, <1>9, <2>2, <2>3, ExecuteKeeps
  <2> QED BY <1>1, <2>1, <2>4, <2>5, InputsKept
<1> QED BY <1>6, <1>7, <1>8, <1>9 DEF Next, Main

(* What a waiting or running task reads does not change under it.           *)
THEOREM InputsAlways == Spec => InputsStay
<1>1. IndInv /\ [Next]_vars =>
        [\A slot \in Slots : Ready(slot) /\ Ready(slot)' => Inputs(task[slot])' = Inputs(task[slot])]_vars
  BY InputsSteady
<1> QED BY <1>1, Invariant, PTL DEF Spec, InputsStay

-----------------------------------------------------------------------------
(* The nodes of the tree.                                                   *)
(* Input i of layer l: a leaf, padding, or a node of the layer below.       *)
Below(l, i) ==
  IF l = 0 THEN IF i < tree.leaves THEN Leaf(i) ELSE Padding ELSE Node(l - 1, i)

(* A table of the layers, filled from the leaves up, exists                 *)
LevelOver(l, below) ==
  [j \in 0 .. nof_hashes(l) - 1 |->
    Hash(l, [h \in 0 .. input_size(l) - 1 |->
              IF l = 0 THEN IF j * input_size(0) + h < tree.leaves
                            THEN Leaf(j * input_size(0) + h) ELSE Padding
              ELSE below[j * input_size(l) + h]])]
Table(f, m) == f = [k \in 0 .. m |-> LevelOver(k, f[k - 1])]
LEMMA TableExists ==
  ASSUME NEW r \in Nat
  PROVE  \E f : Table(f, r)
<1> DEFINE Good == {m \in Nat : \E f : Table(f, m)}
<1>0. \A x, y : LevelOver(0, x) = LevelOver(0, y)
  BY DEF LevelOver
<1>1. 0 \in Good
  <2> DEFINE f == [k \in 0 .. 0 |-> LevelOver(0, 0)]
  <2>1. \A k \in 0 .. 0 : LevelOver(k, f[k - 1]) = LevelOver(0, 0)
    BY <1>0
  <2>2. Table(f, 0)
    BY <2>1 DEF Table
  <2> QED BY <2>2
<1>2. ASSUME NEW m \in Good PROVE m + 1 \in Good
  <2>1. PICK f : Table(f, m)
    OBVIOUS
  <2> DEFINE q == [k \in 0 .. m + 1 |-> IF k = m + 1 THEN LevelOver(k, f[k - 1]) ELSE f[k]]
  <2>2. \A k \in 0 .. m : f[k] = LevelOver(k, f[k - 1]) /\ q[k] = f[k]
    <3>1. \A k \in 0 .. m : f[k] = LevelOver(k, f[k - 1])
      BY <2>1 DEF Table
    <3>2. \A k \in 0 .. m : k \in 0 .. m + 1 /\ k # m + 1
      OBVIOUS
    <3> QED BY <3>1, <3>2
  <2>3. ASSUME NEW k \in 0 .. m + 1 PROVE q[k] = LevelOver(k, q[k - 1])
    <3>1. k = 0 \/ q[k - 1] = f[k - 1]
      <4>1. k # 0 => k - 1 \in 0 .. m
        OBVIOUS
      <4> HIDE DEF q
      <4> QED BY <2>2, <4>1
    <3>2. LevelOver(k, q[k - 1]) = LevelOver(k, f[k - 1])
      <4> HIDE DEF q
      <4> QED BY <1>0, <3>1
    <3>3. k = m + 1 \/ k \in 0 .. m
      OBVIOUS
    <3>4. k = m + 1 => q[k] = LevelOver(k, f[k - 1])
      OBVIOUS
    <3> HIDE DEF q
    <3> QED BY <2>2, <3>2, <3>3, <3>4
  <2>4. q = [k \in 0 .. m + 1 |-> q[k]]
    OBVIOUS
  <2> HIDE DEF q
  <2>5. Table(q, m + 1)
    BY <2>3, <2>4 DEF Table
  <2> QED BY <2>5
<1> HIDE DEF Good
<1>3. Good = Nat
  BY <1>1, <1>2, Induction DEF Good
<1> QED BY <1>3 DEF Good

(* and two of them agree as far as both go.                                 *)
LEMMA TablesAgree ==
  ASSUME NEW m \in Nat, NEW n \in Nat, NEW f, NEW g, Table(f, m), Table(g, n)
  PROVE  \A k \in Nat : k <= m /\ k <= n => f[k] = g[k]
<1> DEFINE Good == {k \in Nat : k <= m /\ k <= n => f[k] = g[k]}
<1>1. \A k \in 0 .. m : f[k] = LevelOver(k, f[k - 1])
  BY DEF Table
<1>2. \A k \in 0 .. n : g[k] = LevelOver(k, g[k - 1])
  BY DEF Table
<1>3. 0 \in Good
  <2>1. f[0] = LevelOver(0, f[0 - 1]) /\ g[0] = LevelOver(0, g[0 - 1])
    BY <1>1, <1>2
  <2>2. \A x, y : LevelOver(0, x) = LevelOver(0, y)
    BY DEF LevelOver
  <2> QED BY <2>1, <2>2
<1>4. ASSUME NEW k \in Good PROVE k + 1 \in Good
  <2> SUFFICES ASSUME k + 1 <= m, k + 1 <= n PROVE f[k + 1] = g[k + 1]
    OBVIOUS
  <2>1. f[k] = g[k] /\ (k + 1) - 1 = k /\ k + 1 \in 0 .. m /\ k + 1 \in 0 .. n
    OBVIOUS
  <2>2. f[k + 1] = LevelOver(k + 1, f[(k + 1) - 1]) /\ g[k + 1] = LevelOver(k + 1, g[(k + 1) - 1])
    BY <1>1, <1>2, <2>1
  <2> QED BY <2>1, <2>2
<1> HIDE DEF Good
<1>5. Good = Nat
  BY <1>3, <1>4, Induction DEF Good
<1> QED BY <1>5 DEF Good

(* so that a node is the hash of the inputs below it.                       *)
LEMMA NodeRec ==
  ASSUME NEW l \in Nat, NEW i \in 0 .. nof_hashes(l) - 1
  PROVE  Node(l, i) = Hash(l, [h \in 0 .. input_size(l) - 1 |-> Below(l, i * input_size(l) + h)])
<1> DEFINE table(m) == CHOOSE f : Table(f, m)
<1>1. ASSUME NEW m \in Nat PROVE Table(table(m), m)
  BY TableExists
<1>2. \A m, j : Node(m, j) = table(m)[m][j]
  BY DEF Node, Table, LevelOver
<1> HIDE DEF table
<1>3. table(l)[l] = LevelOver(l, table(l)[l - 1])
  BY <1>1 DEF Table
<1>4. l # 0 => table(l)[l - 1] = table(l - 1)[l - 1]
  <2> SUFFICES ASSUME l # 0 PROVE table(l)[l - 1] = table(l - 1)[l - 1]
    OBVIOUS
  <2>1. l - 1 \in Nat /\ l - 1 <= l /\ l - 1 <= l - 1
    OBVIOUS
  <2>2. Table(table(l), l) /\ Table(table(l - 1), l - 1)
    BY <1>1, <2>1
  <2> QED BY <2>1, <2>2, TablesAgree
<1>5. Node(l, i) = LevelOver(l, table(l)[l - 1])[i]
  BY <1>2, <1>3
<1>6. LevelOver(l, table(l)[l - 1])[i]
        = Hash(l, [h \in 0 .. input_size(l) - 1 |-> Below(l, i * input_size(l) + h)])
  <2>1. CASE l = 0
    BY <2>1 DEF LevelOver, Below
  <2>2. CASE l # 0
    <3>1. \A h : table(l)[l - 1][i * input_size(l) + h] = Node(l - 1, i * input_size(l) + h)
      BY <1>2, <1>4, <2>2
    <3> QED BY <2>2, <3>1 DEF LevelOver, Below
  <2> QED BY <2>1, <2>2
<1> QED BY <1>5, <1>6

(* The nodes are the same as long as the tree is.                           *)
NodeOf(tr, l, i) ==
  LET leaf(j) == IF j < tr.leaves THEN Leaf(j)
                 ELSE IF tr.policy = "LastValue" THEN Leaf(tr.leaves - 1) ELSE ZeroLeaf
      node[k \in 0 .. l] == [j \in 0 .. HashesOf(tr.arity, k) - 1 |->
        Hash(k, [h \in 0 .. tr.arity[k + 1] - 1 |->
                  IF k = 0 THEN leaf(j * tr.arity[0 + 1] + h)
                           ELSE node[k - 1][j * tr.arity[k + 1] + h]])]
  IN  node[l][i]
LEMMA NodeFrame ==
  ASSUME tree' = tree
  PROVE  \A l, i : Node(l, i)' = Node(l, i) /\ Below(l, i)' = Below(l, i)
<1>1. \A l, i : Node(l, i) = NodeOf(tree, l, i)
  BY DEF Node, NodeOf, Padding, nof_hashes, HashesOf, Root, Layers, nof_layers, input_size
<1>2. \A l, i : Node(l, i)' = NodeOf(tree', l, i)
  BY DEF Node, NodeOf, Padding, nof_hashes, HashesOf, Root, Layers, nof_layers, input_size
<1>3. \A l, i : Node(l, i)' = Node(l, i)
  BY <1>1, <1>2
<1>4. Padding' = Padding
  BY DEF Padding
<1> QED BY <1>3, <1>4 DEF Below

(* All inputs behind the occupied ones are alike, and so are the hashes of  *)
(* nothing else.                                                            *)
LEMMA PaddingAlike ==
  ASSUME TreeOK, NEW l \in Layers
  PROVE  \A i, j \in occupied(l) .. nof_hashes(l) - 1 : Node(l, i) = Node(l, j)
<1> DEFINE Good == {k \in Nat : k <= Root =>
                      \A i, j \in occupied(k) .. nof_hashes(k) - 1 : Node(k, i) = Node(k, j)}
<1>0. /\ Root \in Nat /\ Layers = 0 .. Root
      /\ \A k \in Layers : /\ input_size(k) \in Nat \ {0} /\ nof_hashes(k) \in Nat \ {0}
                           /\ occupied(k) \in Nat \ {0}
  BY LayersTyped, LayersPositive DEF TreeOK
<1>1. ASSUME NEW k \in Layers, NEW a, a = input_size(k), NEW x,
             \A i \in occupied(k) .. nof_hashes(k) - 1, h \in 0 .. a - 1 :
               Below(k, i * a + h) = x
      PROVE  \A i, j \in occupied(k) .. nof_hashes(k) - 1 : Node(k, i) = Node(k, j)
  <2> TAKE i, j \in occupied(k) .. nof_hashes(k) - 1
  <2>1. k \in Nat /\ i \in 0 .. nof_hashes(k) - 1 /\ j \in 0 .. nof_hashes(k) - 1
    BY <1>0
  <2>2. /\ Node(k, i) = Hash(k, [h \in 0 .. a - 1 |-> Below(k, i * a + h)])
        /\ Node(k, j) = Hash(k, [h \in 0 .. a - 1 |-> Below(k, j * a + h)])
    BY ONLY <1>1, <2>1, NodeRec
  <2>3. [h \in 0 .. a - 1 |-> Below(k, i * a + h)] = [h \in 0 .. a - 1 |-> Below(k, j * a + h)]
    BY ONLY <1>1
  <2> QED BY <2>2, <2>3
<1>2. ASSUME NEW k \in Layers, NEW a, a = input_size(k),
             NEW n \in Nat \ {0}, occupied(k) = CeilDiv(n, a),
             NEW i \in occupied(k) .. nof_hashes(k) - 1, NEW h \in 0 .. a - 1
      PROVE  n <= i * a + h /\ i * a + h <= nof_hashes(k) * a - 1 /\ i * a + h \in Nat
  <2>1. /\ occupied(k) \in Nat /\ i \in Nat /\ i + 1 \in Nat /\ a \in Nat \ {0} /\ h \in Nat
        /\ nof_hashes(k) \in Nat /\ h <= a - 1 /\ i + 1 <= nof_hashes(k)
    BY <1>0, <1>2
  <2>2. n <= occupied(k) * a
    BY <1>2, <2>1, CeilFacts
  <2>3. occupied(k) * a <= i * a /\ (i + 1) * a <= nof_hashes(k) * a
    BY <1>2, <2>1, MulMonotone
  <2>4. (i + 1) * a = i * a + a /\ i * a \in Nat /\ occupied(k) * a \in Nat /\ nof_hashes(k) * a \in Nat
    BY <2>1
  <2> QED BY ONLY <2>1, <2>2, <2>3, <2>4, n \in Nat \ {0}
<1>3. 0 \in Good
  <2>1. 0 \in Layers /\ occupied(0) = CeilDiv(tree.leaves, input_size(0)) /\ tree.leaves \in Nat \ {0}
    BY <1>0, OccupiedRec DEF TreeOK
  <2>2. \A i \in occupied(0) .. nof_hashes(0) - 1, h \in 0 .. input_size(0) - 1 :
          Below(0, i * input_size(0) + h) = Padding
    <3> TAKE i \in occupied(0) .. nof_hashes(0) - 1, h \in 0 .. input_size(0) - 1
    <3>1. PICK x : x = i * input_size(0) + h
      OBVIOUS
    <3>2. tree.leaves <= x /\ x \in Nat
      BY <1>2, <2>1, <3>1
    <3>3. ~(x < tree.leaves)
      BY <2>1, <3>2
    <3> QED BY <3>1, <3>3 DEF Below
  <2> QED BY <1>1, <2>1, <2>2
<1>4. ASSUME NEW k \in Good PROVE k + 1 \in Good
  <2> SUFFICES ASSUME k + 1 <= Root
               PROVE  \A i, j \in occupied(k + 1) .. nof_hashes(k + 1) - 1 :
                        Node(k + 1, i) = Node(k + 1, j)
    OBVIOUS
  <2>1. /\ k \in Layers \ {Root} /\ k + 1 \in Layers /\ k + 1 # 0 /\ (k + 1) - 1 = k
        /\ \A i, j \in occupied(k) .. nof_hashes(k) - 1 : Node(k, i) = Node(k, j)
    BY <1>0
  <2>2. /\ occupied(k + 1) = CeilDiv(occupied(k), input_size(k + 1))
        /\ nof_hashes(k) = nof_hashes(k + 1) * input_size(k + 1)
    BY <2>1, OccupiedRec, HashesRec DEF TreeOK
  <2>3. PICK x : x = Node(k, occupied(k))
    OBVIOUS
  <2>4. \A i \in occupied(k + 1) .. nof_hashes(k + 1) - 1, h \in 0 .. input_size(k + 1) - 1 :
          Below(k + 1, i * input_size(k + 1) + h) = x
    <3> TAKE i \in occupied(k + 1) .. nof_hashes(k + 1) - 1, h \in 0 .. input_size(k + 1) - 1
    <3>1. PICK y : y = i * input_size(k + 1) + h
      OBVIOUS
    <3>2. occupied(k) <= y /\ y <= nof_hashes(k) - 1 /\ y \in Nat /\ occupied(k) \in Nat \ {0}
      BY <1>0, <1>2, <2>1, <2>2, <3>1
    <3>3. y \in occupied(k) .. nof_hashes(k) - 1 /\ occupied(k) \in occupied(k) .. nof_hashes(k) - 1
      <4>1. nof_hashes(k) \in Nat
        BY <1>0, <2>1
      <4> QED BY ONLY <3>2, <4>1
    <3>4. Node(k, y) = x
      BY <2>1, <2>3, <3>3
    <3>5. Below(k + 1, y) = Node(k, y)
      BY <2>1 DEF Below
    <3> QED BY <3>1, <3>4, <3>5
  <2> QED BY <1>1, <2>1, <2>4
<1> HIDE DEF Good
<1>5. Good = Nat
  BY <1>3, <1>4, Induction DEF Good
<1>6. l \in Good /\ l <= Root
  BY <1>0, <1>5
<1> QED BY <1>6 DEF Good

(* So what a task repeats behind its own outputs is what belongs there.     *)
LEMMA PadNodes ==
  ASSUME TreeOK, NEW l \in Layers \ {Root}, NEW c \in Segment(l), NEW i \in PadPlaces(l, c)
  PROVE  /\ i \in 0 .. nof_hashes(l) - 1
         /\ Node(l, i) = Node(l, c * K + Count(l, c) - 1)
<1>1. /\ c = max_segment(l) /\ i >= nof_hashes_2_execute(l)
      /\ c * K + Count(l, c) + Pad(l, c) = results_size(l)
  BY PadFacts
<1>2. /\ c * K \in Nat /\ Count(l, c) \in Nat \ {0} /\ c * K + Count(l, c) = nof_hashes_2_execute(l)
      /\ Pad(l, c) \in Nat
  BY <1>1, SegmentEnds, PadFacts
<1>3. /\ nof_hashes_2_execute(l) \in Nat \ {0} /\ nof_hashes(l) \in Nat \ {0}
      /\ occupied(l) \in Nat \ {0} /\ l + 1 \in Layers
      /\ nof_hashes_2_execute(l) = Least(nof_hashes(l), occupied(l) + 1)
  BY LayerCut, LayersPositive, TwoLayers DEF TreeOK, nof_hashes_2_execute
<1>4. results_size(l) <= nof_hashes(l) /\ results_size(l) \in Nat
  <2>1. /\ results_size(l) = nof_hashes_2_execute(l + 1) * input_size(l + 1)
        /\ nof_hashes(l) = nof_hashes(l + 1) * input_size(l + 1)
        /\ input_size(l + 1) \in Nat /\ results_size(l) \in Nat
    BY TwoLayers, HashesRec DEF TreeOK
  <2>2. /\ nof_hashes_2_execute(l + 1) \in Nat /\ nof_hashes(l + 1) \in Nat
        /\ nof_hashes_2_execute(l + 1) <= nof_hashes(l + 1)
    BY <1>3, LayerCut, LayersPositive DEF TreeOK
  <2> QED BY <2>1, <2>2, MulMonotone
<1>5. i \in Nat /\ i <= results_size(l) - 1
  BY <1>1, <1>2 DEF PadPlaces
<1>6. nof_hashes_2_execute(l) = occupied(l) + 1
  BY <1>1, <1>3, <1>4, <1>5 DEF Least
<1>7. /\ i \in occupied(l) .. nof_hashes(l) - 1
      /\ c * K + Count(l, c) - 1 \in occupied(l) .. nof_hashes(l) - 1
  BY <1>1, <1>2, <1>3, <1>4, <1>5, <1>6
<1>8. i \in 0 .. nof_hashes(l) - 1
  BY <1>3, <1>7
<1> QED BY <1>7, <1>8, PaddingAlike

-----------------------------------------------------------------------------
(* The places of the outputs.                                               *)
Places(l, c) == Outputs(l, c) \cup PadPlaces(l, c)
Start(l, s) == s * K * input_size(l)

(* No two segments write to the same place.                                 *)
LEMMA PlacesApart ==
  ASSUME TreeOK, NEW l \in Layers \ {Root}, NEW c \in Segment(l), NEW d \in Segment(l),
         NEW i \in Places(l, c), i \in Places(l, d)
  PROVE  c = d
<1>1. CASE i \in Outputs(l, c) /\ i \in Outputs(l, d)
  BY <1>1, OutputsApart
<1>2. CASE i \in PadPlaces(l, c) /\ i \in PadPlaces(l, d)
  BY <1>2, PadFacts
<1>3. ~(i \in Outputs(l, c) /\ i \in PadPlaces(l, d))
  BY OutputsNotPadding
<1>4. ~(i \in Outputs(l, d) /\ i \in PadPlaces(l, c))
  BY OutputsNotPadding
<1> QED BY <1>1, <1>2, <1>3, <1>4 DEF Places

(* The root is a segment of one hash.                                       *)
LEMMA RootSegment ==
  ASSUME TreeOK
  PROVE  /\ Root \in Layers /\ nof_hashes_2_execute(Root) = 1
         /\ Segment(Root) = {0} /\ Count(Root, 0) = 1 /\ Pad(Root, 0) = 0
         /\ Places(Root, 0) = {0}
<1>1. Root \in Layers /\ nof_hashes(Root) = 1 /\ occupied(Root) \in Nat \ {0}
  BY LayersTyped, HashesRec, LayersPositive DEF TreeOK
<1>2. nof_hashes_2_execute(Root) = 1
  BY <1>1 DEF nof_hashes_2_execute, Least
<1>3. /\ max_segment(Root) \in Nat /\ last_batch(Root) \in Nat /\ last_batch(Root) >= 1
      /\ 1 = max_segment(Root) * K + last_batch(Root)
  BY <1>1, <1>2, LayerCut, MerkleAssumption
<1>4. max_segment(Root) = 0
  <2> SUFFICES ASSUME 1 <= max_segment(Root) PROVE FALSE
    BY <1>3
  <2>1. K \in Nat /\ K >= 2 /\ 1 \in Nat /\ max_segment(Root) \in Nat
    BY <1>3, MerkleAssumption
  <2>2. 1 * K <= max_segment(Root) * K /\ max_segment(Root) * K \in Nat
    BY ONLY 1 <= max_segment(Root), <2>1, MulMonotone
  <2>3. 1 * K = K
    BY <2>1
  <2> QED BY ONLY <1>3, <2>1, <2>2, <2>3
<1>5. Segment(Root) = {0}
  BY <1>4 DEF Segment
<1>6. Count(Root, 0) = 1 /\ is_last(Root, 0) /\ last_batch(Root) = 1
  <2>1. 0 * K = 0
    BY MerkleAssumption
  <2>2. last_batch(Root) = 1
    BY <1>3, <1>4, <2>1
  <2>3. is_last(Root, 0)
    BY <1>2, <2>1, <2>2 DEF is_last
  <2> QED BY <2>2, <2>3 DEF Count
<1>7. Pad(Root, 0) = 0
  <2>1. 0 * K = 0
    BY MerkleAssumption
  <2>2. results_size(Root) = 1
    BY DEF results_size
  <2> QED BY <1>6, <2>1, <2>2 DEF Pad
<1>8. Places(Root, 0) = {0}
  <2>1. 0 * K = 0
    BY MerkleAssumption
  <2>2. Outputs(Root, 0) = 0 .. 0 /\ PadPlaces(Root, 0) = 1 .. 0
    BY <1>6, <1>7, <2>1 DEF Outputs, PadPlaces
  <2> QED BY <2>2 DEF Places
<1> QED BY <1>1, <1>2, <1>5, <1>6, <1>7, <1>8

(* K + 1 hashes are in the last segment only when all before are whole and  *)
(* one hash is left over.                                                   *)
LEMMA OneMore ==
  ASSUME NEW m \in Nat, NEW n, n = m * K + (K + 1)
  PROVE  n > K /\ n % K = 1 /\ n - 1 = (m + 1) * K
<1>1. K \in Nat /\ K >= 2
  BY MerkleAssumption
<1>2. m * K \in Nat /\ (m + 1) * K = m * K + K
  BY <1>1
<1>3. n \in Nat /\ n > K /\ n - 1 = (m + 1) * K
  BY <1>1, <1>2
<1>4. n \div K = m + 1
  <2>1. m + 1 \in Nat /\ (m + 1) * K <= n /\ n < (m + 1) * K + K
    BY <1>1, <1>2
  <2> QED BY <1>1, <1>3, <2>1, DivUnique
<1>5. n = (n \div K) * K + (n % K) /\ n % K \in 0 .. K - 1
  BY <1>1, <1>3, DivFacts
<1>6. PICK r : r = n % K
  OBVIOUS
<1>7. n = (m + 1) * K + r /\ r \in Nat
  BY <1>4, <1>5, <1>6
<1>8. r = 1
  BY ONLY <1>2, <1>3, <1>7
<1> QED BY <1>3, <1>6, <1>8

(* Outside the case of InputsWrapAround a segment with a buffer of its own  *)
(* gets its inputs where they belong.                                       *)
LEMMA NoWrap ==
  ASSUME TreeOK, NEW l \in Layers \ {Root}, NEW c \in Segment(l), ~InputsWrapAround(l),
         NEW p, p = Parent(l, c)
  PROVE  (c * K) % (K * input_size(l + 1)) = c * K - Start(l + 1, p)
<1>1. PICK a, q, m, top :
        /\ a = input_size(l + 1) /\ q = c \div a /\ m = max_segment(l + 1)
        /\ top = max_segment(l)
  OBVIOUS
<1>2. /\ l + 1 \in Layers /\ a \in Nat \ {0} /\ m \in Nat /\ K \in Nat /\ K >= 2
      /\ c \in Nat /\ p = Least(q, m) /\ top \in Nat /\ c <= top
  BY <1>1, TwoLayers, LayerCut, SegmentEnds, MerkleAssumption DEF Parent
<1>3. q \in Nat /\ c % a \in 0 .. a - 1 /\ c = q * a + (c % a)
  BY <1>1, <1>2, DivFacts
<1>4. q * a \in Nat /\ (q + 1) * a = q * a + a /\ K * a \in Nat \ {0}
  <2>1. \A x, y \in Nat \ {0} : x * y \in Nat \ {0}
    OBVIOUS
  <2> QED BY <1>2, <1>3, <2>1
<1>5. q * a <= c /\ c + 1 <= (q + 1) * a
  BY <1>2, <1>3, <1>4
<1>6. /\ (q * a) * K <= c * K /\ (c + 1) * K <= ((q + 1) * a) * K
      /\ c * K \in Nat /\ (q * a) * K \in Nat
      /\ (c + 1) * K = c * K + K /\ ((q + 1) * a) * K = (q * a) * K + K * a
      /\ (q * a) * K = q * (K * a) /\ (q * a) * K = q * K * a
  <2>1. c \in Nat /\ c + 1 \in Nat /\ (q + 1) * a \in Nat /\ q * a \in Nat /\ K \in Nat /\ q \in Nat /\ a \in Nat
    BY <1>2, <1>3, <1>4
  <2>2. (q * a) * K <= c * K /\ (c + 1) * K <= ((q + 1) * a) * K
    BY ONLY <1>5, <2>1, MulMonotone
  <2>3. c * K \in Nat /\ (q * a) * K \in Nat /\ (c + 1) * K = c * K + K
    BY ONLY <2>1
  <2>4. ((q + 1) * a) * K = (q * a) * K + K * a
    BY ONLY <2>1
  <2>5. (q * a) * K = q * (K * a) /\ (q * a) * K = q * K * a
    BY ONLY <2>1
  <2> QED BY <2>2, <2>3, <2>4, <2>5
<1>7. ASSUME q <= m
      PROVE  (c * K) % (K * a) = c * K - p * K * a
  <2>1. p = q
    BY <1>2, <1>3, <1>7 DEF Least
  <2>2. (c * K) \div (K * a) = q
    <3>1. q * (K * a) <= c * K /\ c * K < q * (K * a) + K * a
      BY <1>2, <1>4, <1>6
    <3> QED BY ONLY <1>3, <1>4, <1>6, <3>1, DivUnique
  <2>3. /\ c * K = ((c * K) \div (K * a)) * (K * a) + ((c * K) % (K * a))
        /\ (c * K) % (K * a) \in Nat
    <3>1. PICK x, y : x = c * K /\ y = K * a
      OBVIOUS
    <3>2. x \in Nat /\ y \in Nat \ {0}
      BY ONLY <1>4, <1>6, <3>1
    <3>3. x = (x \div y) * y + (x % y) /\ x % y \in 0 .. y - 1
      BY ONLY <3>2, DivFacts
    <3>4. x % y \in Nat
      BY ONLY <3>2, <3>3
    <3> QED BY ONLY <3>1, <3>3, <3>4
  <2>4. PICK r, x : r = (c * K) % (K * a) /\ x = q * K * a
    OBVIOUS
  <2>5. c * K = x + r /\ r \in Nat /\ x \in Nat
    BY ONLY <1>6, <2>2, <2>3, <2>4
  <2>6. r = c * K - x
    BY ONLY <1>6, <2>5
  <2> QED BY ONLY <2>1, <2>4, <2>6
<1>8. q <= m
  <2> SUFFICES ASSUME m + 1 <= q PROVE FALSE
    BY <1>2, <1>3
  <2>1. p = m /\ m \in Segment(l + 1)
    <3>1. ~(q < m)
      BY ONLY <1>2, <1>3, m + 1 <= q
    <3>2. m \in 0 .. m
      BY <1>2
    <3> QED BY <1>1, <1>2, <3>1, <3>2 DEF Least, Segment
  <2>2. PICK b, n, here : b = last_batch(l + 1) /\ n = nof_hashes_2_execute(l + 1) /\ here = Count(l, c)
    OBVIOUS
  <2>3. b \in Nat /\ b <= K + 1 /\ n = m * K + b /\ Count(l + 1, m) = b /\ n \in Nat
    BY <1>1, <1>2, <2>1, <2>2, LayerCut, SegmentEnds
  <2>4. c * K + here + Pad(l, c) <= m * K * a + b * a /\ Pad(l, c) \in Nat /\ here \in Nat
    <3>1. c * K + Count(l, c) + Pad(l, c) <= p * K * a + Count(l + 1, p) * a
      BY <1>1, WritesInside
    <3>2. Pad(l, c) \in Nat /\ Count(l, c) \in Nat
      BY PadFacts, SegmentEnds
    <3> QED BY ONLY <2>1, <2>2, <2>3, <3>1, <3>2
  <2>5. here >= 2
    <3>1. a <= q * a
      <4>1. 1 <= q /\ 1 * a = a
        BY <1>2, <1>3
      <4> QED BY <1>2, <1>3, <4>1, MulMonotone
    <3>2. top # 0
      BY ONLY <1>2, <1>4, <1>5, <3>1
    <3>3. here = K \/ here = last_batch(l)
      BY <1>1, <2>2, SegmentEnds
    <3> QED BY <1>1, <1>2, <3>2, <3>3, LayerCut
  <2>6. (m + 1) * K * a <= c * K
    <3>1. (m + 1) * a <= q * a /\ (m + 1) * a \in Nat
      BY <1>2, <1>3, MulMonotone
    <3>2. ((m + 1) * a) * K <= (q * a) * K
      BY <1>2, <1>4, <3>1, MulMonotone
    <3>3. ((m + 1) * a) * K = (m + 1) * K * a
      BY <1>2
    <3>4. ((m + 1) * a) * K \in Nat
      BY <1>2, <3>1
    <3> QED BY ONLY <1>6, <3>2, <3>3, <3>4
  <2>7. b = K + 1
    <3> SUFFICES ASSUME b <= K PROVE FALSE
      BY <1>2, <2>3
    <3>1. b * a <= K * a /\ b * a \in Nat
      BY <1>2, <2>3, MulMonotone
    <3>2. (m + 1) * K * a = m * K * a + K * a /\ m * K * a \in Nat /\ K * a \in Nat
      BY <1>2
    <3> QED BY ONLY <1>6, <2>4, <2>5, <2>6, <3>1, <3>2
  <2>8. n > K /\ n % K = 1 /\ n - 1 = (m + 1) * K
    BY <1>2, <2>3, <2>7, OneMore
  <2>9. PICK low : low = nof_hashes_2_execute(l)
    OBVIOUS
  <2>10. low \in Nat /\ c * K + here <= low
    BY <2>2, <2>9, LayerCut, SegmentEnds
  <2>11. low >= (n - 1) * a + 2
    <3>1. (n - 1) * a = (m + 1) * K * a /\ (m + 1) * K * a \in Nat
      BY <1>2, <2>8
    <3> QED BY ONLY <1>6, <2>4, <2>5, <2>6, <2>10, <3>1
  <2> QED BY ONLY <1>1, <2>2, <2>8, <2>9, <2>11, ~InputsWrapAround(l) DEF InputsWrapAround
<1> QED BY <1>1, <1>7, <1>8 DEF Start

(* Outside the case of TailMisplaced the last segment of the leaves begins  *)
(* where it should.                                                         *)
LEMMA TailPlaced ==
  ASSUME TreeOK, ~TailMisplaced, tree.leaves < Capacity,
         NEW i \in 0 .. last_batch(0) * input_size(0) - 1
  PROVE  padded_leaves(i) = Below(0, Start(0, max_segment(0)) + i)
<1>1. PICK a, m, b, n, occ, all, x :
        /\ a = input_size(0) /\ m = max_segment(0) /\ b = last_batch(0)
        /\ n = nof_hashes_2_execute(0) /\ occ = occupied(0) /\ all = nof_hashes(0)
        /\ x = tree.leaves
  OBVIOUS
<1>2. 0 \in Layers
  BY LayersTyped DEF TreeOK
<1>3. /\ a \in Nat \ {0} /\ K \in Nat \ {0} /\ K >= 2 /\ m \in Nat /\ b \in 1 .. K + 1
      /\ n = m * K + b /\ occ \in Nat \ {0} /\ all \in Nat \ {0}
      /\ (m # 0 => b >= 2) /\ n = Least(all, occ + 1)
      /\ x \in Nat \ {0} /\ x < all * a /\ occ = CeilDiv(x, a)
  <2>1. a \in Nat \ {0} /\ K \in Nat \ {0} /\ K >= 2
    BY <1>1, <1>2, LayersTyped, MerkleAssumption DEF TreeOK
  <2>2. /\ m \in Nat /\ b \in 1 .. K + 1 /\ n = m * K + b /\ (m # 0 => b >= 2)
    BY <1>1, <1>2, LayerCut
  <2>3. occ \in Nat \ {0} /\ all \in Nat \ {0} /\ n = Least(all, occ + 1)
    BY <1>1, <1>2, LayersPositive DEF TreeOK, nof_hashes_2_execute
  <2>4. x \in Nat \ {0} /\ x < all * a
    BY <1>1 DEF TreeOK, Capacity
  <2>5. occ = CeilDiv(x, a)
    BY <1>1, OccupiedRec DEF TreeOK
  <2> QED BY <2>1, <2>2, <2>3, <2>4, <2>5
<1>4. (occ - 1) * a < x /\ x <= occ * a /\ occ - 1 \in Nat /\ m * K \in Nat /\ occ \in Nat
  BY <1>3, CeilFacts
<1>5. occ <= all
  <2> SUFFICES ASSUME all <= occ - 1 PROVE FALSE
    BY <1>3, <1>4
  <2>1. all * a <= (occ - 1) * a /\ all * a \in Nat /\ (occ - 1) * a \in Nat
    BY <1>3, <1>4, MulMonotone
  <2> QED BY ONLY <1>3, <1>4, <2>1
<1>6. m * K <= occ - 1 /\ occ <= m * K + K
  <2>1. CASE occ < all
    <3>1. n = occ + 1
      BY ONLY <1>3, <2>1 DEF Least
    <3> QED BY ONLY <1>3, <1>4, <3>1
  <2>2. CASE occ = all
    <3>1. n = occ
      BY ONLY <1>3, <2>2 DEF Least
    <3>2. b # K + 1
      <4> SUFFICES ASSUME b = K + 1 PROVE FALSE
        OBVIOUS
      <4>1. n > K /\ n % K = 1
        BY <1>3, OneMore
      <4> QED BY ONLY <1>1, <2>2, <3>1, <4>1, ~TailMisplaced, tree.leaves < Capacity DEF TailMisplaced
    <3> QED BY ONLY <1>3, <1>4, <3>1, <3>2
  <2> QED BY <1>3, <1>5, <2>1, <2>2
<1>7. PICK w, s : w = K * a /\ s = m * K * a
  OBVIOUS
<1>8. w \in Nat \ {0} /\ s \in Nat /\ s = m * w /\ s <= x - 1 /\ x - 1 < s + w /\ x - 1 \in Nat
  <2>1. w \in Nat \ {0}
    <3>1. \A y, z \in Nat \ {0} : y * z \in Nat \ {0}
      OBVIOUS
    <3> QED BY ONLY <1>3, <1>7, <3>1
  <2>2. s \in Nat /\ s = m * w
    BY ONLY <1>3, <1>7
  <2>3. (m * K) * a <= (occ - 1) * a /\ (occ - 1) * a \in Nat
    BY ONLY <1>3, <1>4, <1>6, MulMonotone
  <2>4. occ * a <= (m * K + K) * a /\ occ * a \in Nat
    BY ONLY <1>3, <1>4, <1>6, MulMonotone
  <2>5. (m * K + K) * a = s + w
    BY ONLY <1>3, <1>7
  <2> QED BY ONLY <1>3, <1>4, <1>7, <2>1, <2>2, <2>3, <2>4, <2>5
<1>9. (x - 1) % w = (x - 1) - s
  <2>1. (x - 1) \div w = m
    BY ONLY <1>3, <1>8, DivUnique
  <2>2. x - 1 = ((x - 1) \div w) * w + ((x - 1) % w) /\ (x - 1) % w \in 0 .. w - 1
    BY ONLY <1>8, DivFacts
  <2>3. PICK r : r = (x - 1) % w
    OBVIOUS
  <2>4. x - 1 = s + r /\ r \in Nat
    BY ONLY <1>8, <2>1, <2>2, <2>3
  <2> QED BY ONLY <1>3, <1>8, <2>3, <2>4
<1>10. PICK tail : tail = ((x - 1) % w) + 1
  OBVIOUS
<1>11. tail = x - s /\ tail \in Nat
  BY ONLY <1>3, <1>8, <1>9, <1>10
<1>12. i \in Nat
  BY <1>1, <1>3
<1>13. padded_leaves(i) = IF i < tail THEN Leaf(x - tail + i) ELSE Padding
  BY <1>1, <1>7, <1>10 DEF padded_leaves
<1>14. Below(0, s + i) = IF s + i < x THEN Leaf(s + i) ELSE Padding
  BY <1>1 DEF Below
<1>15. (i < tail <=> s + i < x) /\ x - tail + i = s + i
  BY ONLY <1>3, <1>8, <1>11, <1>12
<1>16. padded_leaves(i) = Below(0, s + i)
  BY <1>13, <1>14, <1>15
<1> QED BY <1>1, <1>7, <1>16 DEF Start

-----------------------------------------------------------------------------
(* What the buffers hold, R being the results, S the map of segments and J  *)
(* the tasks in the slots.                                                  *)
(* Place i of the outputs of a segment holds its node, as long as the       *)
(* segment that reads it is in the map.                                     *)
Held(R, S, l, c, i) ==
  LET p == Parent(l, c)
  IN  IF l >= tree.store THEN R[l][i] = Node(l, i)
      ELSE <<l + 1, p>> \in DOMAIN S =>
             S[<<l + 1, p>>].m_input_data[i - Start(l + 1, p)] = Node(l, i)
Placed(R, S, l, c) == \A i \in Places(l, c) : Held(R, S, l, c, i)
AllPlaced(R, S, made) ==
  \A l \in Layers : \A c \in Segment(l) : <<l, c>> \in made => Placed(R, S, l, c)

(* A task has the right inputs.                                             *)
ContentIn(R, S, b, i) ==
  CASE b[1] = "leaves"        -> IF i < tree.leaves THEN Leaf(i) ELSE Junk
    [] b[1] = "padded leaves" -> padded_leaves(i)
    [] b[1] = "results"       -> R[b[2]][i]
    [] b[1] = "segment"       -> S[<<b[2], b[3]>>].m_input_data[i]
Given(R, S, t) ==
  \A i \in 0 .. t.batch * input_size(t.layer) - 1 :
    ContentIn(R, S, t.from, t.first + i) = Below(t.layer, Start(t.layer, t.segment) + i)

(* The buffers of the segments are as long as their inputs are many.        *)
DataThere(S) ==
  \A l \in Layers \ {Root} : \A s \in Segment(l + 1) :
    l < tree.store /\ <<l + 1, s>> \in DOMAIN S =>
      DOMAIN S[<<l + 1, s>>].m_input_data = 0 .. Count(l + 1, s) * input_size(l + 1) - 1

Ended(J) == {Id(J[x]) : x \in {y \in Slots : J[y] # NoTask /\ J[y].status = "COMPLETED"}}
Right(R, S, J, done) ==
  /\ AllPlaced(R, S, done \cup Ended(J))
  /\ DataThere(S)
  /\ \A x \in Slots : J[x] # NoTask /\ J[x].status = "READY" => Given(R, S, J[x])

LEMMA RightFrame ==
  ASSUME tree' = tree
  PROVE  /\ \A l, i : Start(l, i)' = Start(l, i)
         /\ \A R, S, t : Given(R, S, t)' <=> Given(R, S, t)
         /\ \A R, S, J, done : Right(R, S, J, done)' <=> Right(R, S, J, done)
         /\ Misbuilt' <=> Misbuilt
<1>1. \A l, i : Start(l, i)' = Start(l, i)
  BY Frame DEF Start
<1>2. \A R, S, l, c, i : Held(R, S, l, c, i)' <=> Held(R, S, l, c, i)
  <2> TAKE R, S, l, c, i
  <2>1. /\ Parent(l, c)' = Parent(l, c) /\ Node(l, i)' = Node(l, i)
        /\ Start(l + 1, Parent(l, c))' = Start(l + 1, Parent(l, c))
    BY <1>1, Frame, NodeFrame
  <2> QED BY ONLY <2>1, tree' = tree DEF Held
<1>3. \A l, c : Places(l, c)' = Places(l, c)
  BY Frame DEF Places
<1>4. \A R, S, l, c : Placed(R, S, l, c)' <=> Placed(R, S, l, c)
  BY <1>2, <1>3 DEF Placed
<1>5. \A R, S, made : AllPlaced(R, S, made)' <=> AllPlaced(R, S, made)
  BY <1>4, Frame DEF AllPlaced
<1>6. \A R, S, b, i : ContentIn(R, S, b, i)' = ContentIn(R, S, b, i)
  <2> TAKE R, S, b, i
  <2>1. padded_leaves(i)' = padded_leaves(i)
    <3>1. Padding' = Padding /\ input_size(0)' = input_size(0)
      BY Frame DEF Padding
    <3> QED BY <3>1 DEF padded_leaves
  <2> QED BY ONLY <2>1, tree' = tree, Zenon DEF ContentIn
<1>7. \A R, S, t : Given(R, S, t)' <=> Given(R, S, t)
  <2> TAKE R, S, t
  <2>1. /\ input_size(t.layer)' = input_size(t.layer)
        /\ Start(t.layer, t.segment)' = Start(t.layer, t.segment)
        /\ \A i : Below(t.layer, i)' = Below(t.layer, i)
        /\ \A b, i : ContentIn(R, S, b, i)' = ContentIn(R, S, b, i)
    BY <1>1, <1>6, Frame, NodeFrame
  <2> QED BY ONLY <2>1 DEF Given
<1>8. \A S : DataThere(S)' <=> DataThere(S)
  BY Frame DEF DataThere
<1>9. \A J : Ended(J)' = Ended(J)
  BY DEF Ended, Id
<1>10. \A R, S, J, done : Right(R, S, J, done)' <=> Right(R, S, J, done)
  BY ONLY <1>5, <1>7, <1>8, <1>9 DEF Right
<1>11. Misbuilt' <=> Misbuilt
  <2>1. TailMisplaced' <=> TailMisplaced
    BY Frame DEF TailMisplaced
  <2>2. \A l : InputsWrapAround(l)' <=> InputsWrapAround(l)
    BY Frame DEF InputsWrapAround
  <2> QED BY <2>1, <2>2 DEF Misbuilt
<1> QED BY <1>1, <1>7, <1>10, <1>11

-----------------------------------------------------------------------------
(* A worker's step.                                                         *)
(* Where the places of a segment lie.                                       *)
LEMMA PlaceBounds ==
  ASSUME TreeOK, NEW l \in Layers \ {Root}, NEW c \in Segment(l), NEW i \in Places(l, c),
         NEW p, p = Parent(l, c)
  PROVE  /\ i \in 0 .. results_size(l) - 1
         /\ p \in Segment(l + 1) /\ c \in Children(l, p) /\ i \in Reads(l + 1, p)
         /\ i - Start(l + 1, p) \in 0 .. Count(l + 1, p) * input_size(l + 1) - 1
<1>1. /\ c * K \in Nat /\ Count(l, c) \in Nat \ {0} /\ Pad(l, c) \in Nat
      /\ c * K + Count(l, c) <= nof_hashes_2_execute(l)
      /\ c # max_segment(l) => Pad(l, c) = 0
      /\ c = max_segment(l) => c * K + Count(l, c) + Pad(l, c) = results_size(l)
  BY SegmentEnds, PadFacts
<1>2. /\ nof_hashes_2_execute(l) \in Nat /\ results_size(l) \in Nat
      /\ nof_hashes_2_execute(l) <= results_size(l) /\ l + 1 \in Layers
      /\ input_size(l + 1) \in Nat
  BY LayerCut, TwoLayers
<1>3. i \in c * K .. c * K + Count(l, c) + Pad(l, c) - 1
  BY <1>1 DEF Places, Outputs, PadPlaces
<1>4. i \in 0 .. results_size(l) - 1
  BY <1>1, <1>2, <1>3
<1>5. p \in Segment(l + 1) /\ c \in Children(l, p)
  BY ParentTyped DEF Children
<1>6. i \in Reads(l + 1, p)
  BY WritesAreReads DEF Places
<1>7. i - Start(l + 1, p) \in 0 .. Count(l + 1, p) * input_size(l + 1) - 1
  <2>1. p * K \in Nat /\ Count(l + 1, p) \in Nat
    BY <1>2, <1>5, SegmentEnds
  <2>2. PICK x, y : x = p * K * input_size(l + 1) /\ y = Count(l + 1, p) * input_size(l + 1)
    OBVIOUS
  <2>3. x \in Nat /\ y \in Nat
    BY <1>2, <2>1, <2>2
  <2>4. i \in x .. x + y - 1
    BY <1>6, <2>2 DEF Reads
  <2>5. i - x \in 0 .. y - 1
    BY ONLY <2>3, <2>4
  <2> QED BY <2>2, <2>5 DEF Start
<1> QED BY <1>4, <1>5, <1>6, <1>7

(* What a task puts over the data of the buffer it writes to.               *)
Output(t) ==
  [h \in 0 .. t.batch - 1 |->
    Hash(t.layer, [k \in 0 .. input_size(t.layer) - 1 |->
                    Inputs(t)[h * input_size(t.layer) + k]])]
Stamp(t, f, data) ==
  [i \in DOMAIN data |-> IF i - t.at \in 0 .. t.batch + t.padding - 1
                           THEN f[Least(i - t.at, t.batch - 1)] ELSE data[i]]
LEMMA Executed ==
  ASSUME NEW x \in Slots, NEW t, t = task[x], Execute(x)
  PROVE  IF t.to[1] = "results"
           THEN /\ m_results' = [m_results EXCEPT ![t.to[2]] =
                                   Stamp(t, Output(t), m_results[t.to[2]])]
                /\ segments' = segments
           ELSE /\ segments' = [segments EXCEPT ![<<t.to[2], t.to[3]>>].m_input_data =
                                  Stamp(t, Output(t), segments[<<t.to[2], t.to[3]>>].m_input_data)]
                /\ m_results' = m_results
<1> DEFINE u == task[x]
<1>1. CASE u.to[1] = "results"
  <2>1. /\ m_results' = [m_results EXCEPT ![u.to[2]] = Stamp(u, Output(u), m_results[u.to[2]])]
        /\ segments' = segments
    BY <1>1 DEF Execute, Stamp, Output
  <2> QED BY <1>1, <2>1
<1>2. CASE u.to[1] # "results"
  <2>1. /\ segments' = [segments EXCEPT ![<<u.to[2], u.to[3]>>].m_input_data =
                         Stamp(u, Output(u), segments[<<u.to[2], u.to[3]>>].m_input_data)]
        /\ m_results' = m_results
    BY <1>2, Zenon DEF Execute, Stamp, Output
  <2> QED BY <1>2, <2>1
<1> QED BY <1>1, <1>2

(* With the right inputs its outputs are the nodes of its segment.          *)
LEMMA OutputNodes ==
  ASSUME TreeOK, NEW t, JobOK(t), Given(m_results, segments, t), NEW h \in 0 .. t.batch - 1
  PROVE  Output(t)[h] = Node(t.layer, t.segment * K + h)
<1>1. PICK l, c, a : l = t.layer /\ c = t.segment /\ a = input_size(t.layer)
  OBVIOUS
<1>2. l \in Layers /\ c \in Segment(l) /\ t.batch = Count(l, c)
  BY <1>1 DEF JobOK
<1>3. /\ a \in Nat \ {0} /\ c \in Nat /\ K \in Nat /\ c * K \in Nat /\ Count(l, c) \in Nat /\ l \in Nat
      /\ c * K + Count(l, c) <= nof_hashes_2_execute(l)
      /\ nof_hashes_2_execute(l) \in Nat /\ nof_hashes_2_execute(l) <= nof_hashes(l)
      /\ nof_hashes(l) \in Nat
  BY <1>1, <1>2, LayersTyped, LayersPositive, SegmentEnds, LayerCut, MerkleAssumption DEF TreeOK
<1>4. h \in Nat /\ h + 1 <= t.batch /\ t.batch \in Nat
  BY <1>2, <1>3
<1>5. c * K + h \in 0 .. nof_hashes(l) - 1
  BY ONLY <1>2, <1>3, <1>4
<1>6. ASSUME NEW k \in 0 .. a - 1
      PROVE  Inputs(t)[h * a + k] = Below(l, (c * K + h) * a + k)
  <2>1. PICK i, n : i = h * a + k /\ n = t.batch * a
    OBVIOUS
  <2>2. h * a \in Nat /\ (h + 1) * a = h * a + a /\ n \in Nat
    BY <1>3, <1>4, <2>1
  <2>3. (h + 1) * a <= n
    BY <1>3, <1>4, <2>1, MulMonotone
  <2>4. i \in 0 .. n - 1
    BY ONLY <1>3, <1>4, <2>1, <2>2, <2>3, k \in 0 .. a - 1
  <2>5. Inputs(t)[i] = Content(t.from, t.first + i)
    BY <1>1, <2>1, <2>4 DEF Inputs
  <2>6. Content(t.from, t.first + i) = ContentIn(m_results, segments, t.from, t.first + i)
    BY Zenon DEF Content, ContentIn
  <2>7. ContentIn(m_results, segments, t.from, t.first + i) = Below(l, Start(l, c) + i)
    BY <1>1, <2>1, <2>4 DEF Given
  <2>8. Start(l, c) + i = (c * K + h) * a + k
    <3>1. Start(l, c) = c * K * a
      BY <1>1 DEF Start
    <3>2. k \in Nat
      BY <1>3
    <3>3. (c * K + h) * a = c * K * a + h * a /\ c * K * a \in Nat
      BY ONLY <1>3, <1>4
    <3>4. PICK u, v : u = c * K * a /\ v = h * a
      OBVIOUS
    <3> QED BY ONLY <2>1, <2>2, <3>1, <3>2, <3>3, <3>4
  <2> QED BY ONLY <2>1, <2>5, <2>6, <2>7, <2>8
<1>7. Node(l, c * K + h) = Hash(l, [k \in 0 .. a - 1 |-> Below(l, (c * K + h) * a + k)])
  <2>1. PICK i : i = c * K + h
    OBVIOUS
  <2>2. Node(l, i) = Hash(l, [k \in 0 .. input_size(l) - 1 |-> Below(l, i * input_size(l) + k)])
    BY ONLY <1>3, <1>5, <2>1, NodeRec
  <2> QED BY <1>1, <2>1, <2>2
<1>8. Output(t)[h] = Hash(l, [k \in 0 .. a - 1 |-> Inputs(t)[h * a + k]])
  BY <1>1 DEF Output
<1>9. [k \in 0 .. a - 1 |-> Inputs(t)[h * a + k]] = [k \in 0 .. a - 1 |-> Below(l, (c * K + h) * a + k)]
  BY ONLY <1>6
<1> QED BY <1>1, <1>7, <1>8, <1>9

(* Where a task writes, outside the case of InputsWrapAround: place i of    *)
(* its layer is i - base of the buffer.                                     *)
WritesAt(t, base) ==
  /\ t.padding = Pad(t.layer, t.segment) /\ t.at = t.segment * K - base /\ base \in Nat
  /\ IF t.layer >= tree.store
       THEN t.to = <<"results", t.layer>> /\ base = 0
       ELSE LET p == Parent(t.layer, t.segment)
            IN  /\ t.layer # Root /\ t.to = <<"segment", t.layer + 1, p>>
                /\ base = Start(t.layer + 1, p)
LEMMA WriteBase ==
  ASSUME TreeOK, NEW t, JobOK(t), ~Misbuilt
  PROVE  \E base : WritesAt(t, base)
<1>1. PICK l, c : l = t.layer /\ c = t.segment
  OBVIOUS
<1>2. /\ l \in Layers /\ c \in Segment(l) /\ WritesTo(t) /\ c * K \in Nat
      /\ l \in Nat /\ Root \in Nat /\ tree.store \in Nat /\ tree.store <= Root
  BY <1>1, SegmentEnds, LayersTyped DEF JobOK, TreeOK, Shape, Root, nof_layers
<1>3. CASE l = Root
  <2>1. c = 0 /\ Pad(Root, 0) = 0
    BY <1>2, <1>3, RootSegment
  <2>2. t.to = <<"results", l>> /\ t.at = 0 /\ t.padding = 0
    BY <1>1, <1>2, <1>3 DEF WritesTo
  <2>3. c * K = 0
    BY <2>1, MerkleAssumption
  <2>4. WritesAt(t, 0)
    BY <1>1, <1>2, <1>3, <2>1, <2>2, <2>3 DEF WritesAt
  <2> QED BY <2>4
<1>4. CASE l # Root /\ l >= tree.store
  <2>1. /\ t.padding = Pad(l, c) /\ t.to = <<"results", l>> /\ t.at = c * K
    BY <1>1, <1>2, <1>4 DEF WritesTo
  <2>2. WritesAt(t, 0)
    BY <1>1, <1>2, <1>4, <2>1 DEF WritesAt
  <2> QED BY <2>2
<1>5. CASE l # Root /\ l < tree.store
  <2>1. PICK p, base : p = Parent(l, c) /\ base = Start(l + 1, p)
    OBVIOUS
  <2>2. /\ t.padding = Pad(l, c) /\ t.to = <<"segment", l + 1, p>>
        /\ t.at = (c * K) % (K * input_size(l + 1))
    BY <1>1, <1>2, <1>5, <2>1 DEF WritesTo
  <2>3. ~InputsWrapAround(l)
    <3>1. l \in 0 .. tree.store - 1
      BY <1>2, <1>5
    <3> QED BY <3>1 DEF Misbuilt
  <2>4. t.at = c * K - base
    BY <1>2, <1>5, <2>1, <2>2, <2>3, NoWrap
  <2>5. base \in Nat
    <3>1. l + 1 \in Layers /\ input_size(l + 1) \in Nat /\ p \in Segment(l + 1)
      BY <1>2, <1>5, <2>1, TwoLayers, ParentTyped
    <3>2. p * K \in Nat
      BY <3>1, SegmentEnds
    <3> QED BY <2>1, <3>1, <3>2 DEF Start
  <2>6. ~(l >= tree.store)
    BY <1>2, <1>5
  <2>7. WritesAt(t, base)
    BY <1>1, <1>5, <2>1, <2>2, <2>4, <2>5, <2>6 DEF WritesAt
  <2> QED BY <2>7
<1> QED BY <1>2, <1>3, <1>4, <1>5

(* The node is put where it belongs, and the other places are left.         *)
LEMMA Stamped ==
  ASSUME TreeOK, NEW t, JobOK(t), Given(m_results, segments, t), NEW base, WritesAt(t, base),
         NEW data, NEW i \in Int, i - base \in DOMAIN data
  PROVE  Stamp(t, Output(t), data)[i - base]
           = IF i \in Places(t.layer, t.segment) THEN Node(t.layer, i) ELSE data[i - base]
<1>1. PICK l, c, n, pad, at, f :
        /\ l = t.layer /\ c = t.segment /\ n = t.batch /\ pad = t.padding /\ at = t.at
        /\ f = Output(t)
  OBVIOUS
<1>2. /\ l \in Layers /\ c \in Segment(l) /\ n = Count(l, c) /\ pad = Pad(l, c)
      /\ at = c * K - base /\ base \in Nat
  BY <1>1 DEF JobOK, WritesAt
<1>3. /\ c * K \in Nat /\ n \in Nat \ {0} /\ pad \in Nat /\ (l = Root => pad = 0)
  <2>1. l = Root => c = 0 /\ Pad(Root, 0) = 0
    BY <1>2, RootSegment
  <2>2. l # Root => pad \in Nat
    BY <1>2, PadFacts
  <2> QED BY <1>2, <2>1, <2>2, SegmentEnds
<1>4. Stamp(t, f, data)[i - base]
        = IF i - base - at \in 0 .. n + pad - 1 THEN f[Least(i - base - at, n - 1)]
                                                ELSE data[i - base]
  BY <1>1 DEF Stamp
<1>5. i - base - at = i - c * K
  BY <1>2, <1>3
<1>6. i \in Outputs(l, c) <=> i - c * K \in 0 .. n - 1
  BY <1>2, <1>3 DEF Outputs
<1>7. i \in PadPlaces(l, c) <=> i - c * K \in n .. n + pad - 1
  BY <1>2, <1>3 DEF PadPlaces
<1>8. i \in Places(l, c) <=> i - c * K \in 0 .. n + pad - 1
  BY <1>3, <1>6, <1>7 DEF Places
<1>9. \A h \in 0 .. n - 1 : f[h] = Node(l, c * K + h)
  BY <1>1, OutputNodes
<1>10. ASSUME i \in Outputs(l, c) PROVE f[Least(i - c * K, n - 1)] = Node(l, i)
  <2>1. Least(i - c * K, n - 1) = i - c * K
    BY <1>3, <1>6, <1>10 DEF Least
  <2>2. c * K + (i - c * K) = i
    BY <1>3
  <2> QED BY <1>6, <1>9, <1>10, <2>1, <2>2
<1>11. ASSUME i \in PadPlaces(l, c) PROVE f[Least(i - c * K, n - 1)] = Node(l, i)
  <2>1. Least(i - c * K, n - 1) = n - 1 /\ n - 1 \in 0 .. n - 1
    BY <1>3, <1>7, <1>11 DEF Least
  <2>2. l \in Layers \ {Root}
    BY <1>2, <1>3, <1>7, <1>11
  <2>3. Node(l, i) = Node(l, c * K + n - 1)
    BY <1>2, <1>11, <2>2, PadNodes
  <2>4. c * K + (n - 1) = c * K + n - 1
    BY <1>3
  <2>5. f[n - 1] = Node(l, c * K + (n - 1))
    BY <1>9, <2>1
  <2> QED BY <2>1, <2>3, <2>4, <2>5
<1>12. i \in Places(l, c) => f[Least(i - c * K, n - 1)] = Node(l, i)
  BY <1>10, <1>11 DEF Places
<1> QED BY <1>1, <1>4, <1>5, <1>8, <1>12

(* A worker's step of a build that goes right.                              *)
Executing(x, t) ==
  /\ TreeOK /\ Memory /\ ~Misbuilt /\ DataThere(segments)
  /\ \A id \in DOMAIN segments : DOMAIN segments[id] = {"ready", "size", "m_input_data"}
  /\ x \in Slots /\ t = task[x] /\ JobOK(t) /\ Given(m_results, segments, t) /\ Execute(x)

(* It puts its nodes into the results                                       *)
LEMMA ResultsAfter ==
  ASSUME NEW x, NEW t, Executing(x, t), NEW l \in Layers, NEW i \in 0 .. results_size(l) - 1
  PROVE  m_results'[l][i] = IF l = t.layer /\ l >= tree.store /\ i \in Places(l, t.segment)
                              THEN Node(l, i) ELSE m_results[l][i]
<1>0. /\ TreeOK /\ Memory /\ ~Misbuilt /\ x \in Slots /\ t = task[x] /\ JobOK(t)
      /\ Given(m_results, segments, t) /\ Execute(x)
  BY DEF Executing
<1>1. PICK base : WritesAt(t, base)
  BY <1>0, WriteBase
<1>2. PICK k, f : k = t.layer /\ f = Output(t)
  OBVIOUS
<1>3. CASE k >= tree.store
  <2>1. t.to = <<"results", k>> /\ base = 0
    BY <1>1, <1>2, <1>3 DEF WritesAt
  <2>2. t.to[1] = "results" /\ t.to[2] = k
    BY <2>1
  <2>3. m_results' = [m_results EXCEPT ![t.to[2]] = Stamp(t, f, m_results[t.to[2]])]
    BY <1>0, <1>2, <2>2, Executed
  <2>4. PICK data : data = m_results[k]
    OBVIOUS
  <2>5. m_results' = [m_results EXCEPT ![k] = Stamp(t, f, data)]
    BY ONLY <2>2, <2>3, <2>4
  <2>6. DOMAIN m_results = Layers /\ k \in Layers
    BY <1>0, <1>2 DEF Memory, JobOK
  <2>7. CASE l # k
    <3>1. m_results'[l] = m_results[l]
      BY ONLY <2>5, <2>6, <2>7, l \in Layers
    <3> QED BY <1>2, <2>7, <3>1
  <2>8. CASE l = k
    <3>1. m_results'[l] = Stamp(t, f, data)
      BY ONLY <2>5, <2>6, <2>8
    <3>2. i \in Int /\ i - base = i /\ i - base \in DOMAIN data
      <4>1. DOMAIN m_results[l] = 0 .. results_size(l) - 1
        BY <1>0 DEF Memory
      <4>2. i \in Int /\ i - base = i
        BY ONLY <2>1, i \in 0 .. results_size(l) - 1
      <4>3. data = m_results[l]
        BY ONLY <2>4, <2>8
      <4> QED BY ONLY <4>1, <4>2, <4>3, i \in 0 .. results_size(l) - 1
    <3>3. Stamp(t, f, data)[i - base]
            = IF i \in Places(k, t.segment) THEN Node(k, i) ELSE data[i - base]
      <4>1. Stamp(t, Output(t), data)[i - base]
              = IF i \in Places(t.layer, t.segment) THEN Node(t.layer, i) ELSE data[i - base]
        BY ONLY <1>0, <1>1, <3>2, Stamped
      <4> QED BY ONLY <1>2, <4>1
    <3> QED BY ONLY <1>2, <1>3, <2>4, <2>8, <3>1, <3>2, <3>3
  <2> QED BY <2>7, <2>8
<1>4. CASE ~(k >= tree.store)
  <2>1. t.to[1] # "results"
    BY <1>1, <1>2, <1>4 DEF WritesAt
  <2>2. m_results' = m_results
    BY <1>0, <2>1, Executed
  <2> QED BY <1>2, <1>4, <2>2
<1> QED BY <1>3, <1>4

(* or into the buffer of a segment.                                         *)
LEMMA SegmentsAfter ==
  ASSUME NEW x, NEW t, Executing(x, t), NEW l \in Layers \ {Root}, l < tree.store,
         NEW p \in Segment(l + 1), NEW id, id = <<l + 1, p>>, id \in DOMAIN segments
  PROVE  /\ id \in DOMAIN segments'
         /\ DOMAIN segments'[id].m_input_data = DOMAIN segments[id].m_input_data
         /\ \A i \in Int : i - Start(l + 1, p) \in DOMAIN segments[id].m_input_data =>
              segments'[id].m_input_data[i - Start(l + 1, p)]
                = IF l = t.layer /\ p = Parent(l, t.segment) /\ i \in Places(l, t.segment)
                    THEN Node(l, i) ELSE segments[id].m_input_data[i - Start(l + 1, p)]
<1>0. /\ TreeOK /\ Memory /\ ~Misbuilt /\ x \in Slots /\ t = task[x] /\ JobOK(t)
      /\ Given(m_results, segments, t) /\ Execute(x)
      /\ DOMAIN segments[id] = {"ready", "size", "m_input_data"}
  BY DEF Executing
<1>1. PICK base : WritesAt(t, base)
  BY <1>0, WriteBase
<1>2. PICK k, q, f, to, data :
        /\ k = t.layer /\ q = Parent(t.layer, t.segment) /\ f = Output(t) /\ to = <<k + 1, q>>
        /\ data = segments[id].m_input_data
  OBVIOUS
<1>3. CASE k >= tree.store
  <2>1. t.to[1] = "results"
    BY <1>1, <1>2, <1>3 DEF WritesAt
  <2>2. segments' = segments
    BY <1>0, <2>1, Executed
  <2>3. l # k
    <3>1. l \in Nat /\ tree.store \in Nat
      BY <1>0, LayersTyped DEF TreeOK, Shape
    <3> QED BY <1>3, <3>1
  <2> QED BY <1>2, <2>2, <2>3
<1>4. CASE ~(k >= tree.store)
  <2>1. t.to = <<"segment", k + 1, q>> /\ base = Start(k + 1, q)
    BY <1>1, <1>2, <1>4 DEF WritesAt
  <2>2. t.to[1] # "results" /\ <<t.to[2], t.to[3]>> = to
    BY <1>2, <2>1
  <2>3. segments' = [segments EXCEPT ![<<t.to[2], t.to[3]>>].m_input_data =
                       Stamp(t, f, segments[<<t.to[2], t.to[3]>>].m_input_data)]
    BY <1>0, <1>2, <2>2, Executed
  <2>4. segments' = [segments EXCEPT ![to].m_input_data = Stamp(t, f, segments[to].m_input_data)]
    BY ONLY <2>2, <2>3
  <2>5. CASE id # to
    <3>1. id \in DOMAIN segments' /\ segments'[id] = segments[id]
      BY ONLY <2>4, <2>5, id \in DOMAIN segments
    <3>2. ~(l = k /\ p = Parent(l, t.segment))
      BY <1>2, <2>5
    <3> QED BY ONLY <1>2, <3>1, <3>2
  <2>6. CASE id = to
    <3>1. /\ id \in DOMAIN segments' /\ segments'[id].m_input_data = Stamp(t, f, data)
      BY ONLY <1>0, <1>2, <2>4, <2>6, id \in DOMAIN segments
    <3>2. DOMAIN Stamp(t, f, data) = DOMAIN data
      BY DEF Stamp
    <3>3. l = k /\ p = q
      <4>1. l + 1 = k + 1 /\ p = q
        BY <1>2, <2>6
      <4>2. l \in Nat /\ k \in Nat
        BY <1>0, <1>2, LayersTyped DEF TreeOK, JobOK
      <4> QED BY <4>1, <4>2
    <3>4. ASSUME NEW i \in Int, i - base \in DOMAIN data
          PROVE  Stamp(t, f, data)[i - base]
                   = IF i \in Places(k, t.segment) THEN Node(k, i) ELSE data[i - base]
      <4>1. Stamp(t, Output(t), data)[i - base]
              = IF i \in Places(t.layer, t.segment) THEN Node(t.layer, i) ELSE data[i - base]
        BY ONLY <1>0, <1>1, <3>4, Stamped
      <4> QED BY ONLY <1>2, <4>1
    <3>5. base = Start(l + 1, p)
      BY <2>1, <3>3
    <3> QED BY ONLY <1>2, <3>1, <3>2, <3>3, <3>4, <3>5
  <2> QED BY <2>5, <2>6
<1> QED BY <1>3, <1>4

(* So a place that was right is right, and the task's own are.              *)
LEMMA HeldAfter ==
  ASSUME NEW x, NEW t, Executing(x, t), NEW l \in Layers, NEW c \in Segment(l),
         NEW i \in Places(l, c), Id(t) = <<l, c>> \/ Held(m_results, segments, l, c, i)
  PROVE  Held(m_results', segments', l, c, i)
<1>0. /\ TreeOK /\ t.layer \in Layers /\ t.segment \in Segment(t.layer)
      /\ DataThere(segments) /\ \A id : id \in DOMAIN segments' => id \in DOMAIN segments
  <2>1. TreeOK /\ t.layer \in Layers /\ t.segment \in Segment(t.layer) /\ DataThere(segments)
    BY DEF Executing, JobOK
  <2>2. \A id : id \in DOMAIN segments' => id \in DOMAIN segments
    <3>1. segments' = segments \/ \E id, new : segments' = [segments EXCEPT ![id].m_input_data = new]
      BY Executed DEF Executing
    <3> QED BY <3>1
  <2> QED BY <2>1, <2>2
<1>1. i \in 0 .. results_size(l) - 1
  <2>1. CASE l = Root
    <3>1. c = 0 /\ Places(Root, 0) = {0} /\ results_size(Root) = 1
      BY <1>0, <2>1, RootSegment DEF results_size
    <3> QED BY <2>1, <3>1
  <2>2. CASE l # Root
    BY <1>0, <2>2, PlaceBounds
  <2> QED BY <2>1, <2>2
<1>2. Id(t) = <<l, c>> <=> l = t.layer /\ c = t.segment
  BY DEF Id
<1>3. CASE l >= tree.store
  <2>1. m_results'[l][i] = IF l = t.layer /\ l >= tree.store /\ i \in Places(l, t.segment)
                             THEN Node(l, i) ELSE m_results[l][i]
    BY <1>1, ResultsAfter
  <2>2. Id(t) = <<l, c>> \/ m_results[l][i] = Node(l, i)
    BY <1>3 DEF Held
  <2>3. m_results'[l][i] = Node(l, i)
    BY ONLY <1>2, <1>3, <2>1, <2>2, i \in Places(l, c)
  <2> QED BY <1>3, <2>3 DEF Held
<1>4. CASE ~(l >= tree.store)
  <2>1. PICK p, id, o : p = Parent(l, c) /\ id = <<l + 1, p>> /\ o = i - Start(l + 1, p)
    OBVIOUS
  <2> SUFFICES ASSUME id \in DOMAIN segments' PROVE segments'[id].m_input_data[o] = Node(l, i)
    BY <1>4, <2>1 DEF Held
  <2>2. l \in Nat /\ Root \in Nat /\ tree.store \in Nat /\ tree.store <= Root
    BY <1>0, LayersTyped DEF TreeOK, Shape, Root, nof_layers
  <2>3. l \in Layers \ {Root} /\ l < tree.store
    BY <1>4, <2>2
  <2>4. p \in Segment(l + 1) /\ o \in 0 .. Count(l + 1, p) * input_size(l + 1) - 1
    BY <1>0, <2>1, <2>3, PlaceBounds
  <2>5. id \in DOMAIN segments /\ o \in DOMAIN segments[id].m_input_data /\ i \in Int
    <3>1. id \in DOMAIN segments
      BY <1>0
    <3>2. DOMAIN segments[id].m_input_data = 0 .. Count(l + 1, p) * input_size(l + 1) - 1
      BY <1>0, <2>1, <2>3, <2>4, <3>1 DEF DataThere
    <3> QED BY <1>1, <2>4, <3>1, <3>2
  <2>6. segments'[id].m_input_data[o]
          = IF l = t.layer /\ p = Parent(l, t.segment) /\ i \in Places(l, t.segment)
              THEN Node(l, i) ELSE segments[id].m_input_data[o]
    BY <2>1, <2>3, <2>4, <2>5, SegmentsAfter
  <2>7. Id(t) = <<l, c>> \/ segments[id].m_input_data[o] = Node(l, i)
    BY <1>4, <2>1, <2>5 DEF Held
  <2> QED BY ONLY <1>2, <2>1, <2>6, <2>7, i \in Places(l, c)
<1> QED BY <1>3, <1>4

(* A task that stays ready keeps the right inputs.                          *)
LEMMA ContentFrame ==
  ASSUME tree' = tree, NEW b, NEW i
  PROVE  /\ Content(b, i) = ContentIn(m_results, segments, b, i)
         /\ Content(b, i)' = ContentIn(m_results', segments', b, i)
<1>1. padded_leaves(i)' = padded_leaves(i)
  <2>1. Padding' = Padding /\ input_size(0)' = input_size(0)
    BY Frame DEF Padding
  <2> QED BY <2>1 DEF padded_leaves
<1>2. Content(b, i) = ContentIn(m_results, segments, b, i)
  BY Zenon DEF Content, ContentIn
<1>3. Content(b, i)' = ContentIn(m_results', segments', b, i)
  BY ONLY <1>1, tree' = tree, Zenon DEF Content, ContentIn
<1> QED BY <1>2, <1>3

LEMMA GivenStays ==
  ASSUME IndInv, [Next]_vars, tree' = tree, NEW slot \in Slots, Ready(slot), Ready(slot)',
         NEW t, t = task[slot], task'[slot] = t, Given(m_results, segments, t)
  PROVE  Given(m_results', segments', t)
<1> SUFFICES ASSUME NEW i \in 0 .. t.batch * input_size(t.layer) - 1
             PROVE  ContentIn(m_results', segments', t.from, t.first + i)
                      = Below(t.layer, Start(t.layer, t.segment) + i)
  BY DEF Given
<1>1. PICK b, j : b = t.from /\ j = t.first + i
  OBVIOUS
<1>2. Inputs(task[slot])' = Inputs(task[slot])
  BY InputsSteady
<1>3. Inputs(task[slot])[i] = Content(b, j)
  BY <1>1 DEF Inputs
<1>4. Inputs(task[slot])'[i] = Content(b, j)'
  <2>1. input_size(t.layer)' = input_size(t.layer)
    BY Frame
  <2> QED BY <1>1, <2>1 DEF Inputs
<1>5. ContentIn(m_results', segments', b, j) = ContentIn(m_results, segments, b, j)
  BY <1>2, <1>3, <1>4, ContentFrame
<1> QED BY <1>1, <1>5 DEF Given

(* A worker's step keeps what is right.                                     *)
LEMMA ExecuteRight ==
  ASSUME IndInv, Running, NEW done, Progress(done), ~Misbuilt,
         Right(m_results, segments, task, done), NEW x \in Slots, Execute(x)
  PROVE  Right(m_results', segments', task', done)
<1>1. PICK t : t = task[x]
  OBVIOUS
<1>2. /\ t # NoTask /\ t.status = "READY" /\ task' = [task EXCEPT ![x].status = "COMPLETED"]
      /\ tree' = tree
  BY <1>1 DEF Execute
<1>3. /\ TreeOK /\ Memory /\ DOMAIN task = Slots /\ JobOK(t) /\ t \in HashTasks
  BY <1>1, <1>2 DEF Running, Memory, Jobs, JobOK
<1>4. /\ AllPlaced(m_results, segments, done \cup Ended(task)) /\ DataThere(segments)
      /\ \A y \in Slots : task[y] # NoTask /\ task[y].status = "READY"
           => Given(m_results, segments, task[y])
  BY DEF Right
<1>5. Executing(x, t)
  <2>1. \A id \in DOMAIN segments : DOMAIN segments[id] = {"ready", "size", "m_input_data"}
    BY DEF Progress, Accounts
  <2>2. Given(m_results, segments, t)
    BY <1>1, <1>2, <1>4
  <2> QED BY <1>1, <1>3, <1>4, <2>1, <2>2 DEF Executing
<1>6. /\ \A y \in Slots \ {x} : task'[y] = task[y]
      /\ task'[x].status = "COMPLETED" /\ Id(task'[x]) = Id(t)
  BY <1>1, <1>2, <1>3 DEF HashTasks, Id
<1>7. Ended(task') \subseteq Ended(task) \cup {Id(t)}
  <2> SUFFICES ASSUME NEW y \in Slots, task'[y] # NoTask, task'[y].status = "COMPLETED"
               PROVE  Id(task'[y]) \in Ended(task) \cup {Id(t)}
    BY DEF Ended
  <2>1. CASE y = x
    BY <1>6, <2>1
  <2>2. CASE y # x
    <3>1. task'[y] = task[y]
      BY <1>6, <2>2
    <3> QED BY <3>1 DEF Ended
  <2> QED BY <2>1, <2>2
<1>8. AllPlaced(m_results', segments', done \cup Ended(task'))
  <2> SUFFICES ASSUME NEW l \in Layers, NEW c \in Segment(l),
                      <<l, c>> \in done \cup Ended(task'), NEW i \in Places(l, c)
               PROVE  Held(m_results', segments', l, c, i)
    BY DEF AllPlaced, Placed
  <2>1. Id(t) = <<l, c>> \/ Held(m_results, segments, l, c, i)
    <3>1. <<l, c>> \in done \cup Ended(task) \/ Id(t) = <<l, c>>
      BY <1>7
    <3> QED BY <1>4, <3>1 DEF AllPlaced, Placed
  <2> QED BY <1>5, <2>1, HeldAfter
<1>9. DataThere(segments')
  <2> SUFFICES ASSUME NEW l \in Layers \ {Root}, NEW s \in Segment(l + 1), l < tree.store,
                      <<l + 1, s>> \in DOMAIN segments'
               PROVE  DOMAIN segments'[<<l + 1, s>>].m_input_data
                        = 0 .. Count(l + 1, s) * input_size(l + 1) - 1
    BY DEF DataThere
  <2>1. <<l + 1, s>> \in DOMAIN segments
    <3>1. segments' = segments \/ \E id, new : segments' = [segments EXCEPT ![id].m_input_data = new]
      BY Executed DEF Executing
    <3> QED BY <3>1
  <2>2. DOMAIN segments'[<<l + 1, s>>].m_input_data = DOMAIN segments[<<l + 1, s>>].m_input_data
    BY <1>5, <2>1, SegmentsAfter
  <2> QED BY <1>4, <2>1, <2>2 DEF DataThere
<1>10. ASSUME NEW y \in Slots, task'[y] # NoTask, task'[y].status = "READY"
       PROVE  Given(m_results', segments', task'[y])
  <2>1. y # x
    BY <1>6, <1>10
  <2>2. PICK u : u = task[y]
    OBVIOUS
  <2>3. task'[y] = u
    BY <1>6, <2>1, <2>2
  <2>4. Ready(y) /\ Ready(y)'
    BY <1>10, <2>2, <2>3 DEF Ready
  <2>5. Given(m_results, segments, u)
    BY <1>4, <2>2, <2>4 DEF Ready
  <2>6. [Next]_vars
    BY DEF Next
  <2>7. Given(m_results', segments', u)
    BY ONLY <1>2, <2>2, <2>3, <2>4, <2>5, <2>6, GivenStays, IndInv, y \in Slots
  <2> QED BY <2>3, <2>7
<1> QED BY <1>8, <1>9, <1>10 DEF Right

-----------------------------------------------------------------------------
(* The calling thread's steps.                                              *)
(* What dispatch_task makes: the task,                                      *)
LEMMA DispatchMakes ==
  ASSUME NEW x \in Slots, NEW l, NEW s, NEW from, NEW first, NEW S,
         dispatch_task(x, l, s, from, first, S)
  PROVE  /\ \E j : /\ task' = [task EXCEPT ![x] = j]
                   /\ j.status = "READY" /\ HasInput(j, l, s, from, first)
         /\ segments' = IF l = Root THEN S
                        ELSE segment_db(S, <<l + 1, Parent(l, s)>>, l, s, Pad(l, s))
<1> DEFINE Job(n, pad, to, at) ==
             [status |-> "READY", layer |-> l, segment |-> s, from |-> from, first |-> first,
              batch |-> Count(l, s), next |-> n, padding |-> pad, to |-> to, at |-> at]
<1>1. \A n, pad, to, at : /\ Job(n, pad, to, at).status = "READY"
                          /\ HasInput(Job(n, pad, to, at), l, s, from, first)
  BY DEF HasInput
<1>2. \E n, pad, to, at : task' = [task EXCEPT ![x] = Job(n, pad, to, at)]
  <2>1. CASE l = Root
    <3>1. task' = [task EXCEPT ![x] = Job(0, 0, <<"results", l>>, 0)]
      BY <2>1 DEF dispatch_task, Count
    <3> HIDE DEF Job
    <3> QED BY <3>1
  <2>2. CASE l # Root
    <3> DEFINE p == Parent(l, s)
               to == IF l < tree.store THEN <<"segment", l + 1, p>> ELSE <<"results", l>>
               at == IF l < tree.store THEN (s * K) % (K * input_size(l + 1)) ELSE s * K
    <3>1. task' = [task EXCEPT ![x] = Job(p, Pad(l, s), to, at)]
      BY <2>2 DEF dispatch_task, Count, Parent, Pad
    <3> HIDE DEF Job, p, to, at
    <3> QED BY <3>1
  <2> QED BY <2>1, <2>2
<1>3. segments' = IF l = Root THEN S
                  ELSE segment_db(S, <<l + 1, Parent(l, s)>>, l, s, Pad(l, s))
  BY DEF dispatch_task, Parent, Pad
<1> HIDE DEF Job
<1>4. PICK j : /\ task' = [task EXCEPT ![x] = j]
               /\ j.status = "READY" /\ HasInput(j, l, s, from, first)
  <2>1. PICK n, pad, to, at : task' = [task EXCEPT ![x] = Job(n, pad, to, at)]
    BY ONLY <1>2
  <2> QED BY ONLY <1>1, <2>1
<1> QED BY ONLY <1>3, <1>4

(* and, when there is none, an empty buffer of the length of the inputs.    *)
LEMMA DispatchGrows ==
  ASSUME TreeOK, NEW x \in Slots, NEW l \in Layers, NEW s \in Segment(l), NEW from, NEW first, NEW S,
         dispatch_task(x, l, s, from, first, S), NEW p, p = Parent(l, s)
  PROVE  /\ \A id \in DOMAIN S : id \in DOMAIN segments'
         /\ \A id \in DOMAIN segments' : id \notin DOMAIN S =>
              /\ l # Root /\ id = <<l + 1, p>>
              /\ l < tree.store =>
                   DOMAIN segments'[id].m_input_data = 0 .. Count(l + 1, p) * input_size(l + 1) - 1
<1>1. CASE l = Root
  BY <1>1, DispatchMakes
<1>2. CASE l # Root
  <2>1. PICK id, n, size : /\ id = <<l + 1, p>> /\ n = Pad(l, s)
                           /\ size = Count(l + 1, p) * input_size(l + 1)
    OBVIOUS
  <2>2. segments' = segment_db(S, id, l, s, n)
    BY <1>2, <2>1, DispatchMakes
  <2>3. id[1] = l + 1 /\ id[2] = p
    BY <2>1
  <2>4. size = (IF is_last(id[1], id[2]) THEN last_batch(id[1]) ELSE K) * input_size(id[1])
    BY <2>1, <2>3 DEF Count
  <2>5. PICK new : new = [ready |-> 0, size |-> size,
                          m_input_data |-> IF l < tree.store THEN Uninitialised(size) ELSE <<>>]
    OBVIOUS
  <2>6. segments' = [y \in DOMAIN S \cup {id} |->
                      IF y = id THEN [(IF id \in DOMAIN S THEN S[id] ELSE new) EXCEPT !.ready = @ + n]
                                ELSE S[y]]
    BY <2>2, <2>4, <2>5, Zenon DEF segment_db
  <2>7. id \notin DOMAIN S => segments'[id] = [new EXCEPT !.ready = @ + n]
    BY ONLY <2>6
  <2>8. l < tree.store => [new EXCEPT !.ready = @ + n].m_input_data = Uninitialised(size)
    BY ONLY <2>5
  <2>9. DOMAIN Uninitialised(size) = 0 .. size - 1
    BY DEF Uninitialised
  <2> QED BY ONLY <1>2, <2>1, <2>6, <2>7, <2>8, <2>9
<1> QED BY <1>1, <1>2

(* Before a slot gets its next task: made are the segments whose task has   *)
(* completed, done those without one in another slot, S the map.            *)
Before(x, S, done, sent, made) ==
  /\ SlotFree(x, done, sent, S) /\ m_results' = m_results
  /\ done \subseteq made /\ Ended(task) \subseteq made /\ made \subseteq sent
  /\ AllPlaced(m_results, S, made) /\ DataThere(S)
  /\ \A y \in Slots \ {x} : Ready(y) => Given(m_results, segments, task[y])

(* The task that is sent has the right inputs.                              *)
Giving(l, s, from, first, S, made) ==
  \A j, T : HasInput(j, l, s, from, first) /\ DOMAIN S \subseteq DOMAIN T
              /\ AllPlaced(m_results, T, made) => Given(m_results, T, j)

(* The other tasks stay as they are.                                        *)
LEMMA OthersRight ==
  ASSUME IndInv, [Next]_vars, NEW x \in Slots, NEW S, NEW done, NEW sent, NEW made,
         Before(x, S, done, sent, made), \A y \in Slots \ {x} : task'[y] = task[y],
         \/ task'[x] = NoTask
         \/ task'[x].status = "READY" /\ Given(m_results, segments', task'[x]),
         AllPlaced(m_results, segments', made), DataThere(segments')
  PROVE  Right(m_results', segments', task', done)
<1>1. /\ tree' = tree /\ m_results' = m_results /\ done \subseteq made /\ Ended(task) \subseteq made
      /\ \A y \in Slots \ {x} : Ready(y) => Given(m_results, segments, task[y])
  BY DEF Before, SlotFree
<1>2. done \cup Ended(task') \subseteq made
  <2> SUFFICES ASSUME NEW y \in Slots, task'[y] # NoTask, task'[y].status = "COMPLETED"
               PROVE  Id(task'[y]) \in made
    BY <1>1 DEF Ended
  <2>1. y # x
    OBVIOUS
  <2>2. task'[y] = task[y]
    BY <2>1
  <2> QED BY <1>1, <2>2 DEF Ended
<1>3. ASSUME NEW y \in Slots, task'[y] # NoTask, task'[y].status = "READY"
      PROVE  Given(m_results, segments', task'[y])
  <2>1. CASE y = x
    BY <1>3, <2>1
  <2>2. CASE y # x
    <3>1. PICK u : u = task[y]
      OBVIOUS
    <3>2. task'[y] = u
      BY <2>2, <3>1
    <3>3. Ready(y) /\ Ready(y)'
      BY <1>3, <3>1, <3>2 DEF Ready
    <3>4. Given(m_results, segments, u)
      BY <1>1, <2>2, <3>1, <3>3
    <3>5. Given(m_results', segments', u)
      BY ONLY <1>1, <3>1, <3>2, <3>3, <3>4, GivenStays, IndInv, [Next]_vars, y \in Slots
    <3> QED BY ONLY <1>1, <3>2, <3>5
  <2> QED BY <2>1, <2>2
<1>4. AllPlaced(m_results, segments', done \cup Ended(task'))
  BY <1>2 DEF AllPlaced
<1> QED BY <1>1, <1>3, <1>4 DEF Right

(* A segment that was not sent is sent.                                     *)
LEMMA DispatchRight ==
  ASSUME IndInv, [Next]_vars, NEW x \in Slots, NEW l \in Layers, NEW s \in Segment(l),
         NEW from, NEW first, NEW S, NEW done, NEW sent, NEW made,
         Before(x, S, done, sent, made), <<l, s>> \notin sent,
         dispatch_task(x, l, s, from, first, S), Giving(l, s, from, first, S, made)
  PROVE  Right(m_results', segments', task', done)
<1>1. /\ TreeOK /\ DOMAIN task = Slots /\ tree' = tree /\ m_results' = m_results
      /\ Accounts(done, sent, S) /\ Ordered(done, sent) /\ done \subseteq sent
      /\ done \subseteq made /\ Ended(task) \subseteq made /\ made \subseteq sent
      /\ AllPlaced(m_results, S, made) /\ DataThere(S)
      /\ \A y \in Slots \ {x} : Ready(y) => Given(m_results, segments, task[y])
  BY DEF Before, SlotFree
<1>2. PICK j : /\ task' = [task EXCEPT ![x] = j]
               /\ j.status = "READY" /\ HasInput(j, l, s, from, first)
  BY DispatchMakes
<1>3. PICK p, T : p = Parent(l, s) /\ T = segments'
  OBVIOUS
<1>4. /\ DOMAIN S \subseteq DOMAIN T
      /\ \A id \in DOMAIN T : id \notin DOMAIN S =>
           /\ l # Root /\ id = <<l + 1, p>>
           /\ l < tree.store =>
                DOMAIN T[id].m_input_data = 0 .. Count(l + 1, p) * input_size(l + 1) - 1
  BY <1>1, <1>3, DispatchGrows
<1>5. \A id \in DOMAIN S : T[id].m_input_data = S[id].m_input_data
  <2>1. Kept(x, S)
    BY <1>1, DispatchKeeps
  <2> QED BY <1>1, <1>3, <2>1 DEF Kept, Accounts
<1>6. AllPlaced(m_results, T, made)
  <2> SUFFICES ASSUME NEW k \in Layers, NEW c \in Segment(k), <<k, c>> \in made,
                      NEW i \in Places(k, c)
               PROVE  Held(m_results, T, k, c, i)
    BY DEF AllPlaced, Placed
  <2>1. Held(m_results, S, k, c, i)
    BY <1>1 DEF AllPlaced, Placed
  <2>2. PICK q, id : q = Parent(k, c) /\ id = <<k + 1, q>>
    OBVIOUS
  <2>3. CASE k >= tree.store
    BY <2>1, <2>3 DEF Held
  <2>4. CASE ~(k >= tree.store) /\ id \notin DOMAIN T
    BY <2>2, <2>4 DEF Held
  <2>5. CASE ~(k >= tree.store) /\ id \in DOMAIN S
    BY <1>5, <2>1, <2>2, <2>5 DEF Held
  <2>6. CASE id \in DOMAIN T /\ id \notin DOMAIN S
    <3>1. l # Root /\ id = <<l + 1, p>> /\ l \in Nat /\ k \in Nat
      BY <1>1, <1>4, <2>6, LayersTyped DEF TreeOK
    <3>2. k = l /\ q = p
      BY <2>2, <3>1
    <3>3. p \in Segment(l + 1) /\ c \in Children(l, p) /\ s \in Children(l, p)
      BY <1>1, <1>3, <2>2, <3>1, <3>2, ParentTyped DEF Children
    <3>4. <<l + 1, p>> \in done
      <4>1. <<l, c>> \in sent
        BY <1>1, <3>2
      <4>2. <<l + 1, p>> \notin DOMAIN S /\ l \in Layers \ {Root}
        BY <2>6, <3>1
      <4> QED BY <1>1, <3>3, <4>1, <4>2 DEF Accounts
    <3>5. <<l, s>> \in done
      <4>1. <<l + 1, p>> \in sent /\ l \in Layers \ {Root}
        BY <1>1, <3>1, <3>4
      <4> QED BY <1>1, <3>3, <4>1 DEF Ordered
    <3> QED BY <1>1, <3>5
  <2> QED BY <2>3, <2>4, <2>5, <2>6
<1>7. DataThere(T)
  <2> SUFFICES ASSUME NEW k \in Layers \ {Root}, NEW q \in Segment(k + 1), k < tree.store,
                      NEW id, id = <<k + 1, q>>, id \in DOMAIN T
               PROVE  DOMAIN T[id].m_input_data = 0 .. Count(k + 1, q) * input_size(k + 1) - 1
    BY DEF DataThere
  <2>1. CASE id \in DOMAIN S
    BY <1>1, <1>5, <2>1 DEF DataThere
  <2>2. CASE id \notin DOMAIN S
    <3>1. l # Root /\ id = <<l + 1, p>> /\ l \in Nat /\ k \in Nat
      BY <1>1, <1>4, <2>2, LayersTyped DEF TreeOK
    <3>2. k = l /\ q = p
      BY <3>1
    <3> QED BY <1>4, <2>2, <3>2
  <2> QED BY <2>1, <2>2
<1>8. task'[x] = j /\ \A y \in Slots \ {x} : task'[y] = task[y]
  BY <1>1, <1>2
<1>9. task'[x].status = "READY" /\ Given(m_results, T, task'[x])
  BY <1>2, <1>4, <1>6, <1>8 DEF Giving
<1> QED BY ONLY <1>3, <1>6, <1>7, <1>8, <1>9, OthersRight, IndInv, [Next]_vars, x \in Slots,
                Before(x, S, done, sent, made)

(* A whole segment of layer 0 reads its leaves,                             *)
LEMMA LeavesGiving ==
  ASSUME TreeOK, NEW s \in Segment(0), tree.leaves = Capacity \/ s # max_segment(0),
         NEW S, NEW made
  PROVE  Giving(0, s, <<"leaves">>, s * K * input_size(0), S, made)
<1>1. /\ s * K * input_size(0) + Count(0, s) * input_size(0) <= tree.leaves
  BY LeavesThere
<1>2. 0 \in Layers /\ input_size(0) \in Nat /\ s * K \in Nat /\ Count(0, s) \in Nat
      /\ tree.leaves \in Nat
  BY LayersTyped, SegmentEnds DEF TreeOK
<1>3. PICK first, size : first = s * K * input_size(0) /\ size = Count(0, s) * input_size(0)
  OBVIOUS
<1>4. first \in Nat /\ size \in Nat /\ first + size <= tree.leaves
  BY <1>1, <1>2, <1>3
<1>5. ASSUME NEW R, NEW T, NEW i \in 0 .. size - 1
      PROVE  ContentIn(R, T, <<"leaves">>, first + i) = Below(0, Start(0, s) + i)
  <2>1. PICK j : j = first + i
    OBVIOUS
  <2>2. j < tree.leaves
    BY ONLY <1>2, <1>4, <2>1, i \in 0 .. size - 1
  <2>3. ContentIn(R, T, <<"leaves">>, j) = Leaf(j)
    BY ONLY <2>2, Zenon DEF ContentIn
  <2>4. Below(0, j) = Leaf(j)
    BY ONLY <2>2 DEF Below
  <2>5. Start(0, s) + i = j
    BY <1>3, <2>1 DEF Start
  <2> QED BY <2>1, <2>3, <2>4, <2>5
<1>6. ASSUME NEW j, NEW T, HasInput(j, 0, s, <<"leaves">>, first)
      PROVE  Given(m_results, T, j)
  <2>1. PICK b : b = <<"leaves">>
    OBVIOUS
  <2>2. /\ j.layer = 0 /\ j.segment = s /\ j.batch = Count(0, s)
        /\ j.from = b /\ j.first = first
    BY ONLY <1>6, <2>1, Zenon DEF HasInput
  <2>3. \A i \in 0 .. size - 1 : ContentIn(m_results, T, b, first + i) = Below(0, Start(0, s) + i)
    BY ONLY <1>5, <2>1
  <2> QED BY ONLY <1>3, <2>2, <2>3 DEF Given
<1> QED BY ONLY <1>3, <1>6 DEF Giving

(* the last one reads the padded leaves,                                    *)
LEMMA PaddedGiving ==
  ASSUME TreeOK, ~Misbuilt, tree.leaves < Capacity, NEW s, s = max_segment(0),
         NEW b, b = <<"padded leaves">>, NEW S, NEW made
  PROVE  Giving(0, s, b, 0, S, made)
<1>1. /\ s \in Segment(0) /\ Count(0, s) = last_batch(0) /\ input_size(0) \in Nat
      /\ last_batch(0) \in Nat
  <2>1. 0 \in Layers
    BY ONLY TreeOK, LayersTyped DEF TreeOK
  <2>2. s \in Segment(0) /\ input_size(0) \in Nat /\ last_batch(0) \in Nat
    BY ONLY TreeOK, s = max_segment(0), <2>1, LayersTyped, LayerCut, MerkleAssumption
       DEF TreeOK, Segment
  <2> QED BY <2>1, <2>2, SegmentEnds
<1>2. ~TailMisplaced
  BY DEF Misbuilt
<1>3. PICK size : size = Count(0, s) * input_size(0)
  OBVIOUS
<1>4. size \in Nat
  BY ONLY <1>1, <1>3
<1>5. ASSUME NEW R, NEW T, NEW i \in 0 .. size - 1
      PROVE  ContentIn(R, T, b, 0 + i) = Below(0, Start(0, s) + i)
  <2>1. padded_leaves(i) = Below(0, Start(0, s) + i)
    BY <1>1, <1>2, <1>3, TailPlaced
  <2>2. 0 + i = i
    BY ONLY <1>4, i \in 0 .. size - 1
  <2>3. ContentIn(R, T, b, i) = padded_leaves(i)
    <3>1. b[1] = "padded leaves"
      <4>1. \A x : <<x>>[1] = x
        OBVIOUS
      <4> QED BY ONLY <4>1, b = <<"padded leaves">>, Zenon
    <3> QED BY ONLY <3>1 DEF ContentIn
  <2> QED BY ONLY <2>1, <2>2, <2>3
<1>6. ASSUME NEW j, NEW T, HasInput(j, 0, s, b, 0)
      PROVE  Given(m_results, T, j)
  <2>1. /\ j.layer = 0 /\ j.segment = s /\ j.batch = Count(0, s)
        /\ j.from = b /\ j.first = 0
    BY ONLY <1>6 DEF HasInput
  <2> QED BY ONLY <1>3, <1>5, <2>1 DEF Given
<1> QED BY ONLY <1>6 DEF Giving

(* and one of a higher layer what has been made for it.                     *)
LEMMA ParentGiving ==
  ASSUME TreeOK, NEW l \in Layers \ {Root}, NEW s \in Segment(l + 1), NEW S, NEW done, NEW sent,
         NEW made, done \subseteq made, <<l + 1, s>> \in DOMAIN S,
         \A c \in Children(l, s) : <<l, c>> \in done,
         Counted(done, sent, l, s) = Reads(l + 1, s)
  PROVE  Giving(l + 1, s, SegmentInputs(l + 1, s).buffer, SegmentInputs(l + 1, s).first, S, made)
<1>1. PICK k, from, first, base, size :
        /\ k = l + 1 /\ from = SegmentInputs(l + 1, s).buffer
        /\ first = SegmentInputs(l + 1, s).first
        /\ base = Start(l + 1, s) /\ size = Count(l + 1, s) * input_size(l + 1)
  OBVIOUS
<1>2. /\ l \in Nat /\ k \in Layers /\ s \in Segment(k) /\ k # 0 /\ k - 1 = l
      /\ tree.store \in Nat /\ base \in Nat /\ size \in Nat
  <2>1. l \in Nat /\ k \in Layers /\ s \in Segment(k) /\ tree.store \in Nat /\ input_size(k) \in Nat
    BY <1>1, LayersTyped, TwoLayers DEF TreeOK, Shape
  <2>2. s * K \in Nat /\ Count(k, s) \in Nat
    BY <2>1, SegmentEnds
  <2>3. base = s * K * input_size(k) /\ size = Count(k, s) * input_size(k)
    BY <1>1 DEF Start
  <2> QED BY <1>1, <2>1, <2>2, <2>3
<1>3. ASSUME NEW T, DOMAIN S \subseteq DOMAIN T, AllPlaced(m_results, T, made),
             NEW i \in 0 .. size - 1
      PROVE  ContentIn(m_results, T, from, first + i) = Below(k, base + i)
  <2>1. PICK g : g = base + i
    OBVIOUS
  <2>2. g \in Reads(k, s) /\ g - base = i
    <3>1. Reads(k, s) = base .. base + size - 1
      BY <1>1 DEF Reads, Start
    <3> QED BY ONLY <1>2, <2>1, <3>1, i \in 0 .. size - 1
  <2>3. PICK c \in Children(l, s) : g \in Places(l, c)
    BY <1>1, <2>2 DEF Counted, Places
  <2>4. c \in Segment(l) /\ Parent(l, c) = s /\ <<l, c>> \in made
    BY DEF Children
  <2>5. Held(m_results, T, l, c, g)
    BY <1>3, <2>3, <2>4 DEF AllPlaced, Placed
  <2>6. Below(k, g) = Node(l, g)
    BY <1>2 DEF Below
  <2>7. CASE k <= tree.store
    <3>1. from = <<"segment", k, s>> /\ first = 0
      BY <1>1, <2>7 DEF SegmentInputs
    <3>2. ~(l >= tree.store) /\ <<k, s>> \in DOMAIN T
      BY <1>1, <1>2, <1>3, <2>7
    <3>3. T[<<k, s>>].m_input_data[i] = Node(l, g)
      BY <1>1, <2>2, <2>4, <2>5, <3>2 DEF Held
    <3>4. first + i = i
      BY <1>2, <3>1
    <3>5. ContentIn(m_results, T, from, i) = T[<<k, s>>].m_input_data[i]
      BY ONLY <3>1 DEF ContentIn
    <3> QED BY ONLY <2>1, <2>6, <3>3, <3>4, <3>5
  <2>8. CASE ~(k <= tree.store)
    <3>1. from = <<"results", l>> /\ first = base
      BY <1>1, <1>2, <2>8 DEF SegmentInputs, Start
    <3>2. l >= tree.store
      BY <1>1, <1>2, <2>8
    <3>3. m_results[l][g] = Node(l, g)
      BY <2>5, <3>2 DEF Held
    <3>4. ContentIn(m_results, T, from, g) = m_results[l][g]
      BY ONLY <3>1 DEF ContentIn
    <3> QED BY ONLY <2>1, <2>6, <3>1, <3>3, <3>4
  <2> QED BY <2>7, <2>8
<1>4. ASSUME NEW j, NEW T, HasInput(j, k, s, from, first), DOMAIN S \subseteq DOMAIN T,
             AllPlaced(m_results, T, made)
      PROVE  Given(m_results, T, j)
  <2>1. /\ j.layer = k /\ j.segment = s /\ j.batch = Count(k, s)
        /\ j.from = from /\ j.first = first
    BY ONLY <1>4 DEF HasInput
  <2>2. \A i \in 0 .. size - 1 : ContentIn(m_results, T, from, first + i) = Below(k, base + i)
    BY ONLY <1>3, <1>4
  <2> QED BY ONLY <1>1, <2>1, <2>2 DEF Given
<1>5. Giving(k, s, from, first, S, made)
  BY ONLY <1>4 DEF Giving
<1> QED BY ONLY <1>1, <1>5

(* A slot gets the next segment of layer 0, or none.                        *)
LEMMA LeavesRight ==
  ASSUME IndInv, [Next]_vars, ~Misbuilt, NEW x \in Slots, NEW S, NEW done, NEW sent, NEW made,
         Before(x, S, done, sent, made), Sending, Leaves(sent, l0_segment_idx), SendLeaves(x, S)
  PROVE  Right(m_results', segments', task', done)
<1>1. /\ TreeOK /\ DOMAIN task = Slots
      /\ AllPlaced(m_results, S, made) /\ DataThere(S)
  BY DEF Before, SlotFree
<1>2. CASE l0_segment_idx > max_segment(0)
  <2>1. task' = [task EXCEPT ![x] = NoTask] /\ segments' = S
    BY <1>2 DEF SendLeaves
  <2>2. task'[x] = NoTask /\ \A y \in Slots \ {x} : task'[y] = task[y]
    BY <1>1, <2>1
  <2>3. AllPlaced(m_results, segments', made) /\ DataThere(segments')
    BY <1>1, <2>1
  <2>4. \/ task'[x] = NoTask
        \/ task'[x].status = "READY" /\ Given(m_results, segments', task'[x])
    BY <2>2
  <2> QED BY ONLY <2>2, <2>3, <2>4, OthersRight, IndInv, [Next]_vars, x \in Slots,
                  Before(x, S, done, sent, made)
<1>3. CASE ~(l0_segment_idx > max_segment(0))
  <2>1. PICK s, padded, leaves, here :
          /\ s = l0_segment_idx /\ padded = <<"padded leaves">> /\ leaves = <<"leaves">>
          /\ here = s * K * input_size(0)
    OBVIOUS
  <2>2. \/ padding_required /\ s = max_segment(0) /\ dispatch_task(x, 0, s, padded, 0, S)
        \/ /\ ~(padding_required /\ s = max_segment(0))
           /\ dispatch_task(x, 0, s, leaves, here, S)
    BY ONLY <1>3, <2>1, SendLeaves(x, S), Zenon DEF SendLeaves
  <2>3. 0 \in Layers /\ max_segment(0) \in Nat
    BY ONLY <1>1, LayersTyped, LayerCut, MerkleAssumption DEF TreeOK
  <2>4. s \in Nat /\ s <= max_segment(0) /\ (padding_required <=> tree.leaves < Capacity)
    <3>1. PICK i : i = s
      OBVIOUS
    <3>2. i = l0_segment_idx
      BY ONLY <2>1, <3>1, Zenon
    <3>3. i \in Nat /\ i <= max_segment(0) /\ (padding_required <=> tree.leaves < Capacity)
      BY ONLY <1>3, <2>3, <3>2, Sending DEF Sending
    <3> QED BY ONLY <3>1, <3>3
  <2>5. s \in Segment(0)
    BY ONLY <2>3, <2>4 DEF Segment
  <2>6. <<0, s>> \notin sent
    <3>1. s = l0_segment_idx
      BY ONLY <2>1, Zenon
    <3> QED BY ONLY <2>4, <2>5, <3>1, Leaves(sent, l0_segment_idx) DEF Leaves
  <2>7. CASE padding_required /\ s = max_segment(0) /\ dispatch_task(x, 0, s, padded, 0, S)
    <3>1. padded = <<"padded leaves">>
      BY ONLY <2>1, Zenon
    <3>2. Giving(0, s, padded, 0, S, made)
      <4>1. tree.leaves < Capacity /\ s = max_segment(0)
        BY ONLY <2>4, <2>7
      <4> QED BY ONLY <1>1, <3>1, <4>1, PaddedGiving, ~Misbuilt, Zenon
    <3> QED BY ONLY <2>3, <2>5, <2>6, <2>7, <3>2, DispatchRight, IndInv, [Next]_vars, x \in Slots,
                    Before(x, S, done, sent, made)
  <2>8. CASE ~(padding_required /\ s = max_segment(0)) /\ dispatch_task(x, 0, s, leaves, here, S)
    <3>1. leaves = <<"leaves">> /\ here = s * K * input_size(0)
      BY ONLY <2>1, Zenon
    <3>2. tree.leaves = Capacity \/ s # max_segment(0)
      <4>1. tree.leaves <= Capacity /\ tree.leaves \in Nat /\ Capacity \in Nat
        <5>1. nof_hashes(0) \in Nat /\ input_size(0) \in Nat
          BY ONLY <1>1, <2>3, LayersTyped, LayersPositive DEF TreeOK
        <5> QED BY ONLY <1>1, <5>1 DEF TreeOK, Capacity
      <4> QED BY ONLY <2>4, <2>8, <4>1
    <3>3. Giving(0, s, leaves, here, S, made)
      BY ONLY <1>1, <2>5, <3>1, <3>2, LeavesGiving
    <3> QED BY ONLY <2>3, <2>5, <2>6, <2>8, <3>3, DispatchRight, IndInv, [Next]_vars, x \in Slots,
                    Before(x, S, done, sent, made)
  <2> QED BY ONLY <2>2, <2>7, <2>8
<1> QED BY <1>2, <1>3

LEMMA UseIdleRight ==
  ASSUME IndInv, Running, NEW done, Progress(done), ~Misbuilt,
         Right(m_results, segments, task, done), NEW x \in Slots, UseIdle(x)
  PROVE  Right(m_results', segments', task', done)
<1>1. /\ task[x] = NoTask /\ SendLeaves(x, segments) /\ tree' = tree /\ m_results' = m_results
  BY DEF UseIdle
<1>2. TreeOK /\ Memory /\ Sending /\ Jobs /\ DOMAIN task = Slots
  BY DEF Running, Memory
<1>3. PICK S, sent, made : S = segments /\ sent = done \cup Flight /\ made = done \cup Ended(task)
  OBVIOUS
<1>4. SlotFree(x, done, sent, S)
  BY <1>1, <1>2, <1>3, Idle
<1>5. Leaves(sent, l0_segment_idx)
  BY <1>3 DEF Progress
<1>6. made \subseteq sent
  BY <1>3 DEF Ended, Flight
<1>7. Before(x, S, done, sent, made)
  BY <1>1, <1>3, <1>4, <1>6 DEF Before, Right, Ready
<1>8. [Next]_vars
  BY DEF Next, Main
<1>9. SendLeaves(x, S)
  BY <1>1, <1>3
<1> QED BY ONLY <1>2, <1>5, <1>7, <1>8, <1>9, LeavesRight, IndInv, ~Misbuilt, x \in Slots

LEMMA UseCompletedRight ==
  ASSUME IndInv, Running, NEW done, Progress(done), ~Misbuilt,
         Right(m_results, segments, task, done), NEW x \in Slots, UseCompleted(x),
         NEW t, t = task[x],
         NEW all, all = IF t.layer = Root THEN done ELSE done \cup {Id(t)}
  PROVE  Right(m_results', segments', task', all)
<1>1. t = task[x]
  OBVIOUS
<1>2. PICK S, id : S = MapWithout(t) /\ id = <<t.layer + 1, t.next>>
  OBVIOUS
<1>3. /\ tree' = tree /\ m_results' = m_results /\ t # NoTask /\ t.status = "COMPLETED"
      /\ \/ t.layer = Root /\ UNCHANGED <<task, segments>>
         \/ /\ t.layer # Root /\ S[id].ready >= S[id].size
            /\ dispatch_task(x, t.layer + 1, t.next, SegmentInputs(t.layer + 1, t.next).buffer,
                             SegmentInputs(t.layer + 1, t.next).first, S)
         \/ t.layer # Root /\ SendLeaves(x, S)
  BY <1>1, <1>2, Zenon DEF UseCompleted, Id, MapWithout
<1>4. TreeOK /\ Memory /\ Sending /\ Jobs /\ DOMAIN task = Slots
  BY DEF Running, Memory
<1>5. /\ AllPlaced(m_results, segments, done \cup Ended(task)) /\ DataThere(segments)
      /\ \A y \in Slots : task[y] # NoTask /\ task[y].status = "READY"
           => Given(m_results, segments, task[y])
  BY DEF Right
<1>6. [Next]_vars
  BY DEF Next, Main
<1>7. CASE t.layer = Root
  <2>1. all = done /\ task' = task /\ segments' = segments
    BY <1>3, <1>7
  <2> QED BY ONLY <1>3, <2>1, Right(m_results, segments, task, done)
<1>8. CASE t.layer # Root
  <2>1. PICK sent, made, l, s :
          /\ all = done \cup {Id(t)} /\ sent = done \cup Flight /\ made = done \cup Ended(task)
          /\ l = t.layer /\ s = t.next
    BY <1>8
  <2>2. /\ SlotFree(x, all, sent, S)
        /\ l \in Layers \ {Root} /\ s \in Segment(l + 1)
        /\ <<l + 1, s>> \in DOMAIN S /\ <<l + 1, s>> \notin sent
    <3>1. /\ SlotFree(x, done \cup {Id(t)}, done \cup Flight, S)
          /\ t.layer \in Layers \ {Root} /\ t.next \in Segment(t.layer + 1)
          /\ t.next = Parent(t.layer, t.segment)
          /\ <<t.layer + 1, t.next>> \in DOMAIN S
          /\ <<t.layer + 1, t.next>> \notin done \cup Flight
      BY ONLY <1>1, <1>2, <1>3, <1>4, <1>8, Progress(done), Used, x \in Slots
    <3> QED BY ONLY <2>1, <3>1
  <2>3. Leaves(sent, l0_segment_idx)
    BY <2>1 DEF Progress
  <2>4. all \subseteq made /\ Ended(task) \subseteq made /\ made \subseteq sent
    <3>1. Id(t) \in Ended(task)
      BY <1>3 DEF Ended
    <3>2. Ended(task) \subseteq Flight
      BY DEF Ended, Flight
    <3> QED BY ONLY <2>1, <3>1, <3>2
  <2>5. \A i \in DOMAIN S : i \in DOMAIN segments /\ S[i].m_input_data = segments[i].m_input_data
    <3>1. \A i \in DOMAIN segments : DOMAIN segments[i] = {"ready", "size", "m_input_data"}
      BY DEF Progress, Accounts
    <3>2. \A i \in DOMAIN S : /\ i \in DOMAIN segments
                              /\ \/ S[i] = segments[i]
                                 \/ S[i] = [segments[i] EXCEPT !.ready = @ + t.batch]
      BY <1>2 DEF MapWithout
    <3> QED BY ONLY <3>1, <3>2
  <2>6. AllPlaced(m_results, S, made)
    <3> SUFFICES ASSUME NEW k \in Layers, NEW c \in Segment(k), <<k, c>> \in made,
                        NEW i \in Places(k, c)
                 PROVE  Held(m_results, S, k, c, i)
      BY DEF AllPlaced, Placed
    <3>1. Held(m_results, segments, k, c, i)
      BY <1>5, <2>1 DEF AllPlaced, Placed
    <3> QED BY ONLY <2>5, <3>1 DEF Held
  <2>7. DataThere(S)
    BY <1>5, <2>5 DEF DataThere
  <2>8. Before(x, S, all, sent, made)
    BY <1>3, <1>5, <2>2, <2>4, <2>6, <2>7 DEF Before, Ready
  <2>9. CASE /\ S[id].ready >= S[id].size
             /\ dispatch_task(x, l + 1, s, SegmentInputs(l + 1, s).buffer,
                              SegmentInputs(l + 1, s).first, S)
    <3>1. PICK k, from, first : /\ k = l + 1 /\ from = SegmentInputs(l + 1, s).buffer
                                /\ first = SegmentInputs(l + 1, s).first
      OBVIOUS
    <3>2. S[<<l + 1, s>>].ready >= S[<<l + 1, s>>].size
      BY <1>2, <2>1, <2>9
    <3>3. Accounts(all, sent, S)
      BY <2>2 DEF SlotFree
    <3>4. /\ \A c \in Children(l, s) : <<l, c>> \in all
          /\ Counted(all, sent, l, s) = Reads(l + 1, s)
      BY ONLY <1>4, <2>2, <3>2, <3>3, AllThere
    <3>5. Giving(k, s, from, first, S, made)
      BY ONLY <1>4, <2>2, <2>4, <3>1, <3>4, ParentGiving
    <3>6. k \in Layers /\ s \in Segment(k) /\ <<k, s>> \notin sent
      BY <1>4, <2>2, <3>1, TwoLayers
    <3>7. dispatch_task(x, k, s, from, first, S)
      BY <2>9, <3>1
    <3> QED BY ONLY <1>6, <2>8, <3>5, <3>6, <3>7, DispatchRight, IndInv, x \in Slots
  <2>10. CASE SendLeaves(x, S)
    BY ONLY <1>4, <1>6, <2>3, <2>8, <2>10, LeavesRight, IndInv, ~Misbuilt, x \in Slots
  <2> QED BY ONLY <1>3, <1>8, <2>1, <2>9, <2>10
<1> QED BY <1>7, <1>8

-----------------------------------------------------------------------------
(* The root.                                                                *)
(* Nothing is wrong before the first task is sent.                          *)
LEMMA BuildRight ==
  ASSUME Created, Build
  PROVE  Right(m_results, segments, task, {})'
<1>1. task' = task /\ segments' = <<>> /\ \A x \in Slots : task'[x] = NoTask
  BY DEF Build, Created
<1>2. DOMAIN segments' = {}
  BY <1>1
<1>3. Ended(task)' = {}
  BY <1>1 DEF Ended
<1>4. AllPlaced(m_results, segments, {} \cup Ended(task))'
  BY <1>3 DEF AllPlaced
<1>5. DataThere(segments)'
  BY <1>2 DEF DataThere
<1> QED BY <1>1, <1>4, <1>5 DEF Right

(* Outside the cases of Misbuilt all tasks have the right inputs, and all   *)
(* outputs are where they belong.                                           *)
RightInv ==
  \/ state = "created"
  \/ Misbuilt
  \/ \E done : Progress(done) /\ Right(m_results, segments, task, done)

(* A tree that is built had its root computed.                              *)
RootEnded ==
  state = "built" =>
    \E x \in Slots : task[x] # NoTask /\ task[x].layer = Root /\ task[x].status = "COMPLETED"

LEMMA RightKept ==
  ASSUME IndInv, RightInv, [Next]_vars
  PROVE  RightInv'
<1>1. CASE state = "created" /\ Created
  <2>1. CASE Build
    <3>1. Progress({})'
      BY <1>1, <2>1, BuildHolds
    <3>2. Right(m_results, segments, task, {})'
      BY <1>1, <2>1, BuildRight
    <3> QED BY ONLY <3>1, <3>2 DEF RightInv
  <2>2. CASE UNCHANGED vars
    BY <1>1, <2>2 DEF RightInv, vars
  <2> QED BY <1>1, <2>1, <2>2 DEF Next, Main, UseIdle, UseCompleted, Execute, Created
<1>2. CASE Running /\ Misbuilt
  <2>1. tree' = tree
    BY <1>2 DEF Next, Main, Build, UseIdle, UseCompleted, Execute, vars, Running
  <2> QED BY <1>2, <2>1, RightFrame DEF RightInv
<1>3. CASE Running /\ ~Misbuilt
  <2>1. PICK done : Progress(done) /\ Right(m_results, segments, task, done)
    BY <1>3 DEF RightInv, Running
  <2>2. tree' = tree /\ ~Build
    BY <1>3 DEF Next, Main, Build, UseIdle, UseCompleted, Execute, vars, Running
  <2>3. ASSUME NEW all, Progress(all)', Right(m_results', segments', task', all)
        PROVE  RightInv'
    <3>1. PICK R, S, J : R = m_results' /\ S = segments' /\ J = task'
      OBVIOUS
    <3>2. Right(R, S, J, all)'
      BY <2>2, <2>3, <3>1, RightFrame
    <3>3. Right(m_results, segments, task, all)'
      <4>1. \A l, c, i : Held(R, S, l, c, i)' <=> Held(m_results, segments, l, c, i)'
        BY ONLY <3>1 DEF Held
      <4>2. AllPlaced(R, S, all \cup Ended(J))' <=> AllPlaced(m_results, segments, all \cup Ended(task))'
        BY ONLY <3>1, <4>1 DEF AllPlaced, Placed, Ended
      <4>3. DataThere(S)' <=> DataThere(segments)'
        BY ONLY <3>1 DEF DataThere
      <4>4. \A x \in Slots : Given(R, S, J[x])' <=> Given(m_results, segments, task[x])'
        BY ONLY <3>1 DEF Given, ContentIn
      <4> QED BY ONLY <3>1, <3>2, <4>2, <4>3, <4>4 DEF Right
    <3> QED BY ONLY <2>3, <3>3 DEF RightInv
  <2>4. ASSUME NEW x \in Slots, UseIdle(x) PROVE RightInv'
    BY <1>3, <2>1, <2>3, <2>4, UseIdleHolds, UseIdleRight
  <2>5. ASSUME NEW x \in Slots, UseCompleted(x) PROVE RightInv'
    <3>1. PICK t, all : t = task[x] /\ all = IF t.layer = Root THEN done ELSE done \cup {Id(t)}
      OBVIOUS
    <3>2. Progress(all)'
      BY <1>3, <2>1, <2>5, <3>1, UseCompletedHolds
    <3>3. Right(m_results', segments', task', all)
      BY <1>3, <2>1, <2>5, <3>1, UseCompletedRight
    <3> QED BY <2>3, <3>2, <3>3
  <2>6. ASSUME NEW x \in Slots, Execute(x) PROVE RightInv'
    BY <1>3, <2>1, <2>3, <2>6, ExecuteHolds, ExecuteRight
  <2>7. CASE UNCHANGED vars
    <3>1. Progress(done)'
      BY <1>3, <2>1, <2>7, StutterHolds
    <3>2. Right(m_results', segments', task', done)
      BY <2>1, <2>7 DEF vars
    <3> QED BY <2>3, <3>1, <3>2
  <2> QED BY <2>2, <2>4, <2>5, <2>6, <2>7 DEF Next, Main
<1> QED BY <1>1, <1>2, <1>3 DEF IndInv

LEMMA RootEndedKept ==
  ASSUME IndInv, RootEnded, [Next]_vars
  PROVE  RootEnded'
<1> SUFFICES ASSUME state' = "built"
             PROVE  (\E x \in Slots : /\ task[x] # NoTask /\ task[x].layer = Root
                                      /\ task[x].status = "COMPLETED")'
  BY DEF RootEnded
<1>1. ~Build /\ state # "created"
  BY DEF Next, Main, Build, UseIdle, UseCompleted, Execute, vars
<1>2. Running /\ TreeOK /\ Jobs /\ DOMAIN task = Slots
  BY <1>1 DEF IndInv, Running, Memory
<1>3. tree' = tree
  BY <1>1 DEF Next, Main, Build, UseIdle, UseCompleted, Execute, vars
<1>4. Root' = Root
  BY <1>3, Frame
<1>5. CASE state = "built"
  <2>1. PICK x \in Slots : task[x] # NoTask /\ task[x].layer = Root /\ task[x].status = "COMPLETED"
    BY <1>5 DEF RootEnded
  <2>2. task'[x] = task[x]
    <3>1. task' = task \/ \E y \in Slots : Execute(y)
      BY <1>1, <1>5 DEF Next, Main, UseIdle, UseCompleted, vars
    <3>2. ASSUME NEW y \in Slots, Execute(y) PROVE task'[x] = task[x]
      <4>1. y # x
        BY <2>1, <3>2 DEF Execute
      <4>2. task' = [task EXCEPT ![y].status = "COMPLETED"]
        BY <3>2 DEF Execute
      <4> QED BY <1>2, <4>1, <4>2
    <3> QED BY <3>1, <3>2
  <2> QED BY <1>4, <2>1, <2>2
<1>6. CASE state # "built"
  <2>1. PICK x \in Slots : UseCompleted(x)
    BY <1>1, <1>6 DEF Next, Main, UseIdle, Execute, vars
  <2>2. PICK t : t = task[x]
    OBVIOUS
  <2>3. t # NoTask /\ t.status = "COMPLETED" /\ (state' = state \/ (t.layer = Root /\ task' = task))
    BY <2>1, <2>2, Zenon DEF UseCompleted
  <2> QED BY <1>4, <1>6, <2>2, <2>3
<1> QED BY <1>5, <1>6

(* In whatever order the workers complete the segments, and wherever the    *)
(* layers are cut and padded, the root is the one of the full tree, except  *)
(* in the two cases of Misbuilt.                                            *)
THEOREM RootAlways == Spec => []RootRight
<1>1. Init => RightInv /\ RootEnded
  BY DEF Init, RightInv, RootEnded
<1>2. IndInv /\ RightInv /\ RootEnded /\ [Next]_vars => RightInv' /\ RootEnded'
  BY RightKept, RootEndedKept
<1>3. IndInv /\ RightInv /\ RootEnded => RootRight
  <2> SUFFICES ASSUME IndInv, RightInv, RootEnded, state = "built", ~Misbuilt
               PROVE  m_results[Root][0] = Node(Root, 0)
    BY DEF RootRight, RootIsRight
  <2>1. Running /\ TreeOK /\ Jobs
    BY DEF IndInv, Running
  <2>2. PICK done : Right(m_results, segments, task, done)
    BY DEF RightInv
  <2>3. PICK x \in Slots : task[x] # NoTask /\ task[x].layer = Root /\ task[x].status = "COMPLETED"
    BY DEF RootEnded
  <2>4. Root \in Layers /\ Segment(Root) = {0} /\ Places(Root, 0) = {0}
    BY <2>1, RootSegment
  <2>5. Id(task[x]) = <<Root, 0>>
    BY <2>1, <2>3, <2>4 DEF Jobs, JobOK, Id
  <2>6. <<Root, 0>> \in done \cup Ended(task)
    BY <2>3, <2>5 DEF Ended
  <2>7. Held(m_results, segments, Root, 0, 0)
    BY <2>2, <2>4, <2>6 DEF Right, AllPlaced, Placed
  <2>8. Root >= tree.store
    BY <2>1 DEF TreeOK, Shape, Root, nof_layers
  <2> QED BY <2>7, <2>8 DEF Held
<1> QED BY <1>1, <1>2, <1>3, Invariant, PTL DEF Spec

=============================================================================
