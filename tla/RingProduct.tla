----------------------------- MODULE RingProduct -----------------------------
(***************************************************************************)
(* How the protocol multiplies in Rq: both operands go through ntt with    *)
(* kForward, are multiplied slot by slot as elements of Tq, and come back  *)
(* through ntt with kInverse, as in Steps 2 to 4 of base_case_prover.  The *)
(* first operand may be a conjugated row of the projection matrix, as in   *)
(* agg_const_zero_constraints.                                             *)
(*                                                                         *)
(* Each call of ntt is a batch.  A small one is a single task; a large one *)
(* runs layer by layer, the sub-NTTs of a layer cut into chunks that run   *)
(* at the same time on the same array: a chunk reads the elements of a     *)
(* sub-NTT (Load) and writes them (Store) while others do the same.        *)
(***************************************************************************)
EXTENDS CpuNtt, Sequences

CONSTANTS
  Left, Right,   \* operands to consider, polynomials of Rq
  Subs,          \* rows of layers_sub_logn: the logarithms of the layers
  Thresholds,    \* a batch is parallel above this sum of logarithms
  NofChunks      \* num_chunks, twice the number of hardware threads

ASSUME OperandAssumption == Left \subseteq Poly /\ Right \subseteq Poly
ASSUME SubAssumption ==
  /\ \A sub \in Subs : sub[1] + sub[2] + sub[3] = LogDeg
  /\ NofChunks \in Nat \ {0}

VARIABLES
  row, s,      \* the operands, before the first is conjugated
  conjugate,   \* whether it is: negacyclic_conjugate
  root,        \* what the domain was initialised with
  sub,         \* the row of layers_sub_logn
  threshold,
  elements,    \* the batch: the operands, later also their product
  dir,         \* the direction of the present call
  layer,       \* hierarchy_0_layer_idx
  next,        \* of each chunk, the sub-NTT it does next
  held,        \* of each chunk, the elements it has read; <<>> between two
  pc           \* "Rq", "layers", "transformed", "Tq", "multiplied", "returned", "refused"

vars == <<row, s, conjugate, root, sub, threshold, elements, dir, layer, next,
          held, pc>>
call == <<row, s, conjugate, root, sub, threshold>>

Operand == IF conjugate THEN Conjugate(row) ELSE row
Batch   == DOMAIN elements
Chunks  == 0 .. NofChunks - 1

NofTasks(l)  == NofBlocks(sub, l) * NofSubntts(sub, l)
ChunkSize(l) == (NofTasks(l) + NofChunks - 1) \div NofChunks
StartIndex(l, c) == c * ChunkSize(l)
EndIndex(l, c) ==
  IF StartIndex(l, c) + ChunkSize(l) < NofTasks(l)
  THEN StartIndex(l, c) + ChunkSize(l) ELSE NofTasks(l)

BlockOf(c)  == next[c] \div NofSubntts(sub, layer)
SubnttOf(c) == next[c] % NofSubntts(sub, layer)
Mem(c, e)   == idx_in_mem(sub, layer, BlockOf(c), SubnttOf(c), e)
Elems       == 0 .. 2 ^ sub[layer + 1] - 1

\* compute_if_is_parallel; log2 of the batch size is rounded down.
is_parallel ==
  LogDeg + (CHOOSE k \in 0 .. Len(elements) :
              2 ^ k <= Len(elements) /\ Len(elements) < 2 ^ (k + 1)) > threshold

Init ==
  /\ row \in Left /\ s \in Right /\ conjugate \in BOOLEAN
  /\ root \in Roots /\ sub \in Subs /\ threshold \in Thresholds
  /\ elements = << Operand, s >>
  /\ dir = "kForward" /\ layer = 0
  /\ next = [c \in Chunks |-> 0] /\ held = [c \in Chunks |-> <<>>]
  /\ pc = "Rq"

\* ntt_init_domain keeps a domain it finds, of whatever size; cpu_ntt refuses a
\* transform that is larger.
Refuse ==
  /\ pc = "Rq" /\ Deg > MaxSize(root)
  /\ pc' = "refused"
  /\ UNCHANGED <<call, elements, dir, layer, next, held>>

\* run: copy_and_reorder_if_needed, which undoes the bit-reversed order of a
\* transform (kRN), and the coset factors of the forward direction (kNR).
Start ==
  /\ pc = "Rq" \/ pc = "multiplied"
  /\ Deg <= MaxSize(root)
  /\ dir' = IF pc = "Rq" THEN "kForward" ELSE "kInverse"
  /\ elements' = [b \in Batch |->
       IF pc = "Rq" THEN coset_mul(root, "kForward", elements[b])
                    ELSE BitReversed(elements[b], LogDeg)]
  /\ layer' = 0 /\ next' = [c \in Chunks |-> StartIndex(0, c)]
  /\ pc' = "layers"
  /\ UNCHANGED <<call, held>>

\* Not parallel: one task for the batch.
ExecuteAlone ==
  /\ pc = "layers" /\ ~is_parallel
  /\ elements' = [b \in Batch |-> WholeNtt(elements[b], root, dir)]
  /\ pc' = "transformed"
  /\ UNCHANGED <<call, dir, layer, next, held>>

Load(c) ==
  /\ pc = "layers" /\ is_parallel
  /\ held[c] = <<>> /\ next[c] < EndIndex(layer, c)
  /\ held' = [held EXCEPT ![c] =
                [b \in Batch |-> [e \in Elems |-> elements[b][Mem(c, e)]]]]
  /\ UNCHANGED <<call, elements, dir, layer, next, pc>>

Store(c) ==
  /\ held[c] # <<>>
  /\ elements' = [b \in Batch |->
       LET y == Subntt(held[c][b], sub, layer, BlockOf(c), SubnttOf(c), root, dir)
           at == [i \in {Mem(c, e) : e \in Elems} |->
                    CHOOSE e \in Elems : Mem(c, e) = i]
       IN  [i \in Idx |->
             IF i \in DOMAIN at THEN y[at[i]] ELSE elements[b][i]]]
  /\ held' = [held EXCEPT ![c] = <<>>]
  /\ next' = [next EXCEPT ![c] = @ + 1]
  /\ UNCHANGED <<call, dir, layer, pc>>

\* Mutant: the wait is for the first chunk only.
FirstChunkDone ==
  /\ pc = "layers" /\ is_parallel
  /\ held[0] = <<>> /\ next[0] >= EndIndex(layer, 0)

\* executor.run(taskflow).wait(): every chunk of the layer is through.
LayerDone ==
  /\ pc = "layers" /\ is_parallel
  /\ \A c \in Chunks : held[c] = <<>> /\ next[c] >= EndIndex(layer, c)

NextLayer ==
  /\ LayerDone /\ ~LastLayer(sub, layer)
  /\ layer' = layer + 1
  /\ next' = [c \in Chunks |-> StartIndex(layer + 1, c)]
  /\ UNCHANGED <<call, elements, dir, held, pc>>

\* The reorder task, if there was more than one layer.
ReorderOutput ==
  /\ LayerDone /\ LastLayer(sub, layer)
  /\ elements' = [b \in Batch |->
       IF layer # 0 THEN Reordered(sub, elements[b]) ELSE elements[b]]
  /\ pc' = "transformed"
  /\ UNCHANGED <<call, dir, layer, next, held>>

\* The end of run: the coset factors of the inverse, the order of kNR.
Finish ==
  /\ pc = "transformed"
  /\ elements' = [b \in Batch |->
       IF dir = "kInverse" THEN coset_mul(root, "kInverse", elements[b])
                           ELSE BitReversed(elements[b], LogDeg)]
  /\ pc' = IF dir = "kForward" THEN "Tq" ELSE "returned"
  /\ UNCHANGED <<call, dir, layer, next, held>>

Multiply ==
  /\ pc = "Tq" /\ pc' = "multiplied"
  /\ elements' = Append(elements, MulT(elements[1], elements[2]))
  /\ UNCHANGED <<call, dir, layer, next, held>>

Next ==
  \/ Refuse \/ Start \/ ExecuteAlone
  \/ \E c \in Chunks : Load(c) \/ Store(c)
  \/ NextLayer \/ ReorderOutput \/ Finish \/ Multiply

Spec == Init /\ [][Next]_vars
-----------------------------------------------------------------------------
\* The coset NTT "is equivalent to a negacyclic NTT" (ntt.cpp): with a domain of
\* any size, in one task or with the chunks of its layers interleaved in any
\* way, Tq holds the evaluations Ntt in bit-reversed order, and what comes back
\* is the product modulo X^d + 1 and the operands as they went in.
ProductIsNegacyclic ==
  /\ pc = "Tq" => /\ elements[1] = BitReversed(Ntt(Operand), LogDeg)
                  /\ elements[2] = BitReversed(Ntt(s), LogDeg)
  /\ pc = "returned" => elements = << Operand, s, MulR(Operand, s) >>

\* The constant term of the product with a conjugated row is the inner product
\* of the coefficients, which is what jl_projection computes with the plain row.
ConjugateGivesProjection ==
  pc = "returned" /\ conjugate =>
    elements[3][0] = SumZ(Deg, LAMBDA c : row[c] * s[c])
=============================================================================
