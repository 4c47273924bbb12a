----------------------------- MODULE MerkleTree -----------------------------
(***************************************************************************)
(* The Merkle tree of the CPU backend.  The calling thread cuts every      *)
(* layer into segments of NOF_OPERATIONS_PER_TASK hashes, hands them to    *)
(* the workers of a TasksManager, and sends a segment of the next layer as *)
(* soon as the inputs it counts as ready are all there.  Layers below      *)
(* output_store_min_layer are kept in buffers per segment that go when     *)
(* they have been used.  Units: a leaf element and the output of a hash    *)
(* both count one, so that a layer is known by its number of inputs.       *)
(***************************************************************************)
EXTENDS Integers, Sequences, SequencesExt, FiniteSets

CONSTANTS
  K,            \* NOF_OPERATIONS_PER_TASK
  Trees,        \* the trees to consider: [arity, store], layer 0 first
  LeafCounts,   \* the numbers of leaves they are built from
  Slots,        \* the task slots of the TasksManager
  NoTask

\* Where a task reads from and writes to: <<"leaves">>, <<"padded leaves">>,
\* <<"results", layer>> or <<"segment", layer, index>>, the inputs of that segment.
Buffers == {<<"leaves">>, <<"padded leaves">>} \cup ({"results"} \X Nat)
             \cup ({"segment"} \X Nat \X Nat)
HashTasks == [status : {"READY", "COMPLETED"}, layer : Nat, segment : Nat, batch : Nat,
              from : Buffers, first : Nat, next : Nat, padding : Nat, to : Buffers, at : Nat]

\* A tree has a layer, no hash is without inputs, and the root is always stored.
ASSUME MerkleAssumption ==
  /\ K \in Nat \ {0, 1} /\ LeafCounts \subseteq Nat \ {0}
  /\ \A t \in Trees : /\ t.arity \in Seq(Nat \ {0}) /\ Len(t.arity) > 0
                      /\ t.store \in 0 .. Len(t.arity) - 1
  /\ NoTask \notin HashTasks

VARIABLES
  tree,       \* constructor arguments, and those of the last call of build
  state,      \* "created", "building" or "built"
  l0_segment_idx, padding_required,
  task,       \* of each slot: the task in it, and its status
  m_results,  \* of each layer: the outputs, as inputs of the next layer
  segments    \* m_map_segment_id_2_inputs: <<layer, segment>> -> SegmentDB

vars == <<tree, state, l0_segment_idx, padding_required, task, m_results, segments>>

\* Values.  Different inputs have different hashes.
Leaf(i) == <<"leaf", i>>
ZeroLeaf == <<"zero">>
Junk == <<"junk">>
Hash(l, inputs) == <<"hash", l, inputs>>

CeilDiv(a, b) == (a + b - 1) \div b
Least(a, b) == IF a < b THEN a ELSE b

-----------------------------------------------------------------------------
\* The layers: their number of inputs per hash, of hashes in the full tree, and
\* what init_layers_db computes for the leaves there are.
nof_layers == Len(tree.arity)
Layers == 0 .. nof_layers - 1
Root == nof_layers - 1
input_size(l) == tree.arity[l + 1]

nof_hashes(l) ==
  LET n[k \in Layers] == IF k = Root THEN 1 ELSE n[k + 1] * input_size(k + 1) IN n[l]
Capacity == nof_hashes(0) * input_size(0)

\* Hashes that have an input which is not all padding.
occupied(l) ==
  LET n[k \in Layers] == CeilDiv(IF k = 0 THEN tree.leaves ELSE n[k - 1], input_size(k))
  IN  n[l]

\* Mutant: no hash that is padding only is computed.
OccupiedOnly(l) == Least(nof_hashes(l), occupied(l))

\* One more hash, of padding only, is computed for all there are.
nof_hashes_2_execute(l) == Least(nof_hashes(l), occupied(l) + 1)

\* Mutant: what the whole segments leave over, as a segment of its own.
LeftOver(l) ==
  LET n == nof_hashes_2_execute(l)
  IN  IF n % K = 0 THEN K ELSE n % K

\* 2 to K + 1 hashes in the last segment, all of them in a small layer.
last_batch(l) ==
  LET n == nof_hashes_2_execute(l)
  IN  IF n < K THEN n ELSE Least(n, ((n - 2) % K) + 2)
max_segment(l) == (nof_hashes_2_execute(l) - last_batch(l)) \div K
is_last(l, s) == s * K + last_batch(l) = nof_hashes_2_execute(l)

\* The buffer of a layer's outputs: what the next layer reads.
results_size(l) ==
  IF l = Root THEN 1 ELSE nof_hashes_2_execute(l + 1) * input_size(l + 1)

Padding == IF tree.policy = "LastValue" THEN Leaf(tree.leaves - 1) ELSE ZeroLeaf
Uninitialised(n) == [i \in 0 .. n - 1 |-> Junk]

\* padded_leaves: the leaves behind the last whole segment, then padding.
padded_leaves(i) ==
  LET tail == ((tree.leaves - 1) % (K * input_size(0))) + 1
  IN  IF i < tail THEN Leaf(tree.leaves - tail + i) ELSE Padding

Init ==
  /\ tree \in {[arity |-> t.arity, store |-> t.store, leaves |-> 0, policy |-> "None"] : t \in Trees}
  /\ state = "created"
  /\ l0_segment_idx = 0 /\ padding_required = FALSE
  /\ task = [t \in Slots |-> NoTask]
  /\ m_results = <<>> /\ segments = <<>>

\* The beginning of build: too many leaves, or too few without a padding policy, are
\* refused, and the tree can be built later.
Build ==
  /\ state = "created"
  /\ \E n \in LeafCounts, policy \in {"None", "ZeroPadding", "LastValue"} :
       LET args == [tree EXCEPT !.leaves = n, !.policy = policy]
       IN  /\ n <= Capacity
           /\ policy # "None" \/ n = Capacity
           /\ tree' = args
           /\ padding_required' = (n < Capacity)
  /\ state' = "building" /\ l0_segment_idx' = 0
  /\ m_results' = [l \in Layers |-> Uninitialised(results_size(l)')]
  /\ UNCHANGED <<task, segments>>

-----------------------------------------------------------------------------
Content(buffer, i) ==
  CASE buffer[1] = "leaves"        -> IF i < tree.leaves THEN Leaf(i) ELSE Junk
    [] buffer[1] = "padded leaves" -> padded_leaves(i)
    [] buffer[1] = "results"       -> m_results[buffer[2]][i]
    [] buffer[1] = "segment"       -> segments[<<buffer[2], buffer[3]>>].m_input_data[i]

Inputs(t) == [i \in 0 .. t.batch * input_size(t.layer) - 1 |-> Content(t.from, t.first + i)]

\* Mutant: the inputs that come from padding are not counted.
SegmentWithoutPadding(S, id, l, s, padding) ==
  LET count == IF is_last(id[1], id[2]) THEN last_batch(id[1]) ELSE K
      size == count * input_size(id[1])
      new == [ready |-> 0, size |-> size,
              m_input_data |-> IF l < tree.store THEN Uninitialised(size) ELSE <<>>]
  IN  [x \in DOMAIN S \cup {id} |-> IF x \in DOMAIN S THEN S[x] ELSE new]

\* Mutant: a segment is ready when it has as many inputs as hashes.
SegmentCountingHashes(S, id, l, s, padding) ==
  LET count == IF is_last(id[1], id[2]) THEN last_batch(id[1]) ELSE K
      db == IF id \in DOMAIN S THEN S[id]
            ELSE [ready |-> 0, size |-> count,
                  m_input_data |-> IF l < tree.store THEN Uninitialised(count * input_size(id[1]))
                                   ELSE <<>>]
  IN  [x \in DOMAIN S \cup {id} |-> IF x = id THEN [db EXCEPT !.ready = @ + padding] ELSE S[x]]

\* The SegmentDB the outputs of segment s of layer l go to, made when it is not there,
\* with the padding the task will write counted as ready.
segment_db(S, id, l, s, padding) ==
  LET count == IF is_last(id[1], id[2]) THEN last_batch(id[1]) ELSE K
      size == count * input_size(id[1])
      db == IF id \in DOMAIN S THEN S[id]
            ELSE [ready |-> 0, size |-> size,
                  m_input_data |-> IF l < tree.store THEN Uninitialised(size) ELSE <<>>]
  IN  [x \in DOMAIN S \cup {id} |-> IF x = id THEN [db EXCEPT !.ready = @ + padding] ELSE S[x]]

\* dispatch_task, S being the map at that time.
dispatch_task(slot, l, s, from, first, S) ==
  LET last == is_last(l, s)
      next == Least(s \div input_size(l + 1), max_segment(l + 1))
      padding == IF last THEN results_size(l) - (s * K + last_batch(l)) ELSE 0
      Job(n, pad, to, at) ==
        [status |-> "READY", layer |-> l, segment |-> s, from |-> from, first |-> first,
         batch |-> IF last THEN last_batch(l) ELSE K,
         next |-> n, padding |-> pad, to |-> to, at |-> at]
  IN  \/ /\ l = Root
         /\ task' = [task EXCEPT ![slot] = Job(0, 0, <<"results", l>>, 0)]
         /\ segments' = S
      \/ /\ l # Root
         /\ task' = [task EXCEPT ![slot] =
                      IF l < tree.store
                        THEN Job(next, padding, <<"segment", l + 1, next>>,
                                 (s * K) % (K * input_size(l + 1)))
                        ELSE Job(next, padding, <<"results", l>>, s * K)]
         /\ segments' = segment_db(S, <<l + 1, next>>, l, s, padding)

\* The next segment of layer 0: the last one from padded_leaves if there is padding.
\* Without one left, the slot becomes idle.
SendLeaves(slot, S) ==
  IF l0_segment_idx > max_segment(0)
    THEN /\ task' = [task EXCEPT ![slot] = NoTask] /\ segments' = S
         /\ UNCHANGED <<l0_segment_idx, padding_required>>
    ELSE /\ l0_segment_idx' = l0_segment_idx + 1
         /\ IF padding_required /\ l0_segment_idx = max_segment(0)
              THEN /\ dispatch_task(slot, 0, l0_segment_idx, <<"padded leaves">>, 0, S)
                   /\ padding_required' = FALSE
              ELSE /\ dispatch_task(slot, 0, l0_segment_idx, <<"leaves">>,
                                    l0_segment_idx * K * input_size(0), S)
                   /\ UNCHANGED padding_required

\* An idle slot gets a segment of layer 0.
UseIdle(slot) ==
  /\ state = "building" /\ l0_segment_idx <= max_segment(0)
  /\ task[slot] = NoTask
  /\ SendLeaves(slot, segments)
  /\ UNCHANGED <<tree, state, m_results>>

\* The inputs of a segment are in its own buffer or in the results of the layer.
SegmentInputs(l, s) ==
  IF l <= tree.store THEN [buffer |-> <<"segment", l, s>>, first |-> 0]
  ELSE [buffer |-> <<"results", l - 1>>, first |-> s * K * input_size(l)]

\* A completed task: the segment it came from is forgotten, its outputs are counted
\* as ready, and when they were the last of a segment's inputs the slot gets that
\* segment, otherwise one of layer 0.  The code counts on the segment being in the
\* map, and on get_completed_task finding a task: the model stops when it is not, or
\* when all slots are idle.
UseCompleted(slot) ==
  LET t == task[slot]
      id == <<t.layer + 1, t.next>>
      S == [x \in DOMAIN segments \ {<<t.layer, t.segment>>} |->
             IF x = id THEN [segments[x] EXCEPT !.ready = @ + t.batch] ELSE segments[x]]
      inputs == SegmentInputs(t.layer + 1, t.next)
  IN  /\ state = "building" /\ t # NoTask /\ t.status = "COMPLETED"
      /\ \/ /\ t.layer = Root
            /\ state' = "built"
            /\ UNCHANGED <<l0_segment_idx, padding_required, task, segments>>
         \/ /\ t.layer # Root /\ id \in DOMAIN S /\ S[id].ready >= S[id].size
            /\ dispatch_task(slot, t.layer + 1, t.next, inputs.buffer, inputs.first, S)
            /\ UNCHANGED <<state, l0_segment_idx, padding_required>>
         \/ /\ t.layer # Root /\ id \in DOMAIN S /\ S[id].ready < S[id].size
            /\ SendLeaves(slot, S)
            /\ UNCHANGED state
  /\ UNCHANGED <<tree, m_results>>

\* A worker: the hashes of the segment, then the last of them once more for every
\* place that is padding.
Execute(slot) ==
  LET t == task[slot]
      a == input_size(t.layer)
      inputs == Inputs(t)
      output == [h \in 0 .. t.batch - 1 |->
                  Hash(t.layer, [k \in 0 .. a - 1 |-> inputs[h * a + k]])]
      Written(data) == [i \in DOMAIN data |->
                         IF i - t.at \in 0 .. t.batch + t.padding - 1
                           THEN output[Least(i - t.at, t.batch - 1)] ELSE data[i]]
  IN  /\ t # NoTask /\ t.status = "READY"
      /\ task' = [task EXCEPT ![slot].status = "COMPLETED"]
      /\ IF t.to[1] = "results"
           THEN /\ m_results' = [m_results EXCEPT ![t.to[2]] = Written(@)]
                /\ UNCHANGED segments
           ELSE /\ segments' = [segments EXCEPT ![<<t.to[2], t.to[3]>>].m_input_data = Written(@)]
                /\ UNCHANGED m_results
      /\ UNCHANGED <<tree, state, l0_segment_idx, padding_required>>

Main == Build \/ \E slot \in Slots : UseIdle(slot) \/ UseCompleted(slot)
Next == Main \/ \E slot \in Slots : Execute(slot)

Spec == Init /\ [][Next]_vars
FairSpec == Spec /\ WF_vars(Main) /\ \A slot \in Slots : WF_vars(Execute(slot))

-----------------------------------------------------------------------------
\* The tree the build stands for: every hash of every layer over the leaves and
\* their padding, one after the other.
Node(l, i) ==
  LET leaf(j) == IF j < tree.leaves THEN Leaf(j) ELSE Padding
      node[k \in 0 .. l] == [j \in 0 .. nof_hashes(k) - 1 |->
        Hash(k, [h \in 0 .. input_size(k) - 1 |->
                  IF k = 0 THEN leaf(j * input_size(0) + h)
                           ELSE node[k - 1][j * input_size(k) + h]])]
  IN  node[l][i]

\* get_merkle_proof.  The leaves of the proof are the inputs of one hash of layer 0.
proof_leaves(idx) ==
  LET first == (idx \div input_size(0)) * input_size(0)
  IN  [h \in 1 .. input_size(0) |->
        IF first + h - 1 < tree.leaves THEN Leaf(first + h - 1) ELSE Padding]

\* Of each layer, the inputs of the next hash on the way up; without the one on the way
\* itself in a pruned path.
Siblings(inputs, way, is_pruned) ==
  LET all == [h \in 1 .. Len(inputs) |-> inputs[h]]
  IN  IF is_pruned THEN RemoveAt(all, way + 1) ELSE all

\* copy_to_path_from_store_min_layer, of one stored layer.  In the padded area, behind
\* the end of the results, the last hashes stand for all others.
stored_path(l, idx, is_pruned) ==
  LET a == input_size(l + 1)
      size == results_size(l)
      start == ((idx \div input_size(0)) * input_size(0) * nof_hashes(l)) \div Capacity
      element == IF start >= size THEN (size - a) + (start % a) ELSE start
      chunk == (element \div a) * a
  IN  Siblings([h \in 1 .. a |-> m_results[l][chunk + h - 1]], element % a, is_pruned)

\* A layer that was not stored, out of the sub tree built again over the leaves below one
\* hash of the first stored layer.  That build has no padding and stores all layers.
sub_tree_size == Capacity \div nof_hashes(tree.store)
sub_tree_path(l, idx, is_pruned) ==
  LET a == input_size(l + 1)
      per_tree == nof_hashes(l) \div nof_hashes(tree.store)
      element == ((idx % sub_tree_size) * per_tree) \div sub_tree_size
      chunk == ((element \div a) * a) + ((idx \div sub_tree_size) * per_tree)
  IN  Siblings([h \in 1 .. a |-> Node(l, chunk + h - 1)], element % a, is_pruned)

get_merkle_proof(idx, is_pruned) ==
  [leaf |-> proof_leaves(idx), leaf_idx |-> idx, pruned |-> is_pruned,
   path |-> [l \in 0 .. Root - 1 |-> IF l < tree.store THEN sub_tree_path(l, idx, is_pruned)
                                     ELSE stored_path(l, idx, is_pruned)],
   root |-> m_results[Root][0]]

HashSeq(l, inputs) == Hash(l, [h \in 0 .. Len(inputs) - 1 |-> inputs[h + 1]])

\* Mutant: a full path is not compared with the hashes from below.
VerifyPathOnly(proof) ==
  LET start[l \in Layers] == IF l = 0 THEN proof.leaf_idx ELSE start[l - 1] \div input_size(l - 1)
      hashed[l \in Layers] ==
        IF l = 0 THEN HashSeq(0, proof.leaf)
        ELSE HashSeq(l, IF proof.pruned
                          THEN InsertAt(proof.path[l - 1], (start[l] % input_size(l)) + 1, hashed[l - 1])
                          ELSE proof.path[l - 1])
  IN  hashed[Root] = proof.root

\* MerkleTree::verify: from the leaves up.  In a full path the hash from below must be
\* where the index says; a pruned one gets it inserted there.
verify(proof) ==
  LET start[l \in Layers] == IF l = 0 THEN proof.leaf_idx ELSE start[l - 1] \div input_size(l - 1)
      place(l) == (start[l] % input_size(l)) + 1
      hashed[l \in Layers] ==
        IF l = 0 THEN HashSeq(0, proof.leaf)
        ELSE HashSeq(l, IF proof.pruned THEN InsertAt(proof.path[l - 1], place(l), hashed[l - 1])
                                        ELSE proof.path[l - 1])
  IN  /\ proof.pruned \/ \A l \in 1 .. Root : proof.path[l - 1][place(l)] = hashed[l - 1]
      /\ hashed[Root] = proof.root

-----------------------------------------------------------------------------
\* The last segment of a layer may have K + 1 hashes.  Two things go wrong when that is so
\* and its last hash has real inputs of its own: padded_leaves begins at the wrong leaf
\* when the layer is layer 0 and not full,
TailMisplaced ==
  LET n == nof_hashes(0)
  IN  n > K /\ n % K = 1 /\ occupied(0) = n /\ tree.leaves < Capacity

\* and the inputs of that hash are written over the first ones of its segment when the
\* segment has a buffer of its own.
InputsWrapAround(l) ==
  LET n == nof_hashes_2_execute(l + 1)
  IN  n > K /\ n % K = 1 /\ nof_hashes_2_execute(l) >= (n - 1) * input_size(l + 1) + 2

Misbuilt == TailMisplaced \/ \E l \in 0 .. tree.store - 1 : InputsWrapAround(l)

RootIsRight == m_results[Root][0] = Node(Root, 0)

\* In whatever order the workers complete the segments, and wherever the layers are cut
\* and padded, the root is the one a straight-forward build computes, except in the two
\* cases of Misbuilt,
RootRight == state = "built" /\ ~Misbuilt => RootIsRight

\* and in those it never is.
MisbuiltIsWrong == state = "built" /\ Misbuilt => ~RootIsRight

\* Every task reads and writes inside the buffers it was given.
BufferSize(buffer) ==
  CASE buffer[1] = "leaves"        -> tree.leaves
    [] buffer[1] = "padded leaves" -> last_batch(0) * input_size(0)
    [] buffer[1] = "results"       -> results_size(buffer[2])
    [] buffer[1] = "segment"       -> segments[<<buffer[2], buffer[3]>>].size

Ready(slot) == task[slot] # NoTask /\ task[slot].status = "READY"

\* A task that is waiting or running has all its inputs and room for its outputs in
\* buffers that are still there, whatever the other tasks have completed.
TasksInside ==
  \A slot \in Slots : Ready(slot) =>
    LET t == task[slot]
    IN  /\ \A b \in {t.from, t.to} : b[1] = "segment" => <<b[2], b[3]>> \in DOMAIN segments
        /\ t.first + t.batch * input_size(t.layer) <= BufferSize(t.from)
        /\ t.at + t.batch + t.padding <= BufferSize(t.to)

\* Nothing a task will read, or is reading, changes under it.
InputsStay ==
  [][\A slot \in Slots : Ready(slot) /\ Ready(slot)' => Inputs(task[slot])' = Inputs(task[slot])]_vars

\* The proof of every leaf verifies, pruned or not, and does not when one of its leaves
\* or one entry of its path is another.  With unstored layers only for leaves whose
\* sub tree is all there: get_merkle_proof reads behind the leaves otherwise.
ProofsVerifyExactly ==
  state = "built" /\ ~Misbuilt =>
    \A idx \in 0 .. tree.leaves - 1, is_pruned \in BOOLEAN :
      (tree.store = 0 \/ ((idx \div sub_tree_size) + 1) * sub_tree_size <= tree.leaves) =>
        LET proof == get_merkle_proof(idx, is_pruned)
        IN  /\ verify(proof)
            /\ \A h \in DOMAIN proof.leaf : ~verify([proof EXCEPT !.leaf[h] = Junk])
            /\ \A l \in DOMAIN proof.path : \A h \in DOMAIN proof.path[l] :
                 ~verify([proof EXCEPT !.path[l][h] = Junk])

\* Every build that is accepted returns: the calling thread never waits for a segment
\* nobody will complete, and never finds all slots idle before the root is there.
BuildReturns == state = "building" ~> state = "built"
=============================================================================
