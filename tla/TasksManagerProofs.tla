------------------------- MODULE TasksManagerProofs -------------------------
(***************************************************************************)
(* The hand-over of a task slot between the calling thread and a worker,   *)
(* for any number of workers, slots and chunks.                            *)
(***************************************************************************)
EXTENDS TasksManager, FiniteSetTheorems, TLAPS

(* The slot a worker executes stays ready, and the slot the calling thread  *)
(* has in hand is not ready: they are never the same.                       *)
Ownership ==
  /\ \A w \in Workers : running[w] = "execute" => m_status[w][head[w]] = "READY"
  /\ pc = "send" => m_status[found[1]][found[2]] # "READY"
IndInv == TypeOK /\ Ownership

(* The counter of slots looked at.                                          *)
LEMMA RoundPositive == NofWorkers * NofSlots \in Nat \ {0}
<1>1. \A a, b \in Nat \ {0} : a * b \in Nat \ {0}
  OBVIOUS
<1> QED BY <1>1, PoolAssumption

(* A search counts the slots it has looked at within their number.          *)
LEMMA ScannedTyped ==
  ASSUME TypeOK
  PROVE  (scanned + 1) % (NofWorkers * NofSlots) \in 0 .. NofWorkers * NofSlots - 1
<1>1. \A m \in Nat \ {0} : (scanned + 1) % m \in 0 .. m - 1
  BY RoundPositive DEF TypeOK
<1> QED BY <1>1, RoundPositive

(* Counting one more chunk.                                                 *)
LEMMA Counted ==
  ASSUME TypeOK, NEW c
  PROVE  [output EXCEPT ![c] = @ + 1] \in [Chunks -> Nat]
<1>1. CASE c \in Chunks
  BY <1>1 DEF TypeOK
<1>2. CASE c \notin Chunks
  <2>1. [output EXCEPT ![c] = @ + 1] = output
    BY <1>2 DEF TypeOK
  <2> QED BY <2>1 DEF TypeOK
<1> QED BY <1>1, <1>2

(* The pool starts in the invariant.                                        *)
LEMMA InitInv == Init => IndInv
<1> SUFFICES ASSUME Init PROVE IndInv
  OBVIOUS
<1>1. 0 \in Workers /\ 0 \in Slots
  BY PoolAssumption DEF Workers, Slots
<1>2. 0 \in 0 .. NofWorkers * NofSlots - 1
  BY RoundPositive
<1>3. pc \in MainSteps /\ pc # "send"
  BY DEF Init, NextStep, MainSteps
<1>4. output \in [Chunks -> Nat] /\ operands \in [Workers -> [Slots -> Chunks \cup {NoChunk}]]
  BY DEF Init
<1> QED BY <1>1, <1>2, <1>3, <1>4, PoolAssumption DEF Init, IndInv, Ownership, TypeOK

(* The indices of the searches stay in range.                               *)
LEMMA IndicesInRange ==
  ASSUME TypeOK
  PROVE  CurrentWorker \in Workers /\ CurrentSlot \in Slots
<1>1. CurrentWorker \in Workers
  BY PoolAssumption DEF TypeOK, CurrentWorker, Workers
<1> QED BY <1>1, PoolAssumption DEF TypeOK, CurrentSlot, Slots

(* The search positions stay within their vectors.                          *)
LEMMA AdvanceTyped ==
  ASSUME TypeOK, NEW w \in Workers, Advance(w)
  PROVE  /\ head' \in [Workers -> Slots]
         /\ running' \in [Workers -> {"test", "scan", "execute", "exited"}]
         /\ running'[w] # "execute"
         /\ \A x \in Workers : x # w => head'[x] = head[x] /\ running'[x] = running[x]
<1>1. (head[w] + 1) % NofSlots \in Slots
  BY PoolAssumption DEF TypeOK, Slots
<1> QED BY <1>1 DEF TypeOK, Advance

(* The calling thread keeps the invariant,                                  *)
LEMMA MainStep ==
  ASSUME IndInv, Main
  PROVE  IndInv'
<1> USE DEF IndInv, Ownership, TypeOK, MainSteps
<1>1. CASE GetFree
  BY <1>1, IndicesInRange, ScannedTyped, RoundPositive
     DEF GetFree, Look, LookOn, CurrentStatus
<1>2. CASE GetCompleted
  <2>1. /\ m_next_worker_idx' \in Workers /\ m_next_task_idx' \in [Workers -> Slots]
        /\ found' \in Workers \X Slots
    BY <1>2, IndicesInRange DEF GetCompleted, Look
  <2>2. scanned' \in 0 .. NofWorkers * NofSlots - 1
    BY <1>2, ScannedTyped, RoundPositive DEF GetCompleted, LookOn
  <2>3. all_idle' \in BOOLEAN
    <3>1. (RoundOver \/ (all_idle /\ CurrentStatus = "IDLE")) \in BOOLEAN
      OBVIOUS
    <3> QED BY <1>2, <3>1 DEF GetCompleted
  <2>4. /\ pc' \in {"send", "kill", "collect"}
        /\ pc' = "send" => m_status[found'[1]][found'[2]] = "COMPLETED"
    BY <1>2 DEF GetCompleted, CurrentStatus
  <2>5. UNCHANGED <<op, sent, output, at, m_status, operands, m_kill, head, running>>
    BY <1>2 DEF GetCompleted
  <2> QED BY <2>1, <2>2, <2>3, <2>4, <2>5
<1>3. CASE UseSlot
  <2>1. found[1] \in Workers /\ found[2] \in Slots
    OBVIOUS
  <2>2. \A w \in Workers : running[w] = "execute" => ~(w = found[1] /\ head[w] = found[2])
    BY <1>3 DEF UseSlot
  <2>3. sent' \in 0 .. NofChunks /\ pc' \in MainSteps /\ pc' # "send"
    BY <1>3, PoolAssumption DEF UseSlot, NextStep
  <2>4. output' \in [Chunks -> Nat]
    <3>1. \/ output' = output
          \/ output' = [output EXCEPT ![operands[found[1]][found[2]]] = @ + 1]
      BY <1>3 DEF UseSlot
    <3>2. [output EXCEPT ![operands[found[1]][found[2]]] = @ + 1] \in [Chunks -> Nat]
      BY Counted
    <3> QED BY <3>1, <3>2
  <2>5. operands' \in [Workers -> [Slots -> Chunks \cup {NoChunk}]]
    BY <1>3, <2>1, PoolAssumption DEF UseSlot, Chunks
  <2>6. /\ m_status' \in [Workers -> [Slots -> {"IDLE", "READY", "COMPLETED"}]]
        /\ \A w \in Workers, s \in Slots :
             ~(w = found[1] /\ s = found[2]) => m_status'[w][s] = m_status[w][s]
    BY <1>3, <2>1 DEF UseSlot
  <2>7. UNCHANGED <<op, m_next_worker_idx, m_next_task_idx, scanned, all_idle, found, at,
                    m_kill, head, running>>
    BY <1>3 DEF UseSlot
  <2>8. Ownership'
    BY <2>2, <2>3, <2>6, <2>7
  <2>9. TypeOK'
    BY <2>3, <2>4, <2>5, <2>6, <2>7
  <2> QED BY <2>8, <2>9
<1>4. CASE WaitDone
  BY <1>4, PoolAssumption DEF WaitDone, Workers
<1>5. CASE Kill
  BY <1>5 DEF Kill
<1>6. CASE Join
  BY <1>6, PoolAssumption DEF Join, Workers
<1> QED BY <1>1, <1>2, <1>3, <1>4, <1>5, <1>6 DEF Main

(* and so does a worker.                                                    *)
LEMMA WorkerStep ==
  ASSUME IndInv, NEW w \in Workers, Worker(w)
  PROVE  IndInv'
<1> USE DEF IndInv, Ownership, TypeOK, MainSteps
<1>1. CASE TestKill(w)
  BY <1>1 DEF TestKill, main
<1>2. CASE SkipSlot(w)
  BY <1>2, AdvanceTyped DEF SkipSlot, main
<1>3. CASE Start(w)
  BY <1>3 DEF Start, main
<1>4. CASE Execute(w)
  <2>1. output' \in [Chunks -> Nat]
    <3>1. \/ output' = output
          \/ output' = [output EXCEPT ![operands[w][head[w]]] = @ + 1]
      BY <1>4 DEF Execute
    <3>2. [output EXCEPT ![operands[w][head[w]]] = @ + 1] \in [Chunks -> Nat]
      BY Counted
    <3> QED BY <3>1, <3>2
  <2>2. head[w] \in Slots
    OBVIOUS
  <2>3. /\ m_status' \in [Workers -> [Slots -> {"IDLE", "READY", "COMPLETED"}]]
        /\ m_status'[w][head[w]] = "COMPLETED"
        /\ \A x \in Workers, s \in Slots :
             ~(x = w /\ s = head[w]) => m_status'[x][s] = m_status[x][s]
    BY <1>4, <2>2 DEF Execute
  <2>4. /\ Advance(w)
        /\ UNCHANGED <<op, pc, sent, m_next_worker_idx, m_next_task_idx, scanned, all_idle,
                       found, at, operands, m_kill>>
    BY <1>4 DEF Execute
  <2>5. /\ head' \in [Workers -> Slots]
        /\ running' \in [Workers -> {"test", "scan", "execute", "exited"}]
        /\ running'[w] # "execute"
        /\ \A x \in Workers : x # w => head'[x] = head[x] /\ running'[x] = running[x]
    BY <2>4, AdvanceTyped
  <2>6. Ownership'
    <3>1. ASSUME NEW x \in Workers, running'[x] = "execute"
          PROVE  m_status'[x][head'[x]] = "READY"
      <4>1. x # w
        BY <2>5, <3>1
      <4>2. /\ running[x] = "execute" /\ head'[x] = head[x] /\ head[x] \in Slots
            /\ m_status'[x][head[x]] = m_status[x][head[x]]
        BY <2>3, <2>5, <3>1, <4>1
      <4> QED BY <3>1, <4>2
    <3>2. ASSUME pc' = "send"
          PROVE  m_status'[found'[1]][found'[2]] # "READY"
      <4>1. /\ found' = found /\ pc = "send"
            /\ found[1] \in Workers /\ found[2] \in Slots
        BY <2>4, <3>2
      <4>2. CASE found[1] = w /\ found[2] = head[w]
        BY <2>3, <4>1, <4>2
      <4>3. CASE ~(found[1] = w /\ found[2] = head[w])
        <5>1. m_status'[found[1]][found[2]] = m_status[found[1]][found[2]]
          BY <2>3, <4>1, <4>3
        <5> QED BY <4>1, <5>1
      <4> QED BY <4>2, <4>3
    <3> QED BY <3>1, <3>2
  <2>7. TypeOK'
    BY <2>1, <2>3, <2>4, <2>5
  <2> QED BY <2>6, <2>7
<1> QED BY <1>1, <1>2, <1>3, <1>4 DEF Worker

(* The inductive invariant of the pool.                                     *)
THEOREM Inductive == Spec => []IndInv
<1>1. IndInv /\ UNCHANGED vars => IndInv'
  BY DEF IndInv, Ownership, TypeOK, vars, main
<1>2. IndInv /\ [Next]_vars => IndInv'
  BY <1>1, MainStep, WorkerStep DEF Next
<1> QED BY InitInv, <1>2, PTL DEF Spec

(* Every variable keeps its type: no index of the searches or of a worker   *)
(* leaves its vector.                                                       *)
THEOREM TypeCorrect == Spec => []TypeOK
BY Inductive, PTL DEF IndInv

(* No data race on the plain fields of a task: its operands do not change   *)
(* while a worker executes it.                                              *)
THEOREM NoRaceOnOperands == Spec => ExecutesWhatWasSent
<1>1. ASSUME IndInv, [Next]_vars, NEW w \in Workers, running[w] = "execute"
      PROVE  m_status[w][head[w]] = "READY" /\ operands'[w][head[w]] = operands[w][head[w]]
  <2>1. m_status[w][head[w]] = "READY"
    BY <1>1 DEF IndInv, Ownership
  <2>2. CASE UseSlot
    <3>1. ~(w = found[1] /\ head[w] = found[2])
      BY <1>1, <2>1, <2>2 DEF IndInv, Ownership, UseSlot
    <3>2. head[w] \in Slots /\ found \in Workers \X Slots
          /\ operands \in [Workers -> [Slots -> Chunks \cup {NoChunk}]]
      BY <1>1 DEF IndInv, TypeOK
    <3> QED BY <2>1, <2>2, <3>1, <3>2 DEF UseSlot
  <2>3. CASE UNCHANGED operands
    BY <2>1, <2>3
  <2>4. UseSlot \/ UNCHANGED operands
    BY <1>1 DEF Next, Main, Worker, GetFree, GetCompleted, WaitDone, Kill, Join, TestKill,
                SkipSlot, Start, Execute, vars
  <2> QED BY <2>2, <2>3, <2>4
<1>2. IndInv /\ [Next]_vars =>
        [\A w \in Workers :
           running[w] = "execute" =>
             /\ m_status[w][head[w]] = "READY"
             /\ operands'[w][head[w]] = operands[w][head[w]]]_vars
  BY <1>1
<1> QED BY <1>2, Inductive, PTL DEF Spec, ExecutesWhatWasSent
-----------------------------------------------------------------------------
(* Where the chunks are.  A slot that is not idle works on a chunk that was *)
(* sent, and a chunk is not sent yet, or waits in exactly one slot, or is   *)
(* in the output once.                                                      *)
Awaited == IF op = "cpu_vector_sum" THEN {"READY", "COMPLETED"} ELSE {"READY"}
Held(c) == Holding(c, Awaited)
Placed(c) ==
  \/ c > sent /\ output[c] = 0 /\ Held(c) = {}
  \/ c <= sent /\ output[c] = 0 /\ \E x \in Workers \X Slots : Held(c) = {x}
  \/ c <= sent /\ output[c] = 1 /\ Held(c) = {}
Placement ==
  /\ op \in Operations
  /\ \A w \in Workers, s \in Slots : m_status[w][s] # "IDLE" => operands[w][s] \in Chunks
  /\ \A c \in Chunks : Placed(c)

(* At the start no chunk is anywhere.                                       *)
LEMMA PlacementInit == Init => Placement
<1> SUFFICES ASSUME Init PROVE Placement
  OBVIOUS
<1>1. \A w \in Workers, s \in Slots : m_status[w][s] = "IDLE"
  BY DEF Init
<1>2. \A c \in Chunks : Held(c) = {}
  BY <1>1 DEF Held, Holding, Awaited
<1>3. \A c \in Chunks : c > sent /\ output[c] = 0
  BY PoolAssumption DEF Init, Chunks
<1> QED BY <1>1, <1>2, <1>3 DEF Init, Placement, Placed

(* The calling thread uses a slot it owns: its result, when it is awaited,  *)
(* goes to the output, and the next chunk goes into the slot.               *)
LEMMA PlacementUseSlot ==
  ASSUME IndInv, Placement, UseSlot PROVE Placement'
<1> DEFINE w == found[1]
           s == found[2]
           more == sent < NofChunks
<1>1. /\ w \in Workers /\ s \in Slots /\ found = <<w, s>> /\ m_status[w][s] # "READY"
      /\ sent \in 0 .. NofChunks /\ output \in [Chunks -> Nat]
      /\ m_status \in [Workers -> [Slots -> {"IDLE", "READY", "COMPLETED"}]]
      /\ operands \in [Workers -> [Slots -> Chunks \cup {NoChunk}]]
  BY DEF IndInv, Ownership, TypeOK, UseSlot
<1>2. /\ op' = op /\ Awaited' = Awaited
      /\ sent' = IF more THEN sent + 1 ELSE sent
      /\ m_status'[w][s] = IF more THEN "READY" ELSE "IDLE"
      /\ operands'[w][s] = IF more THEN sent + 1 ELSE operands[w][s]
  BY <1>1 DEF UseSlot, Awaited
<1>3. \A x \in Workers, y \in Slots : ~(x = w /\ y = s) =>
        m_status'[x][y] = m_status[x][y] /\ operands'[x][y] = operands[x][y]
  BY <1>1 DEF UseSlot
<1>4. more => sent + 1 \in Chunks
  BY <1>1, PoolAssumption DEF Chunks
<1>5. ASSUME NEW c \in Chunks PROVE Placed(c)'
  <2> DEFINE collected == found \in Held(c)
  <2>1. collected <=> op = "cpu_vector_sum" /\ m_status[w][s] = "COMPLETED" /\ operands[w][s] = c
    BY <1>1 DEF Held, Holding, Awaited
  <2>2. output'[c] = IF collected THEN output[c] + 1 ELSE output[c]
    BY <1>1, <2>1 DEF UseSlot
  <2>3. Held(c)' = (Held(c) \ {found}) \cup (IF more /\ c = sent + 1 THEN {found} ELSE {})
    <3>1. \A x \in Workers, y \in Slots : ~(x = w /\ y = s) =>
            (<<x, y>> \in Held(c)' <=> <<x, y>> \in Held(c))
      BY <1>2, <1>3 DEF Held, Holding
    <3>2. found \in Held(c)' <=> more /\ c = sent + 1
      BY <1>1, <1>2 DEF Held, Holding, Awaited
    <3>3. Held(c) \subseteq Workers \X Slots /\ Held(c)' \subseteq Workers \X Slots
      BY DEF Held, Holding
    <3> QED BY <1>1, <3>1, <3>2, <3>3
  <2>4. Placed(c)
    BY DEF Placement
  <2>5. CASE c > sent
    <3>1. c \in Nat /\ output[c] = 0 /\ Held(c) = {} /\ output'[c] = 0
      BY <1>1, <2>2, <2>4, <2>5 DEF Placed, Chunks
    <3>2. CASE more /\ c = sent + 1
      BY <1>1, <1>2, <2>3, <3>1, <3>2 DEF Placed
    <3>3. CASE ~(more /\ c = sent + 1)
      <4>1. c > sent'
        BY <1>1, <1>2, <2>5, <3>1, <3>3 DEF Chunks
      <4> QED BY <2>3, <3>1, <3>3, <4>1 DEF Placed
    <3> QED BY <3>2, <3>3
  <2>6. CASE c <= sent
    <3>1. c \in Nat /\ c <= sent' /\ c # sent + 1 /\ ~(c > sent)
      BY <1>1, <1>2, <2>6 DEF Chunks
    <3>2. Held(c)' = Held(c) \ {found}
      BY <2>3, <3>1
    <3>3. CASE collected
      <4>1. Held(c) = {found} /\ output[c] = 0
        BY <2>4, <3>1, <3>3 DEF Placed
      <4> QED BY <2>2, <3>1, <3>2, <3>3, <4>1 DEF Placed
    <3>4. CASE ~collected
      <4>1. Held(c)' = Held(c) /\ output'[c] = output[c]
        BY <2>2, <3>2, <3>4
      <4> QED BY <2>4, <3>1, <4>1 DEF Placed
    <3> QED BY <3>3, <3>4
  <2> QED BY <1>1, <2>5, <2>6 DEF Chunks
<1>6. \A x \in Workers, y \in Slots : m_status'[x][y] # "IDLE" => operands'[x][y] \in Chunks
  BY <1>2, <1>3, <1>4 DEF Placement
<1> QED BY <1>2, <1>5, <1>6 DEF Placement

(* A worker executes its chunk: it goes to the output, or its result waits  *)
(* in the slot.                                                             *)
LEMMA PlacementExecute ==
  ASSUME IndInv, Placement, NEW w \in Workers, Execute(w) PROVE Placement'
<1> DEFINE s == head[w]
           d == operands[w][s]
<1>1. /\ s \in Slots /\ m_status[w][s] = "READY" /\ d \in Chunks
      /\ sent \in 0 .. NofChunks /\ output \in [Chunks -> Nat]
      /\ m_status \in [Workers -> [Slots -> {"IDLE", "READY", "COMPLETED"}]]
  BY DEF IndInv, Ownership, TypeOK, Execute, Placement
<1>2. /\ UNCHANGED <<op, sent, operands>> /\ Awaited' = Awaited
      /\ m_status'[w][s] = "COMPLETED"
      /\ \A x \in Workers, y \in Slots : ~(x = w /\ y = s) =>
           m_status'[x][y] = m_status[x][y]
  BY <1>1 DEF Execute, Awaited
<1>3. <<w, s>> \in Held(d)
  BY <1>1 DEF Held, Holding, Awaited
<1>4. Held(d) = {<<w, s>>} /\ output[d] = 0 /\ d <= sent
  BY <1>1, <1>3 DEF Placement, Placed
<1>5. op \in {"cpu_2vectors_op", "cpu_vector_sum"}
  BY PoolAssumption DEF Placement
<1>6. ASSUME NEW c \in Chunks PROVE Placed(c)'
  <2>1. Placed(c)
    BY DEF Placement
  <2>2. c # d \/ op = "cpu_vector_sum" => output'[c] = output[c] /\ Held(c)' = Held(c)
    <3>1. ASSUME c # d \/ op = "cpu_vector_sum" PROVE output'[c] = output[c]
      BY <1>1, <3>1 DEF Execute
    <3>2. ASSUME c # d \/ op = "cpu_vector_sum", NEW x \in Workers, NEW y \in Slots
          PROVE  <<x, y>> \in Held(c)' <=> <<x, y>> \in Held(c)
      <4>1. CASE x = w /\ y = s
        BY <1>1, <1>2, <3>2, <4>1 DEF Held, Holding, Awaited
      <4>2. CASE ~(x = w /\ y = s)
        BY <1>2, <4>2 DEF Held, Holding
      <4> QED BY <4>1, <4>2
    <3>3. Held(c) \subseteq Workers \X Slots /\ Held(c)' \subseteq Workers \X Slots
      BY DEF Held, Holding
    <3> QED BY <3>1, <3>2, <3>3
  <2>3. CASE c # d \/ op = "cpu_vector_sum"
    BY <1>2, <2>1, <2>2, <2>3 DEF Placed
  <2>4. CASE c = d /\ op = "cpu_2vectors_op"
    <3>1. output'[c] = 1
      BY <1>1, <1>4, <2>4 DEF Execute
    <3>2. <<w, s>> \notin Held(c)'
      BY <1>1, <1>2, <2>4 DEF Held, Holding, Awaited
    <3>3. \A x \in Workers, y \in Slots : ~(x = w /\ y = s) => <<x, y>> \notin Held(c)'
      <4>1. \A x \in Workers, y \in Slots : ~(x = w /\ y = s) =>
              (<<x, y>> \in Held(c)' <=> <<x, y>> \in Held(c))
        BY <1>2 DEF Held, Holding
      <4> QED BY <1>4, <2>4, <4>1
    <3>4. Held(c)' = {}
      BY <3>2, <3>3 DEF Held, Holding
    <3> QED BY <1>2, <1>4, <2>4, <3>1, <3>4 DEF Placed
  <2> QED BY <1>5, <2>3, <2>4
<1>7. \A x \in Workers, y \in Slots : m_status'[x][y] # "IDLE" => operands'[x][y] \in Chunks
  BY <1>1, <1>2 DEF Placement
<1> QED BY <1>2, <1>6, <1>7 DEF Placement

(* Every chunk stays in one place.                                          *)
LEMMA PlacementInductive == Spec => []Placement
<1>1. ASSUME UNCHANGED <<op, sent, output, m_status, operands>>, Placement PROVE Placement'
  BY <1>1 DEF Placement, Placed, Held, Holding, Awaited
<1>2. ASSUME IndInv, Placement, [Next]_vars PROVE Placement'
  <2>1. \/ UseSlot \/ \E w \in Workers : Execute(w)
        \/ UNCHANGED <<op, sent, output, m_status, operands>>
    BY <1>2 DEF Next, Main, Worker, GetFree, GetCompleted, WaitDone, Kill, Join, TestKill,
                SkipSlot, Start, vars, main
  <2> QED BY <1>1, <1>2, <2>1, PlacementUseSlot, PlacementExecute
<1> QED BY <1>2, PlacementInit, Inductive, PTL DEF Spec

(* No chunk is lost or counted twice: each one that was dispatched is in    *)
(* exactly one slot or once in the output, for any number of workers, slots *)
(* and chunks.                                                              *)
THEOREM NoChunkLost == Spec => []EveryChunkSomewhere
<1>1. ASSUME IndInv, Placement, NEW c \in Chunks
      PROVE  Cardinality(Held(c)) + output[c] = IF c <= sent THEN 1 ELSE 0
  <2>1. Placed(c) /\ c \in Nat /\ sent \in Nat
    BY <1>1 DEF IndInv, TypeOK, Placement, Chunks
  <2>2. Held(c) = {} => Cardinality(Held(c)) = 0
    BY FS_EmptySet
  <2>3. \A x : Cardinality({x}) = 1
    BY FS_Singleton
  <2> QED BY <2>1, <2>2, <2>3 DEF Placed
<1>2. IndInv /\ Placement => EveryChunkSomewhere
  BY <1>1 DEF EveryChunkSomewhere, Held, Awaited
<1> QED BY <1>2, Inductive, PlacementInductive, PTL
=============================================================================
