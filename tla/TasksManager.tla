---------------------------- MODULE TasksManager ----------------------------
(***************************************************************************)
(* TasksManager and the vector operations of the CPU backend that run on   *)
(* it: the calling thread cuts a vector into chunks and writes each one    *)
(* into a task slot of some worker; every worker goes round its own slots  *)
(* and executes those that are ready.  The only thing the threads share is *)
(* the status of each slot (and m_kill).  cpu_2vectors_op dispatches every *)
(* chunk and calls wait_done; cpu_vector_sum collects the result of every  *)
(* chunk itself.  The manager is created and destroyed within the call.    *)
(***************************************************************************)
EXTENDS Integers, FiniteSets

CONSTANTS
  NofWorkers,  \* threads of the manager
  NofSlots,    \* task slots per worker (at least 64 in the code)
  NofChunks,   \* chunks of NOF_OPERATIONS_PER_TASK operations in the vector
  Operations   \* the vector operations to consider

ASSUME PoolAssumption ==
  /\ NofWorkers \in Nat \ {0} /\ NofSlots \in Nat \ {0} /\ NofChunks \in Nat
  /\ Operations \subseteq {"cpu_2vectors_op", "cpu_vector_sum"}

Workers == 0 .. NofWorkers - 1
Slots   == 0 .. NofSlots - 1
Chunks  == 1 .. NofChunks
NoChunk == 0

VARIABLES
  op,                \* the operation running
  pc,                \* the calling thread, see MainSteps
  sent,              \* chunks dispatched so far
  output,            \* how often each chunk is in the output
  m_next_worker_idx, m_next_task_idx,
  scanned,           \* slots looked at since the search began
  all_idle,          \* get_completed_task: no slot in use was seen in this round
  found,             \* the slot the search returned
  at,                \* the worker wait_done or the destructor is at
  m_status,          \* of each slot: "IDLE", "READY" or "COMPLETED"
  operands,          \* of each slot: the chunk the task works on
  m_kill,            \* of each worker
  head,              \* of each worker: the slot it looks at
  running            \* of each worker: "test", "scan", "execute" or "exited"

main == <<op, pc, sent, output, m_next_worker_idx, m_next_task_idx, scanned, all_idle, found, at>>
vars == <<main, m_status, operands, m_kill, head, running>>

MainSteps == {"get", "collect", "send", "wait", "kill", "join", "returned"}

\* Without a chunk to send cpu_2vectors_op goes straight to wait_done and
\* cpu_vector_sum to get_completed_task.
NextStep(s) == IF s < NofChunks THEN "get"
               ELSE IF op = "cpu_2vectors_op" THEN "wait" ELSE "collect"

Init ==
  /\ op \in Operations
  /\ sent = 0 /\ pc = NextStep(0) /\ output = [c \in Chunks |-> 0]
  /\ m_next_worker_idx = 0 /\ m_next_task_idx = [w \in Workers |-> 0]
  /\ scanned = 0 /\ all_idle = TRUE /\ found = <<0, 0>> /\ at = 0
  /\ m_status = [w \in Workers |-> [s \in Slots |-> "IDLE"]]
  /\ operands = [w \in Workers |-> [s \in Slots |-> NoChunk]]
  /\ m_kill = [w \in Workers |-> FALSE]
  /\ head = [w \in Workers |-> 0] /\ running = [w \in Workers |-> "test"]

-----------------------------------------------------------------------------
\* The searches: worker by worker from the one after m_next_worker_idx, slot by
\* slot from the one after its m_next_task_idx, one load of a status at a time.
CurrentWorker == IF scanned % NofSlots = 0 THEN (m_next_worker_idx + 1) % NofWorkers
                                           ELSE m_next_worker_idx
CurrentSlot == (m_next_task_idx[CurrentWorker] + 1) % NofSlots
CurrentStatus == m_status[CurrentWorker][CurrentSlot]

Look ==
  /\ m_next_worker_idx' = CurrentWorker
  /\ m_next_task_idx' = [m_next_task_idx EXCEPT ![CurrentWorker] = CurrentSlot]

\* The round over all workers' slots is over, the next one begins.
LookOn == scanned' = (scanned + 1) % (NofWorkers * NofSlots)
RoundOver == scanned = NofWorkers * NofSlots - 1

\* Mutant: whatever slot comes next is taken.
GetAny ==
  /\ pc = "get"
  /\ Look
  /\ pc' = "send" /\ found' = <<CurrentWorker, CurrentSlot>> /\ scanned' = 0
  /\ UNCHANGED <<op, sent, output, all_idle, at, m_status, operands, m_kill, head, running>>

\* get_idle_or_completed_task: blocks until a slot is not ready.
GetFree ==
  /\ pc = "get"
  /\ Look
  /\ IF CurrentStatus # "READY"
       THEN /\ pc' = "send" /\ found' = <<CurrentWorker, CurrentSlot>> /\ scanned' = 0
       ELSE LookOn /\ UNCHANGED <<pc, found>>
  /\ UNCHANGED <<op, sent, output, all_idle, at, m_status, operands, m_kill, head, running>>

\* get_completed_task: returns a completed slot, or nullptr, with which
\* cpu_vector_sum returns, after a round in which every slot was idle.
GetCompleted ==
  /\ pc = "collect"
  /\ Look
  /\ LET idle == all_idle /\ CurrentStatus = "IDLE"
     IN  IF CurrentStatus = "COMPLETED"
           THEN /\ pc' = "send" /\ found' = <<CurrentWorker, CurrentSlot>>
                /\ scanned' = 0 /\ all_idle' = TRUE
           ELSE /\ pc' = IF RoundOver /\ idle THEN "kill" ELSE pc
                /\ all_idle' = (RoundOver \/ idle)
                /\ LookOn /\ UNCHANGED found
  /\ UNCHANGED <<op, sent, output, at, m_status, operands, m_kill, head, running>>

\* Mutant: a slot gets its next chunk before its result is added.
UseSlotFirst ==
  LET w == found[1]
      s == found[2]
      more == sent < NofChunks
  IN  /\ pc = "send"
      /\ output' = IF op = "cpu_vector_sum" /\ ~more
                     THEN [output EXCEPT ![operands[w][s]] = @ + 1] ELSE output
      /\ operands' = IF more THEN [operands EXCEPT ![w][s] = sent + 1] ELSE operands
      /\ m_status' = [m_status EXCEPT ![w][s] = IF more THEN "READY" ELSE "IDLE"]
      /\ sent' = IF more THEN sent + 1 ELSE sent
      /\ pc' = NextStep(sent')
      /\ UNCHANGED <<op, m_next_worker_idx, m_next_task_idx, scanned, all_idle, found, at,
                     m_kill, head, running>>

\* With a slot in hand: cpu_vector_sum adds the result it holds, then the slot
\* gets the next chunk, or becomes idle when there is none.
UseSlot ==
  LET w == found[1]
      s == found[2]
      holds == m_status[w][s] = "COMPLETED"
      more  == sent < NofChunks
  IN  /\ pc = "send"
      /\ output' = IF op = "cpu_vector_sum" /\ holds
                     THEN [output EXCEPT ![operands[w][s]] = @ + 1] ELSE output
      /\ operands' = IF more THEN [operands EXCEPT ![w][s] = sent + 1] ELSE operands
      /\ m_status' = [m_status EXCEPT ![w][s] = IF more THEN "READY" ELSE "IDLE"]
      /\ sent' = IF more THEN sent + 1 ELSE sent
      /\ pc' = NextStep(sent')
      /\ UNCHANGED <<op, m_next_worker_idx, m_next_task_idx, scanned, all_idle, found, at,
                     m_kill, head, running>>

Done(w, s) == m_status[w][s] \in {"IDLE", "COMPLETED"}

\* Worker::wait_done of one worker after the other.  Its loop over the tasks
\* looks at m_tasks[m_next_task_idx] every time.
WaitDone ==
  /\ pc = "wait"
  /\ Done(at, m_next_task_idx[at])
  /\ IF at = NofWorkers - 1 THEN pc' = "kill" /\ at' = 0 ELSE at' = at + 1 /\ UNCHANGED pc
  /\ UNCHANGED <<op, sent, output, m_next_worker_idx, m_next_task_idx, scanned, all_idle,
                 found, m_status, operands, m_kill, head, running>>

\* Mutant: the thread is joined without being told to stop.
KillForgotten ==
  /\ pc = "kill" /\ pc' = "join"
  /\ UNCHANGED <<op, sent, output, m_next_worker_idx, m_next_task_idx, scanned, all_idle,
                 found, at, m_status, operands, m_kill, head, running>>

\* The destructor: kill and join one worker after the other.
Kill ==
  /\ pc = "kill" /\ pc' = "join"
  /\ m_kill' = [m_kill EXCEPT ![at] = TRUE]
  /\ UNCHANGED <<op, sent, output, m_next_worker_idx, m_next_task_idx, scanned, all_idle,
                 found, at, m_status, operands, head, running>>
Join ==
  /\ pc = "join" /\ running[at] = "exited"
  /\ IF at = NofWorkers - 1 THEN pc' = "returned" /\ UNCHANGED at
                            ELSE pc' = "kill" /\ at' = at + 1
  /\ UNCHANGED <<op, sent, output, m_next_worker_idx, m_next_task_idx, scanned, all_idle,
                 found, m_status, operands, m_kill, head, running>>

-----------------------------------------------------------------------------
\* worker_loop.  m_kill is read between two rounds only.  It is a plain bool; the
\* atomic loads of the loop make the compiler read it again, and the write of
\* the destructor becomes visible some time.
TestKill(w) ==
  /\ running[w] = "test"
  /\ running' = [running EXCEPT ![w] = IF m_kill[w] THEN "exited" ELSE "scan"]
  /\ UNCHANGED <<main, m_status, operands, m_kill, head>>

\* On to the next slot, or back to the test after the last one.
Advance(w) ==
  /\ head' = [head EXCEPT ![w] = (@ + 1) % NofSlots]
  /\ running' = [running EXCEPT ![w] = IF head[w] = NofSlots - 1 THEN "test" ELSE "scan"]

SkipSlot(w) ==
  /\ running[w] = "scan" /\ m_status[w][head[w]] # "READY"
  /\ Advance(w)
  /\ UNCHANGED <<main, m_status, operands, m_kill>>

Start(w) ==
  /\ running[w] = "scan" /\ m_status[w][head[w]] = "READY"
  /\ running' = [running EXCEPT ![w] = "execute"]
  /\ UNCHANGED <<main, m_status, operands, m_kill, head>>

\* execute() and set_completed().  A chunk of cpu_2vectors_op is written to the
\* output here, one of cpu_vector_sum stays in the task until it is collected.
Execute(w) ==
  LET s == head[w]
  IN  /\ running[w] = "execute"
      /\ output' = IF op = "cpu_2vectors_op"
                     THEN [output EXCEPT ![operands[w][s]] = @ + 1] ELSE output
      /\ m_status' = [m_status EXCEPT ![w][s] = "COMPLETED"]
      /\ Advance(w)
      /\ UNCHANGED <<op, pc, sent, m_next_worker_idx, m_next_task_idx, scanned, all_idle,
                     found, at, operands, m_kill>>

Main == GetFree \/ GetCompleted \/ UseSlot \/ WaitDone \/ Kill \/ Join
Worker(w) == TestKill(w) \/ SkipSlot(w) \/ Start(w) \/ Execute(w)

Next == Main \/ \E w \in Workers : Worker(w)

Spec == Init /\ [][Next]_vars
\* Every thread is scheduled again and again.
FairSpec == Spec /\ WF_vars(Main) /\ \A w \in Workers : WF_vars(Worker(w))
-----------------------------------------------------------------------------
TypeOK ==
  /\ pc \in MainSteps /\ sent \in 0 .. NofChunks
  /\ output \in [Chunks -> Nat]
  /\ m_next_worker_idx \in Workers /\ m_next_task_idx \in [Workers -> Slots]
  /\ found \in Workers \X Slots /\ at \in Workers
  /\ scanned \in 0 .. NofWorkers * NofSlots - 1 /\ all_idle \in BOOLEAN
  /\ m_status \in [Workers -> [Slots -> {"IDLE", "READY", "COMPLETED"}]]
  /\ operands \in [Workers -> [Slots -> Chunks \cup {NoChunk}]]
  /\ m_kill \in [Workers -> BOOLEAN] /\ head \in [Workers -> Slots]
  /\ running \in [Workers -> {"test", "scan", "execute", "exited"}]

\* The plain fields of a task belong to the worker while the task is ready and
\* to the calling thread otherwise: the operands never change under execute(),
\* nor is the slot handed out again.
ExecutesWhatWasSent ==
  [][\A w \in Workers :
       running[w] = "execute" =>
         /\ m_status[w][head[w]] = "READY"
         /\ operands'[w][head[w]] = operands[w][head[w]]]_vars

\* Where a dispatched chunk can be: in one ready or completed slot, or in the
\* output, and in only one of them while cpu_vector_sum runs.
Holding(c, statuses) ==
  {x \in Workers \X Slots :
     operands[x[1]][x[2]] = c /\ m_status[x[1]][x[2]] \in statuses}
EveryChunkSomewhere ==
  \A c \in Chunks :
    LET waiting == Cardinality(Holding(c, IF op = "cpu_vector_sum"
                                            THEN {"READY", "COMPLETED"} ELSE {"READY"}))
    IN  waiting + output[c] = IF c <= sent THEN 1 ELSE 0

\* Every operation returns: no thread waits for ever for a slot, a result, the
\* end of a task or the end of a thread.
Returns == <>(pc = "returned")

\* "Wait until all workers are done - i.e. all tasks are idle or completed"
\* (tasks_manager.h): when cpu_2vectors_op has returned no task is left over.
\* The code breaks this, see the README.
NoTaskLeftBehind ==
  pc = "returned" => \A w \in Workers, s \in Slots : Done(w, s)
=============================================================================
