------------------------------ MODULE NormCheck ------------------------------
(***************************************************************************)
(* check_norm_bound and check_norm_relative of the CPU backend: the vector *)
(* is cut into one task per worker, the tasks run in any order and meet in *)
(* one slot per worker (L2) or in one atomic maximum (LInfinity), and the  *)
(* answer is read when all of them are done.  One vector at a time: the    *)
(* vectors of a batch share nothing.                                       *)
(***************************************************************************)
EXTENDS Norms, FiniteSets, FiniteSetsExt

CONSTANTS
  Workers,     \* nof_workers
  Calls,       \* calls to consider: [fn, norm, a, b, limit], vectors on 0 .. n - 1
  MaxRelative, \* largest size check_norm_relative takes (65536 in the code)
  Spurious     \* whether compare_exchange_weak may fail for no reason

ASSUME NormAssumption ==
  /\ Workers \in Nat \ {0} /\ MaxRelative \in Nat /\ Spurious \in BOOLEAN
  /\ \A c \in Calls :
       LET Input == [0 .. Cardinality(DOMAIN c.a) - 1 -> 0 .. Q - 1]
       IN  /\ c.fn \in {"check_norm_bound", "check_norm_relative"}
           /\ c.norm \in {"L2", "LInfinity"} /\ c.limit \in Nat
           /\ IsFiniteSet(DOMAIN c.a) /\ c.a \in Input
           /\ c.fn = "check_norm_relative" => c.b \in Input

VARIABLES
  call,              \* the arguments
  pc,                \* of each task: "scan", "load", "cas" or "done"
  vec,               \* of each task: the vector whose maximum it is at
  local,             \* of each task: its sum or maximum of each vector
  current_max,       \* of each task: the maximum it has loaded
  max_abs,           \* the shared maximum of each vector
  thread_sums,       \* for each vector, the sum of each worker's task
  validation_failed,
  result             \* "none", "INVALID_ARGUMENT", "true" or "false"

vars == <<call, pc, vec, local, current_max, max_abs, thread_sums,
          validation_failed, result>>

relative == call.fn = "check_norm_relative"
Vectors  == IF relative THEN {"a", "b"} ELSE {"a"}
At(v, i) == abs_centered(IF v = "a" THEN call.a[i] ELSE call.b[i])

size == Cardinality(DOMAIN call.a)
worker_task_size == (size + Workers - 1) \div Workers
Tasks == {k \in 0 .. Workers - 1 : k * worker_task_size < size}
start_idx(t) == t * worker_task_size
end_idx(t)   == IF start_idx(t) + worker_task_size < size
                  THEN start_idx(t) + worker_task_size ELSE size
Chunk(t)     == start_idx(t) .. end_idx(t) - 1

Indices    == DOMAIN call.a
Squares(v) == [i \in Indices |-> At(v, i) * At(v, i)]
\* The largest entry of v in a chunk; a maximum starts from 0.
Largest(I, v) == Max({0} \cup {At(v, i) : i \in I})

Init ==
  /\ call \in Calls
  /\ pc = [t \in Tasks |-> "scan"]
  /\ vec = [t \in Tasks |-> "a"]
  /\ local = [t \in Tasks |-> [v \in Vectors |-> 0]]
  /\ current_max = [t \in Tasks |-> 0]
  /\ max_abs = [v \in Vectors |-> 0]
  /\ thread_sums = [v \in Vectors |-> [t \in 0 .. Workers - 1 |-> 0]]
  /\ validation_failed = FALSE
  /\ result = "none"

\* Before any task is created.
Refuse ==
  /\ result = "none"
  /\ size = 0 \/ (relative /\ size > MaxRelative)
  /\ result' = "INVALID_ARGUMENT"
  /\ pc' = [t \in Tasks |-> "done"]
  /\ UNCHANGED <<call, vec, local, current_max, max_abs, thread_sums, validation_failed>>

\* Entries must stay below sqrt(q), except for the LInfinity bound.
Validated == call.norm = "L2" \/ relative
OutOfRange(t) ==
  Validated /\ \E i \in Chunk(t), v \in Vectors : At(v, i) >= SqrtQ

\* One task over its chunk: private, but for the flag.
Scan(t) ==
  LET found == [v \in Vectors |->
                  IF call.norm = "L2" THEN SumBetween(Squares(v), start_idx(t), end_idx(t))
                                      ELSE Largest(Chunk(t), v)]
  IN  /\ result = "none" /\ size > 0 /\ (relative => size <= MaxRelative)
      /\ pc[t] = "scan"
      /\ \/ /\ OutOfRange(t)
            /\ validation_failed' = TRUE
            /\ pc' = [pc EXCEPT ![t] = "done"]
            /\ UNCHANGED <<local, thread_sums>>
         \/ /\ ~OutOfRange(t)
            /\ local' = [local EXCEPT ![t] = found]
            /\ IF call.norm = "L2"
                 THEN /\ thread_sums' = [v \in Vectors |->
                                           [thread_sums[v] EXCEPT ![t] = found[v]]]
                      /\ pc' = [pc EXCEPT ![t] = "done"]
                 ELSE /\ pc' = [pc EXCEPT ![t] = "load"]
                      /\ UNCHANGED thread_sums
            /\ UNCHANGED validation_failed
      /\ UNCHANGED <<call, vec, current_max, max_abs, result>>

\* On to the maximum of the other vector, or the task is over.
Leave(t) ==
  IF relative /\ vec[t] = "a"
    THEN pc' = [pc EXCEPT ![t] = "load"] /\ vec' = [vec EXCEPT ![t] = "b"]
    ELSE pc' = [pc EXCEPT ![t] = "done"] /\ UNCHANGED vec

\* With what it has seen of the maximum: try to raise it, or leave.
Decide(t, seen) ==
  /\ current_max' = [current_max EXCEPT ![t] = seen]
  /\ IF local[t][vec[t]] > seen
       THEN pc' = [pc EXCEPT ![t] = "cas"] /\ UNCHANGED vec
       ELSE Leave(t)

Load(t) ==
  /\ pc[t] = "load"
  /\ Decide(t, max_abs[vec[t]])
  /\ UNCHANGED <<call, local, max_abs, thread_sums, validation_failed, result>>

\* Mutant: the local maxima are added up.
CasAdds(t) ==
  /\ pc[t] = "cas"
  /\ max_abs[vec[t]] = current_max[t]
  /\ max_abs' = [max_abs EXCEPT ![vec[t]] = @ + local[t][vec[t]]]
  /\ Leave(t)
  /\ UNCHANGED <<call, local, current_max, thread_sums, validation_failed, result>>

CasSucceeds(t) ==
  /\ pc[t] = "cas"
  /\ max_abs[vec[t]] = current_max[t]
  /\ max_abs' = [max_abs EXCEPT ![vec[t]] = local[t][vec[t]]]
  /\ Leave(t)
  /\ UNCHANGED <<call, local, current_max, thread_sums, validation_failed, result>>

\* Mutant: the relative check does not try again either.
CasFailsOnce(t) ==
  /\ pc[t] = "cas"
  /\ Spurious \/ max_abs[vec[t]] # current_max[t]
  /\ Leave(t) /\ UNCHANGED current_max
  /\ UNCHANGED <<call, local, max_abs, thread_sums, validation_failed, result>>

\* A failed exchange loads the maximum again.  check_norm_relative then decides
\* again; check_norm_bound goes on as if it had succeeded.
CasFails(t) ==
  /\ pc[t] = "cas"
  /\ Spurious \/ max_abs[vec[t]] # current_max[t]
  /\ IF relative THEN Decide(t, max_abs[vec[t]])
                 ELSE Leave(t) /\ UNCHANGED current_max
  /\ UNCHANGED <<call, local, max_abs, thread_sums, validation_failed, result>>

\* executor.run(taskflow).wait(), then the answer.
Total(v) == SumBetween(thread_sums[v], 0, Workers)
Below ==
  CASE call.norm = "L2" /\ ~relative -> Total("a") < call.limit * call.limit
    [] call.norm = "L2" /\ relative  -> Total("a") < call.limit * call.limit * Total("b")
    [] call.norm # "L2" /\ ~relative -> max_abs["a"] < call.limit
    [] call.norm # "L2" /\ relative  -> max_abs["a"] < call.limit * max_abs["b"]

\* Mutant: the flag is not looked at.
AnswerUnchecked ==
  /\ result = "none" /\ size > 0
  /\ \A t \in Tasks : pc[t] = "done"
  /\ result' = IF Below THEN "true" ELSE "false"
  /\ UNCHANGED <<call, pc, vec, local, current_max, max_abs, thread_sums, validation_failed>>

Answer ==
  /\ result = "none" /\ size > 0
  /\ \A t \in Tasks : pc[t] = "done"
  /\ result' = IF validation_failed THEN "INVALID_ARGUMENT"
               ELSE IF Below THEN "true" ELSE "false"
  /\ UNCHANGED <<call, pc, vec, local, current_max, max_abs, thread_sums, validation_failed>>

Next ==
  \/ Refuse \/ Answer
  \/ \E t \in Tasks : Scan(t) \/ Load(t) \/ CasSucceeds(t) \/ CasFails(t)

Spec == Init /\ [][Next]_vars
-----------------------------------------------------------------------------
MaxOf(v) == Largest(Indices, v)
SquareOf(v) == SumBetween(Squares(v), 0, size)

\* The threads compute the function norm_L2 the protocol modules use in one step.
L2IsTheNorm ==
  call.fn = "check_norm_bound" /\ call.norm = "L2" /\ result # "none" /\ size > 0 =>
    result = CASE norm_L2(size, call.a, call.limit) = "small" -> "true"
               [] norm_L2(size, call.a, call.limit) = "large" -> "false"
               [] OTHER -> "INVALID_ARGUMENT"

\* The relative checks are exact in every order of loads and exchanges, since a
\* failed exchange is tried again.
RelativeIsExact ==
  relative /\ result \in {"true", "false"} =>
    (result = "true" <=>
       IF call.norm = "L2" THEN SquareOf("a") < call.limit * call.limit * SquareOf("b")
                           ELSE MaxOf("a") < call.limit * MaxOf("b"))

\* Whatever order the tasks exchange in, the LInfinity check never refuses a
\* vector that is small enough: a lost maximum errs on the other side only, where
\* the check can accept a vector that is not (see the README).
SmallIsNeverRefused ==
  call.fn = "check_norm_bound" /\ call.norm = "LInfinity" /\ size > 0
    /\ MaxOf("a") < call.limit => result \in {"none", "true"}
=============================================================================
