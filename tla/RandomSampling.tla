--------------------------- MODULE RandomSampling ---------------------------
(***************************************************************************)
(* One call of cpu_random_sampling, in either mode, or of                  *)
(* cpu_challenge_space_polynomials_sampling (cpu_random_sampling.cpp).     *)
(* Prover and verifier make the same calls on machines of their own, so    *)
(* the elements may depend on neither the workers nor their order.         *)
(*                                                                         *)
(* The hash is a free function of its input: an element is named by what   *)
(* was hashed and what was made of it, <<batch, chain or counter, place>>, *)
(* and a challenge by <<polynomial, retry>>.  `small` says which tries     *)
(* have an operator norm within the bound.                                 *)
(***************************************************************************)
EXTENDS MergeShuffle

CONSTANTS
  NofTasks,         \* RANDOM_SAMPLING_FAST_MODE_NUMBER_OF_TASKS
  ElementsPerHash,  \* elements one hash of slow mode yields
  MaxRetry,         \* 0xFFFFFF, the bound on retry_idx
  Cells,            \* length of the memory that output points into
  Calls             \* [mode, size, batch, workers, ones, twos, norm] to consider

ASSUME SamplingAssumption ==
  /\ NofTasks \in Nat \ {0} /\ ElementsPerHash \in Nat \ {0}
  /\ MaxRetry \in Nat \ {0} /\ Cells \in Nat
  /\ \A c \in Calls :
       /\ c.size \in Nat /\ c.batch \in Nat /\ c.workers \in Nat \ {0}
       /\ c.mode \in {"fast", "slow", "challenge"} /\ c.norm \in BOOLEAN

VARIABLES
  call,      \* the arguments
  small,     \* small[p][r]: try r for polynomial p is within the norm
  b,         \* the batch whose flow runs
  waiting,   \* tasks of the flow no worker has taken
  running,   \* tasks a worker has taken
  next,      \* for each task the index of its next iteration
  output,
  outcome    \* "running", "SUCCESS", "INVALID_ARGUMENT", "divided by zero"

vars == <<call, small, b, waiting, running, next, output, outcome>>

Empty == <<>>
Ceil(x, y) == (x + y - 1) \div y
AtLeastOne(x) == IF x > 1 THEN x ELSE 1
Lesser(x, y) == IF x < y THEN x ELSE y

size_per_task == Ceil(call.size, NofTasks)
hashes_per_batch == AtLeastOne(Ceil(call.size, ElementsPerHash))

\* The threads of the executor.
nof_workers(c) ==
  CASE c.mode = "fast" -> c.workers
    [] c.mode = "slow" -> Lesser(AtLeastOne(Ceil(c.size, ElementsPerHash)), c.workers)
    [] c.mode = "challenge" -> Lesser(c.workers, c.size)
hashes_per_worker == Ceil(hashes_per_batch, nof_workers(call))

\* Mutant: as many tasks as the constant says, whatever is left for them.
tasks_fixed(c) ==
  CASE c.mode = "fast" -> 0 .. NofTasks - 1
    [] c.mode = "slow" -> 0 .. nof_workers(c) - 1
    [] c.mode = "challenge" -> 0 .. c.size - 1

\* The tasks emplaced for one batch.
tasks(c) ==
  CASE c.mode = "fast" -> 0 .. Lesser(Ceil(c.size, Ceil(c.size, NofTasks)), NofTasks) - 1
    [] c.mode = "slow" -> 0 .. nof_workers(c) - 1
    [] c.mode = "challenge" -> 0 .. c.size - 1

Batches(c) == IF c.mode = "challenge" THEN 1 ELSE c.batch

\* Both divisions have no guard: by size_per_task, and by nof_workers.
DividesByZero(c) == c.size = 0 /\ c.mode \in {"fast", "challenge"}
TooMany(c) == c.mode = "challenge" /\ c.ones + c.twos > D

Init ==
  /\ call \in Calls
  /\ small \in IF call.mode = "challenge" /\ call.norm
               THEN [0 .. call.size - 1 -> [0 .. MaxRetry -> BOOLEAN]] ELSE {<<>>}
  /\ b = 0 /\ running = {} /\ output = [x \in 0 .. Cells - 1 |-> Empty]
  /\ outcome = IF TooMany(call) THEN "INVALID_ARGUMENT"
               ELSE IF DividesByZero(call) THEN "divided by zero" ELSE "running"
  /\ waiting = IF outcome = "running" /\ b < Batches(call) THEN tasks(call) ELSE {}
  /\ next = [t \in waiting |-> 0]
-----------------------------------------------------------------------------
\* The conditions of the loops.  The first element of a chain is written before
\* its loop, and a polynomial is tried once at least.
Continues(t) ==
  LET i == next[t] IN
  CASE call.mode = "fast" ->
         i > 0 => i < size_per_task /\ t * size_per_task + i < call.size
    [] call.mode = "slow" ->
         i < hashes_per_worker /\ t * hashes_per_worker + i < hashes_per_batch
    [] call.mode = "challenge" -> i > 0 => call.norm /\ ~small[t][i - 1]

\* What an iteration writes: the places of the batch and their elements.
Written(t) ==
  LET i == next[t]
      counter == t * hashes_per_worker + i
  IN  CASE call.mode = "fast" -> [e \in {t * size_per_task + i} |-> <<b, t, i>>]
        [] call.mode = "slow" ->
             [e \in {counter * ElementsPerHash + k : k \in 0 .. ElementsPerHash - 1}
                      \cap 0 .. call.size - 1
                |-> <<b, counter, e % ElementsPerHash>>]
        [] call.mode = "challenge" -> [e \in {t} |-> <<t, i>>]

\* batch_output = output + b * size.
Stored(w) ==
  [x \in 0 .. Cells - 1 |->
     IF x - b * call.size \in DOMAIN w THEN w[x - b * call.size] ELSE output[x]]

\* ICICLE_ASSERT(retry_idx <= 0xFFFFFF), after retry_idx++, throws.
GivesUp(t) == call.mode = "challenge" /\ call.norm /\ next[t] + 1 > MaxRetry

Start(t) ==
  /\ t \in waiting /\ Cardinality(running) < nof_workers(call)
  /\ waiting' = waiting \ {t} /\ running' = running \cup {t}
  /\ UNCHANGED <<call, small, b, next, output, outcome>>

Iterate(t) ==
  /\ t \in running /\ Continues(t) /\ ~GivesUp(t)
  /\ output' = Stored(Written(t))
  /\ next' = [next EXCEPT ![t] = @ + 1]
  /\ UNCHANGED <<call, small, b, waiting, running, outcome>>

\* The flow keeps the exception to itself: it runs no task it has not started,
\* wait() does not rethrow, and nobody calls get().
Throw(t) ==
  /\ t \in running /\ Continues(t) /\ GivesUp(t)
  /\ output' = Stored(Written(t))
  /\ running' = running \ {t} /\ waiting' = {}
  /\ next' = [next EXCEPT ![t] = @ + 1]
  /\ UNCHANGED <<call, small, b, outcome>>

Leave(t) ==
  /\ t \in running /\ ~Continues(t)
  /\ running' = running \ {t}
  /\ UNCHANGED <<call, small, b, waiting, next, output, outcome>>

\* executor.run(taskflow).wait(), then the next batch.
NextBatch ==
  /\ outcome = "running" /\ waiting = {} /\ running = {} /\ b + 1 < Batches(call)
  /\ b' = b + 1 /\ waiting' = tasks(call) /\ next' = [t \in tasks(call) |-> 0]
  /\ UNCHANGED <<call, small, running, output, outcome>>

Return ==
  /\ outcome = "running" /\ waiting = {} /\ running = {} /\ b + 1 >= Batches(call)
  /\ outcome' = "SUCCESS"
  /\ UNCHANGED <<call, small, b, waiting, running, next, output>>

Work(t) == Start(t) \/ Iterate(t) \/ Throw(t) \/ Leave(t)

Next == (\E t \in waiting \cup running : Work(t)) \/ NextBatch \/ Return

Spec == Init /\ [][Next]_vars
-----------------------------------------------------------------------------
\* Try r is the last of polynomial p: the first that is small, or the one whose
\* assertion fails.
LastTry(p) ==
  LET stops == {r \in 0 .. MaxRetry : small[p][r] \/ r = MaxRetry}
  IN  CHOOSE r \in stops : \A o \in stops : r <= o

\* A task of the flow gave up on its polynomial.
GaveUp == call.mode = "challenge" /\ call.norm
            /\ \E p \in DOMAIN next : next[p] > MaxRetry

\* What a call is meant to sample: no worker occurs in it.
Sample(c) ==
  [x \in 0 .. Cells - 1 |->
     LET e == x % c.size
         chain == Ceil(c.size, NofTasks)
     IN  IF x >= c.size * Batches(c) THEN Empty
         ELSE CASE c.mode = "fast" -> <<x \div c.size, e \div chain, e % chain>>
                [] c.mode = "slow" ->
                     <<x \div c.size, e \div ElementsPerHash, e % ElementsPerHash>>
                [] c.mode = "challenge" -> <<e, IF c.norm THEN LastTry(e) ELSE 0>>]

\* Prover and verifier sample the same: when a call has succeeded, every element
\* is a function of the arguments alone, whatever the number of workers and the
\* order of their tasks, a challenge the first whose norm is small, and nothing is
\* written outside the output.  A call one of whose tasks gave up is excepted: it
\* succeeds with whatever its tasks had stored.
SamplesAlike ==
  outcome = "SUCCESS" /\ ~GaveUp =>
    output = Sample(call)

\* Without a norm to meet, each challenge of the space is as likely as every
\* other, and nothing else is drawn: what merge_shuffle promises ("described in
\* the paper"), with a random sign for each coefficient but no shuffle of the
\* blocks it starts from.
ChallengesUniform ==
  outcome = "SUCCESS" /\ call.mode = "challenge" /\ ~call.norm =>
    IsUniform(call.ones, call.twos)
=============================================================================
