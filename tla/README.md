# A verification of icicle-labrador

This directory specifies the LaBRADOR proof system of this repository in TLA+, checks the
specifications with TLC on small instances, and proves the theorems that carry the most weight
with TLAPS for every value of the constants. It covers the protocol (`src/src/`) and the parts of
the ICICLE fork (`src/icicle/`) whose correctness the protocol rests on.

    tlc -workers 2 -config MC_Labrador.cfg MC_Labrador     # a run; they are listed below
    tlapm LabradorProofs.tla                               # a proof module

## 1. The system

LaBRADOR proves knowledge of `r` short vectors of `n` polynomials of `Rq = Zq[X]/(X^d + 1)` that
satisfy a list of quadratic *equality constraints* (over the ring) and *constant-zero constraints*
(only the constant coefficient has to vanish). A *base round* commits to the witness, projects it
with a random matrix (Johnson-Lindenstrauss, "JL"), aggregates all constraints into one, and
answers a challenge with one combined vector `z`. The answer and the commitments are a witness
again, of a smaller instance: the *fold*. `LabradorProver::prove` does `NUM_REC` rounds, folding
after all but the last, and returns the four messages of every round and the base proof of the
last. `LabradorVerifier::verify` replays the same rounds from the messages alone. Both are made
non-interactive by an `Oracle`: every message is hashed into a running state, and the digest is
the seed of the next challenges.

The protocol is one thread. The CPU backend below it is not: norm checks, decompositions, transforms,
sampling and ring operations cut a vector into tasks, run by taskflow or by the pool of
`tasks_manager.h`. All data of the protocol is kept in `DeviceVector`s, whose memory comes from the
device runtime.

| Component | Where | State it keeps | Operations | Model |
|---|---|---|---|---|
| Protocol control | `src/prover.cpp`, `verifier.cpp`, `oracle.cpp` | the oracle of each object, transcripts, the round | `prove`, `verify`, `create_transcript`, `part_verify`, `_verify_base_proof`, `Oracle::generate` | `Labrador`, `ProofSystem` |
| One base round | `src/prover.cpp`, `verifier.cpp`, `types.h`, `utils.cpp` | witness, instance, messages, base proof | `base_case_prover`, both aggregations, both verifications | `PolyRing`, `Instance`, `BaseProof`, `BaseRound` |
| Recursion | `src/shared.cpp`, `prover.cpp` | next witness and next instance | `prepare_recursion_witness`, `prepare_recursion_instance`, `RecursionPreparer`, `calc_base0` | `Layout`, `Recursion` |
| JL selection | `src/prover.cpp`, `verifier.cpp` | the counter, the seed | `select_valid_jl_proj`, the regeneration of the rows | `JLSelection` |
| Balanced decomposition | `cpu_balanced_decomposition.cpp` | remainders, digit-major output | `decompose`, `recompose`, `compute_nof_digits` | `Digits`, `Decomposition` |
| Norm checks | `cpu_norm.cpp` | per-task sums, an atomic maximum, a flag | `check_norm_bound`, `check_norm_relative` | `Norms`, `NormCheck` |
| Task pool | `tasks_manager.h`, `cpu_vec_ops.cpp` | the status of every task slot, search positions, `m_kill` | `get_idle_or_completed_task`, `get_completed_task`, `wait_done`, `worker_loop`, the destructor | `TasksManager` |
| Negacyclic NTT, JL rows | `ntt.cpp`, `cpu_jl_projection.cpp` | none | transform and inverse, `get_jl_matrix_rows`, `jl_projection` | `PolyRing`, `RingProduct` |
| NTT of the CPU backend | `ntt_cpu.h`, `ntt_task.h`, `ntt_data.h`, `cpu_ntt_domain.h` | the domain, the array being transformed | `run`, one chunk of sub-NTTs, reordering, coset factors | `CpuNtt`, `RingProduct` |
| Test instances | `src/test_helpers.cpp`, `example.cpp` | none | builders, `lab_witness_legit` | operators of `Instance`, `BaseRound` |
| DeviceVector | `src/device_vector.h` | an owned buffer, size, capacity | copy, assign, grow, slice | `DeviceVector`, `VectorValues` |
| Device runtime | `icicle/src/runtime.cpp`, `device_api.cpp`, `memory_tracker.h` | registry, active device per thread, allocations | register, set device, allocate, free, copy | `DeviceRuntime` |
| Random sampling | `cpu_random_sampling.cpp`, `random_sampling.cpp` | none | sampling, rejection of large challenges | `RandomSampling`, `MergeShuffle` |
| Merkle tree | `cpu_merkle_tree.cpp` | layers, segment buffers, padded leaves | `build`, `get_merkle_proof`, `verify` | `MerkleTree` |
| Matrix kernels, hash functions, FRI, sumcheck, polynomials, programs, PQC, curves, fields | the rest of `icicle/` | | | not modelled, see section 9 |

How they interact. `prove` calls `base_case_prover` on a *copy* of its oracle and copies it back
only when the round is folded; `verify` does the same around `create_transcript` and
`part_verify`. Between rounds both sides call `prepare_recursion_instance`; only the prover has a
witness to prepare. Nothing but the messages and the last base proof passes from one side to the
other, so the two must compute identical challenges and identical instances on their own.
Everything is errors-as-exceptions: a failed ICICLE call becomes a C++ exception through
`ICICLE_CHECK`, swallowed in exactly one place (section 8).

### What is hard here, and what makes each part correct

* **Two sides in lockstep.** One message absorbed in another order, or one oracle not copied back,
  and all later challenges differ; an honest run of the drivers shows that, but not what holds after
  a `prove` that threw half-way, after repeated calls, or for altered proofs. Correct means: seeds
  agree *exactly* as far as the messages do, only genuine proofs are accepted, genuine ones are.
* **Checks spread over rounds.** An intermediate base proof is never sent. That its equations held
  is only visible in the constraints of the next round, so folding must be faithful in both
  directions: no equation dropped, none distorted by packing, decomposition or padding.
* **Index arithmetic.** Packed symmetric matrices, digit-major digits, five regions copied unchecked
  into one buffer, ceilings of ceilings.
* **Numeric edges.** Balanced digits at the ends of the range, the byte a counter is cut to, 32-bit
  products, norm checks that are errors from `sqrt(q)` on.
* **Threads.** The relaxed maximum of the norm check; task slots whose plain fields are handed over
  by one atomic status; termination of pollers.
* **Memory of devices.** Allocator and tracker have a lock each, so freeing is two steps others can
  come between; a vector may be used while another device is active; any allocation may fail in the
  middle of a call. Correct means: a vector always owns one live block that is its own.
* **Work cut into pieces.** The sub-NTTs of a layer work on one array at the same time and nothing is
  moved between layers; sampling is split by the number of workers, yet two machines must draw the
  same; a Merkle segment is hashed as soon as its inputs are *counted* as ready, in whatever order
  the workers finish. The result may depend on none of this.

`PROJECT.json` lists each hazard at its line with the properties that cover it.

## 2. The modules

    Digits <- Norms <- PolyRing <- Instance <- BaseProof <- BaseRound
      ^         ^         ^                        ^
      |         |         |                        +--- Recursion -> Layout
      |         |         +-- RingProduct
      |         +-- NormCheck
      +-- Decomposition       (CpuNtt between PolyRing and RingProduct)

    JLSelection   TasksManager   MerkleTree   Labrador -> ProofSystem
    RandomSampling -> MergeShuffle            DeviceVector -> DeviceRuntime, VectorValues

An arrow points to the module that is extended (`->`: extended or instantiated by its left side).
Each `MC_*` module extends one module and gives its constants values for TLC. The theorems are in
modules of their own, which extend what they are about:

| Proofs | About |
|---|---|
| `LabradorProofs` | `Labrador`, and that it implements `ProofSystem` |
| `RoundProofs` | `BaseRound` and `Recursion` |
| `DigitsProofs` | `Digits`, and the induction; `RoundProofs` and `VectorOpsProofs` extend it |
| `VectorOpsProofs` | `NormCheck` and `Decomposition` |
| `SamplingProofs` | `RandomSampling` and `JLSelection` |
| `TasksManagerProofs`, `MerkleTreeProofs` | `TasksManager`, `MerkleTree` |
| `DeviceVectorProofs` | `DeviceVector`, and that it implements `VectorValues` |

Where one of them is about two components, the second has names of its own for its specification:
`FoldSpec` in `Recursion`, `DecompSpec` in `Decomposition`, `JLSpec` in `JLSelection`. Inside a module,
an operator whose comment begins with *Mutant* is a deliberately wrong variant of the definition
that follows it; no specification uses it.

**Labrador.** The Fiat-Shamir control. `p_oracle` is the oracle of the `LabradorProver` object and
`p_base` the copy of the base prover at work; `v_oracle` and `v_base` are the same on the other
side. `CallProve` is the entry of `prove`; `SendU1`, `SendJL`, `SendBAgg`, `SendU2` are the four
places of `base_case_prover` where a message is sent and the oracle called; `Fold`, `FoldThrows` and
`ReturnProof` are what can follow a round. `Construct` is the verifier's constructor on whatever was
delivered; `CreateTranscript` absorbs one message; `PartVerifyFails`, `PartVerifyPasses` and
`VerifyBaseProof` are the checks with all their early returns. The data is abstract: a digest is
the seed and the sequence of absorbed messages (the hash taken as injective), a message says what
the honest value depends on, what the norm check says of it, and whether it was altered. An
equation containing challenges holds iff the challenges are the ones it was answered for: that a
wrong challenge satisfies it by luck has negligible probability and is left out here; `BaseRound`
keeps that luck and says exactly what it is.

**ProofSystem.** The promise: a proof arrives genuinely or not, and is accepted only in the first
case. `Labrador` implements it under the mapping `System`.

**PolyRing, Instance, BaseProof, BaseRound.** The ring, its transform (Tq), matrices and
commitments; constraints and their aggregation; the base proof and the equations
`_verify_base_proof` checks; and one round as a state machine of eleven actions, named for the
steps of `base_case_prover`. Real arithmetic over a small ring. Challenges and projection matrices
are drawn once and shared by both sides: that each side derives the same ones is the subject of
`Labrador`. The prover runs the code also on a witness that does not satisfy the instance
(`Slacks`), may claim a projection that is not the witness's (`ClaimProjection`), and one entry of
the proof may be altered on its way (`Alter`).

**Layout, Recursion.** `RecursionPreparer` and both preparations. One action per step of the code:
the witness, then Steps 8 to 13, each adding its constraints.

**JLSelection.** The loop around the projection, with the width of the byte the counter is cut to,
and the verifier's reading of the counter.

**Digits, Decomposition.** One digit of the balanced decomposition, exactly as the C++ remainder,
shift and carry compute it on signed machine integers; the tasks of both directions in any order.

**Norms, NormCheck.** The norms as functions (used by the protocol modules in one step) and the
multithreaded functions that compute them, load by load and exchange by exchange.

**TasksManager.** The pool under its two clients, one load of a status per step.

**CpuNtt, RingProduct.** A product the way the protocol takes it, through the coset transform and
back, computed the way the CPU backend does. `CpuNtt` has the domain, the coset factors, the
butterflies and the index arithmetic of a hierarchy of up to three layers; `RingProduct` runs them.
`Start` is the entry of `run`, `Refuse` its error for a domain that is too small; `ExecuteAlone` is
a batch below the threshold of parallel execution; otherwise chunks `Load` and `Store` one sub-NTT
after the other, all on the same array, then `NextLayer`, or `ReorderOutput` and `Finish`.
`Multiply` is the product slot by slot between the transforms.

**DeviceRuntime, DeviceVector.** The runtime's steps (allocate, track, free, untrack, switch the
device, copy) and the calls of a vector as sequences of them; steps of other threads come between.
A step that returns an error throws and drops the rest. Blocks are intervals of addresses, since the
tracker also identifies pointers into the middle of one. `seen` records the three things the code
does not provide for (section 8), so that the properties can say what holds until then.

**VectorValues.** The promise: a vector is a sequence, a call that returns has its effect, one that
throws has none (two calls promise less). `DeviceVector` implements it under the mapping `Values`.

**MerkleTree.** `Build` is the entry of `build` with its padding; `UseIdle` and `UseCompleted` are the
two halves of the caller's loop over the pool; `Execute` is a worker's hash of a segment. The
proofs and their verification are operators over the built tree.

**MergeShuffle, RandomSampling.** The split of a sampling call into the tasks of a flow (`Start`,
`Iterate`, `Throw`, `Leave` of each), the batches one after the other, and the shuffle that draws a
challenge, counted over all bit sources.

Modules fit together by replacement: `BaseRound` uses `norm_L2` and `decompose` as functions, and
`NormCheck` (`L2IsTheNorm`) and `Decomposition` (`RoundTripExactly`) check that the threaded code
computes those functions; `BaseRound` uses `Ntt` of `PolyRing`, and `RingProduct`
(`ProductIsNegacyclic`) checks that the backend's transform computes it; `Labrador` takes it that
both sides expand a seed alike, and `RandomSampling` (`SamplesAlike`) says when they do; `Recursion`
uses the same `Equations` as `BaseRound`; `Labrador` takes the equations as facts about seeds, and
`BaseRound` and `Recursion` justify them.

## 3. The runs

Numbers are distinct states. Protocols end, so every run but one stops by itself and its
configuration switches the deadlock check off; termination is stated as liveness where it is in
question. `MC_DeviceVector.cfg` keeps the check: the only states without a next step are those in
which the program has ended, and these stutter.

| Run | States | Shows |
|---|---|---|
| `protocol` | 97,469 | two rounds, up to two `prove` and two `verify` calls, every alteration: lockstep, soundness, completeness, where an alteration is refused, that calls return, and the refinement of `ProofSystem` |
| `base_round` | 19,693 | one round with arithmetic: honest proofs accepted, cheating only where the challenges annihilate the defect, every altered entry refused |
| `recursion` | 2,848 | the fold is faithful and complete, throws exactly when two digits do not suffice, stays within its layout |
| `jl_selection` | 416 | first passing projection is sent, both sides use the same byte, the loop ends iff one byte passes |
| `decomposition` | 23,175 | digits, remainders and round trips for all residues |
| `norm_check` | 14,360 | all interleavings of three tasks |
| `tasks_manager` | 27,102 | no chunk lost or doubled, operands stable, the call returns |
| `ring_product` | 12,532 | the backend's transform at degree 64, in one task or layer by layer with concurrent chunks, and with a domain of any size, multiplies modulo `X^d + 1`; conjugated rows give the projection |
| `device_vector` | 815,919 | two threads, two devices, every allocation free to fail: each vector owns its block, nothing leaks, calls take effect or do nothing, and the refinement of `VectorValues` |
| `merkle_tree` | 19,545 | every order of the workers: the right root except in two cases that are named, tasks within live buffers, proofs verify exactly when unaltered, the build returns |
| `random_sampling` | 109,747 | the same elements for any number and order of workers; every challenge equally likely |
| `tasks_manager_wait` | | a disagreement with a comment, section 7 |

### Bounds, and why they are enough

* **protocol** `NUM_REC = 2, MaxProve = 2, MaxVerify = 2`. Two rounds have a first, a folded and a
  last round; two calls show what a call leaves behind for the next, including a thrown one; one
  fault of the delivery and, beside it, one alteration of the messages (one message altered in its
  constant term or elsewhere, the last round lost, neighbouring rounds exchanged). `MaxProve` and
  `MaxVerify` are the only bounds in guards. The proofs cover any number of all three.
* **base_round** `Z_17[X]/(X^2+1)`, three vectors of two elements, two constraints of each kind and a
  second shape with none of the constant-zero kind (every round but the first is like that), two
  aggregation rounds, two projection rows. `R = 3` is the least that has an off-diagonal entry in
  packed order after a diagonal one; `N = 2` separates rows from columns. The challenges include
  choices that annihilate the defect and choices that do not, so both sides of every equivalence
  occur. The second aggregation is a single step because `alpha` is one vector.
* **recursion** `R = N = 2`, `Kappa = 2`, three different bases, `mu` in {2, 3} and `nu` in {1, 2}:
  layouts with full rows, partial last rows, and `n` not divisible by `nu`. Inputs are right rounds
  and the same with each part of the proof, of the commitments and of the constraint altered once.
  The bounds of `z` give one `base0` large enough and one too small.
* **decomposition** all residues of a prime of five bits, bases 1 (refused) to 8, one to five digits,
  three elements in tasks of two.
* **norm_check** five elements, three tasks, the last one partial, and one more element than the
  relative check takes. **tasks_manager** one chunk more than there are slots, so slots are used
  again; two workers, so the search and the destructor go on from one to the next.
* **jl_selection** four byte values and a counter that wraps after eight: both wraps are passed.
  The theorems cover every width.
* **ring_product** the protocol's degree, 64, over `Z_257` (`psi = 9`). The domain roots 3, 9, 81 and
  136 have orders 256, 128, 64 and 32: a domain larger than the ring's, the ring's own, one without
  the generator of the coset, and one that is too small and refused. `<<3,3,0>>` is the table's row for
  64, `<<2,2,2>>` has three layers as the rows from 11 on. Two chunks are what the code takes with one
  hardware thread. The thresholds 6 and 7 (16 in the code) put a batch on either side. One dense row,
  with and without conjugation, and one dense vector: all statements are bilinear, and the layers'
  data flow does not depend on the data.
* **device_vector** two threads; the first owns two vectors, makes every call with lengths up to two
  and may switch devices, the second constructs, which takes the addresses the first frees. Three
  blocks of at most two elements: the fourth allocation fails, and so may any other. `CONSTRAINT
  EntriesNotKept` ends a behaviour where an address is handed out before it was untracked, since
  every property is about what happens until then. `FirstOfItsKind` hands out the first of the free
  blocks that nothing distinguishes, and `VIEW Seen` forgets what leaked blocks hold, which no step
  reads; devices are symmetric.
* **merkle_tree** `K = 2` hashes to a task (16 in the code) and three slots. Hashes of one to four
  inputs, two to four layers, the layers stored from the first, second or third on; 1 to 9, 11 and
  12 leaves, all paddings. With these, last segments of one hash, of two, and of the `K + 1` that the
  code merges occur in every layer, full and padded; `K = 3` was tried as well.
* **random_sampling** one to three workers, three chains of fast mode (256 in the code), two elements
  to a hash, sizes 0 to 5, 7 and 9, one and two batches: chains, hashes and workers with less than
  their share or nothing. Challenges of degree four with two retries (`0xFFFFFF` in the code), and
  shapes that use none to all coefficients. `Cells = 12` leaves room behind the output to be overrun.

### The properties

The comment in front of each property says what it means and why. The ones to know:

* `SeedsAgreeExactly`: the verifier's j-th seed is the prover's *if and only if* both objects were in
  the same oracle state when called and all messages up to j are unaltered.
* `AcceptsOnlyGenuine`, `GenuineIsAccepted`: together, `verify` accepts exactly the genuine proofs
  with small norms, over any history of calls and failed calls.
* `AlterationRefusedInRound`: in which round an altered message is refused; `u2`, and `b_agg` outside
  its constant term, are noticed one round late.
* `FoldExact`: a constraint of the folded instance holds of the folded witness
  exactly when its equation of `_verify_base_proof` holds, and every equation has its constraint.
* `AcceptsOnlyAnnihilatedDefects`, `ConstTermCheckExact`: what exactly the aggregations let through.
* `HonestDigitsPassNormCheck`, `RoundTripExactly`: what the digit bounds of the verifier and the
  exception of `prepare_recursion_witness` mean for the digits.
* `L2IsTheNorm`, `RelativeIsExact`, `SmallIsNeverRefused`: the threaded norm checks.
* `EveryChunkSomewhere`, `ExecutesWhatWasSent`, `Returns`: the pool.
* `ProductIsNegacyclic`: whatever the chunks' order, the layers and the domain, the product is the
  ring's. A sub-NTT that read what another of its layer had already written would show here.
* `BuffersOwned`, `NoLeak`, `EndsWell`, `ImplementsVectorValues`: vectors over failing allocations,
  switched devices and other threads.
* `RootRight`, `MisbuiltIsWrong`: the root is the tree's *if and only if* the build is not one of two
  kinds (`Misbuilt`, section 8). `InputsStay`, `TasksInside`: no input changes under a worker.
* `SamplesAlike`, `ChallengesUniform`: what two machines draw from one seed.

### Fairness

* `Labrador` (`FairSpec`): a call that has been made runs to its end: weak fairness of the prover's
  steps and of the verifier's, and of neither entry. The program is one thread without waiting, and
  the only unbounded loop in it is `select_valid_jl_proj`, for which `CallsReturn` assumes that it
  returns; `JLSelection` says exactly when that is so (weak fairness of its only thread).
* `TasksManager` (`FairSpec`): weak fairness of the calling thread and of each worker. These are
  `std::thread`s that poll without blocking each other out, and the operating system schedules each
  runnable thread eventually.
* `MerkleTree` (`FairSpec`): weak fairness of the calling thread and of the worker of each slot,
  which poll like those of the pool.
* `JLSelection` as said above. Nothing else has a liveness property or assumes fairness.

## 4. The proofs

Each result holds for all values of the constants that satisfy the named assumptions: at least one
round (`RecAssumption`; the constructor accepts 0, for which the loops of both sides underflow),
call bounds that are natural numbers, faults of their type (`FaultAssumption`), at least one worker
and slot (`PoolAssumption`), a counter whose range is a multiple of the byte's (`WidthAssumption`),
sizes of at least one (`SizeAssumption`), an odd modulus (`QAssumption`; every modulus of the
repository is an odd prime or a product of two), a ring with a root of unity (`DegAssumption`,
`PsiAssumption`), vectors, tasks and inputs of their types (`NormAssumption`, `DecompAssumption`,
`FoldAssumption`, `RuntimeAssumption`, `VectorAssumption`), trees of at least one layer with at least
one input to a hash and two hashes to a task (`MerkleAssumption`; the code has 16), and at least one
task, worker, element to a hash and retry (`SamplingAssumption`). TLC evaluates all of them.

**LabradorProofs.** The invariant is `TypeOK /\ Lockstep /\ SeedsAgreeExactly`. `SeedsAgreeExactly`
is not inductive by itself: it speaks of the final seeds of two sides and says nothing of the
oracle from which the next seed is drawn. `Lockstep` is what is missing: on each side every
seed is the oracle's answer to its message in the state of the seed before, *across* rounds, and the
current base oracle is the last seed. Then injectivity of `generate` (`GenerateInjective`) turns
equality of two seeds into equality of the two messages and of the two seeds before, which is the
induction step (`NextSeedsAgree`). From this:
`TypeCorrect`, `ChallengesAgree`, `Soundness` (`AcceptsOnlyGenuine`), `Completeness`
(`GenuineIsAccepted`, with the further invariant `Untouched`: what the prover keeps is not marked
altered, so unaltered messages also have the right constant terms), and `Refinement`
(`ImplementsProofSystem`: a `Construct` is a `Deliver`, a step that ends a call of `verify` is a
`Judge`, every other step stutters). Two more invariants carry the action properties:
`OracleMovesOnByRounds` needs `WholeRounds` (the running base oracle is the object's with one
entry for each message sent in this round), and `RefusedInTime` (`AlterationRefusedInRound`) needs
`ConstTermsPassed` (of the rounds behind the verifier, all constant terms were right).

**RoundProofs.** `AggregatedAlike`: for every instance, witness, projection and choice of challenges,
the constraint the verifier checks the proof against is the one the prover built it for. Each side
computes it on its own, the prover from its witness and the verifier from `b_agg`, and between the two
the proof is sent and perhaps altered. `InStep` says what each side has aggregated at every step, in
terms of what they share (`Added`, `Combined`): the constant-zero constraints with the `b` of the
messages (`AddedByProver`), behind the instance's own and in their order.

For all sizes and all `mu`, `nu` at least 1, no copy leaves the
`r_prime x n_prime` array and no two pieces share a row (`CopiesInBounds`, `PiecesApart`); hence for
every fold (`FoldLaidOut`). The argument is arithmetic: `n_prime * ceil(len / n_prime) >= len`, and
the rows of a region lie between its first row and the next region's. `ThrowsExactly`: for every
modulus, ring degree and base, `prepare_recursion_witness` throws exactly when a coefficient of `z`
is outside what two balanced digits represent, neither earlier nor later. It rests on `DigitsProofs`
and on the recomposition being taken coefficient by coefficient (`CoefficientThrough`).

**DigitsProofs, VectorOpsProofs.** What the digits of an element are worth. A *trace* is the
sequence of digits and remainders of the loop; by induction on its length
`x = d_0 + d_1 b + ... + d_{n-1} b^{n-1} + r_n b^n` modulo `Q` (`TraceSplits`), each digit is at most half
the base (`DigitSmall`), and the remainder shrinks to -1, 0 or 1 (`RestBalanced`, `LeftoverLight`).
A remainder that is left over cannot vanish modulo an *odd* `Q` (`LeftoverVisible`), so recomposing
gives the element back if *and only if* no remainder is left, and `compute_nof_digits` leaves none
(`EnoughDigits`). `PassesLoseNothing` carries this to a vector whose digits are extracted in passes
by tasks in any order: the invariant says for each element of each task that its digits so far
and its remainder are a trace. `DigitsPass` and `RoundTrip` follow.

The norm checks: for any vectors, number of workers and interleaving: `SmallAccepted`,
`RelativeExact`, `L2Exact`. The invariant relates each task's sum or maximum to its chunk of the
vector, and the shared maximum to those of the tasks that have published theirs. A task may leave
without having written only because the shared maximum was already as large. That `check_norm_bound`
lacks the converse (section 7) is visible in the proof: `MaximaKept` bounds the maximum from above
for both functions and from below for the relative one alone.

**SamplingProofs.** `SampledAlike` (`SamplesAlike`): a call that returns successfully, and none of whose
tasks gave up, has filled exactly its output, with elements that depend on the arguments alone. The
invariant (`IndInv`) says what memory holds at every moment, place by place: each place of a batch
belongs to one task (`Owner`) and is written at one of its iterations (`Turn`), so it holds its element
if the task is past it and is empty if not (`Filled`); the batches before are complete; a task that
is neither waiting nor running is through (`Flow`), unless one gave up; and a challenge tried again was
too large before (`TriedLarge`). That the shares of the workers, rounded up twice, cover the
elements and do not overlap is arithmetic of quotients, for all sizes and numbers of workers. The
selection of a projection: all bytes below the counter were found large or, once the counter has
passed a whole byte's range, all were (`SelectionInv`). `FirstIsSent` (`FirstThatPasses`) follows.

**TasksManagerProofs.** The invariant adds `Ownership` to the types: a slot that is being executed is
ready, the slot the caller holds is not. `NoRaceOnOperands` is the property that makes the plain
fields of a task safe. `NoChunkLost` (`EveryChunkSomewhere`) needs `Placement`: a chunk beyond the ones
sent is in no slot and not in the output, one that was sent is in exactly one slot or once in the
output.

**DeviceVectorProofs.** `OwnsItsBlock`, `EndsAsItShould`, `NothingLeaks` and the refinement
`ImplementsSequences`, for any number of threads, vectors, devices and blocks. `BuffersOwned` speaks of the moments between calls; to be inductive it
needs to know of every moment *who holds each block*. There are three kinds of holders: a vector that
has not released its block (`Owned`), a call that has allocated one and not yet given it away
(`new_data`), and a call whose block the backend has back but the tracker has not (`Untracking`).
`Held` says that what is held is live, tracked and of the right size; `Apart` that no block has two
holders, except that an address still to be untracked may already be someone's new block; `NothingElse`
that there are no other blocks and entries. The program counter is the sequence of steps a call has
left, so `Rest` says which sequences are rests of which call, and `HoldsNew`, `Released` and `Room` read
off them what the call holds, has given back and has room for. Everything else about other threads is
that they do not touch these (`Elsewhere`), so each action has one lemma about its own thread. The
invariant ends where an address is handed out again before it is untracked, as the properties do.
TLC checked `IndInv` on the instance of the run before it was proved.

That `DeviceVector` implements `VectorValues` (`ImplementsVectorValues`) needs in addition what the
blocks contain. `Stored` says that the memory of a block is as large as the block; `Remembers` where
the value a vector had before its call is still to be found: in its own block, until a growing vector
has copied its elements (`Moved`), in the new block from then on, and in none for the two calls that
release their block first. `FullInv` is `IndInv` with these. A step before the last of a call then
changes no value (`MallocGoes` and the lemmas behind it), since the owner of a vector sees the
remembered one; the last step makes of it what `Effect` says or, when it throws, what `Throw` allows
(`Ends`). What the single calls write is the arithmetic of sequences: `Appending`, `Setting`,
`Replacement`, `Shortening`. A vector that was `Lost` may hold anything, but even then a call touches
no other vector's value (`ValuesElsewhere`).

**MerkleTreeProofs.** For every tree, number of leaves and slots, and every order of the workers: a task
stays within buffers that are still there (`InsideAlways`), its inputs do not change (`InputsAlways`),
and the root is the tree's outside the cases of `Misbuilt` (`RootAlways`). Why there is a buffer when a task comes to use it is a question of *counting*: a
segment is sent when as many of its inputs are counted as ready as it has, and outputs and padding
are counted at different moments, by different tasks. So the invariant (`IndInv`) speaks of the set
`done` of the segments whose completed task has been used, which is no variable of the model and is
said to exist. `Progress` relates the rest to it: a segment in a slot is in no other and not done;
the count of a segment is the *number* of its places that are outputs of a done segment or padding of
one that was sent (`Accounts`); a segment is sent when all segments below it are done (`Ordered`), and
those of layer 0 in order (`Leaves`). `Jobs` says of each task which buffers its fields mean. The step
that needs the counting is the one that sends a segment: a set of places within another of the same
number is that set, so every place of its inputs is counted, and since the outputs of a segment below
are counted only when that segment is done, all of them are. For a place to have one writer only, the
cuts must fit: last segments of two to `K + 1` hashes, the parent of a segment beyond the last whole
one, the padding up to what the layer above reads. `InputsAlways` follows since whoever writes into
what a task reads is a segment below it, and done; except that two segments of one parent may write the
same places (`InputsWrapAround` below), which is before the parent is sent. So far the argument is
by the layers' sizes alone and does not depend on what is hashed.

`RootAlways` (`RootRight`) adds what is in the buffers (`Right`): a task that waits has the inputs the
full tree has there (`Given`), and the outputs of a completed one are the nodes of the full tree, for
as long as the segment that reads them is in the map (`Placed`). A task turns the one into the other
when it is executed, and completed segments below into the one when it is sent; that what it reads
is complete, and still there, is what `IndInv` says. Three things are particular to this tree. Only one
hash of padding is computed in a layer and then copied, which is right because all nodes
over padding alone are equal (`PaddingAlike`). The leaves behind the last whole segment are copied to
`padded_leaves`, where the right ones are unless the tail is misplaced (`TailPlaced`). And the offset of a
task's output in its buffer is taken modulo the inputs of `K` hashes, and does not wrap around unless
that is the other case (`NoWrap`). Only these two lemmas use `~Misbuilt`: its two conditions are what
the proof needs, and `MisbuiltIsWrong` shows that it needs no less.

Two devices recur. Sums, powers, digits and products are recursive functions, `CHOOSE`n by their
equations; for each there is one lemma that a function with these equations exists and one that two
of them agree, and from then on only the equations are used. And since the induction theorems of the
library take a predicate as a parameter, induction is over a *set* of numbers: `Induction` of
`DigitsProofs`, from the least element of the set that is left out.

Only model-checked:

* Liveness (`CallsReturn`, `Returns`, `EndsExactlyIfOnePasses`, `BuildReturns`), which the prover does not
  treat.
* `Completeness`, `ConstTermCheckExact`, `AcceptsOnlyAnnihilatedDefects` and `FoldExact`: identities of
  sums of products over the ring, all of them recursive functions of recursive functions.
  `ProductIsNegacyclic` and `ConjugateGivesProjection`: a transform of 64 elements in place, and a
  statement about roots of unity. `ChallengesUniform` counts the outcomes over all bit sources.
* `AlteredProofNotAccepted` depends on the matrices of the run, which must be injective: commitments are
  binding by a hardness assumption and not for every matrix.
* `MisbuiltIsWrong` and `ProofsVerifyExactly`: that one wrong hash below makes a wrong one above, layer by
  layer, and that the paths of a proof, which are recursive over the layers, lead to the root.

The type invariants and the other parts of inductive invariants carry proofs and are part of no run's
configuration.

## 5. Mutants

Every property of every passing run has at least one mutant in `PROJECT.json`: a wrong variant of a
mapped definition, of the kind a slip in the code would produce, under which TLC finds the property
violated in the same run.

## 6. Abstractions to keep in mind

* SHA3 is injective; distinct oracle states expand to distinct challenges; a wrong challenge does not
  satisfy an equation by luck (`Labrador` only).
* The knowledge soundness of the protocol, the slack of the norm proofs and the choice of parameters
  are cryptography. What is checked is that the code computes and compares what its steps say.
* `compute_mu_nu` and `secure_msis_rank` choose parameters with floating point; the models take any.
  `norm_L2` takes an integer bound, as the code does after its cast.
* The `CONSISTENCY_CHECKS` branches are compiled out and left out. Errors of device calls other than
  the norm checks (out of memory and the like) are left out.
* 128-bit sums of squares cannot overflow, since entries are below `sqrt(q)`, and are unbounded.
* An altered message keeps its norm in `Labrador`, and the digit checks of `_verify_base_proof` are part of
  its equations: an altered `p` or digit is refused there by the seed or the equations, where
  the code may already refuse it for its norm, or report an error of the check of `z` instead.
* The coset factors (`coset_mul` of `CpuNtt`) are multiplied in one step; the code cuts them into
  disjoint chunks.
* A sub-tree that `get_merkle_proof` builds again, because its layers were not stored, is taken as the
  tree's own; that a build is right is what `RootRight` says of the first one.
* `m_kill` of a worker is a plain `bool` written by one thread and read by another. The model lets
  the write become visible at any later time, as the builds of this code do.

## 7. Where the code and its own words disagree

The last of these is a run that ends in a violation of a property restating a comment. The others are
described only: the models have the behaviour, or instances in which it does not matter.

1. `verifier.cpp:97`: `h_tilde` is held against `base2` and `g_tilde` against `base3`; the prover
   decomposes `g` in `base2` and `h` in `base3`, as `types.h:105` and `:107` have it. With different bases
   an honest proof can be refused by checks that line 92 says find out what is "correctly
   decomposed": with bases 5 and 8 a digit 4 of `h` does not pass. The parameters in the repository
   have equal bases, and so has the instance of `base_round`; no run has different ones.
2. `shared.cpp:432`: `Zq::from(base0 * base0)` multiplies in 32 bits; from `base0 = 65536` on the
   entry is not the square its comment (line 436) says. `Recursion` has bases below that.
3. `cpu_norm.cpp:140`: `check_norm_bound` with `LInfinity` tries its weak exchange once. A task that
   loses it loses its maximum, and a vector over the bound can pass, without any spurious failure,
   although line 112 says that the maximum is checked. It errs on that side only, which is
   `SmallIsNeverRefused`. `check_norm_relative` loops and is exact.
4. `tasks_manager.h:297`: the loop over `m_tasks` in `wait_done` looks at
   `m_tasks[m_next_task_idx]` each time, so it returns when one slot is done; a slot dispatched
   earlier may never be executed once the destructor has set `m_kill` (`tasks_manager_wait`,
   `NoTaskLeftBehind`).

## 8. Further observations

Seen while modelling; the models contain the behaviour.

* `prover.cpp:24`: `select_valid_jl_proj` starts `JL_check` as true and swallows the exception of a
  failed check, so a projection with an entry of `sqrt(q)` or more is selected, although `prover.h:67`
  says the norm condition is satisfied. The verifier then throws (`SendJL`, `Passes`, `FirstThatPasses`).
* `verifier.cpp:499`: `verify` leaves the object's oracle advanced by the folded rounds. A second
  `verify` of the same proof therefore rejects, as `SeedsAgreeExactly` implies, and a prover's second
  proof is accepted by a verifier with the same history only (`SameUpTo`, `GenuineIsAccepted`).
* `shared.cpp:74`: `calc_base0` truncates the root, so `base0^2` need not exceed the bound
  `shared.h:95` puts below it; what two digits represent is `ThrowsExactlyWhenTooLarge`, about half
  of `base0^2` to either side.
* `shared.cpp:63`: the oracle is seeded with the numbers of constraints, not with their contents (a
  TODO in the code). The model has a verifier whose statement differs in contents only.
* `runtime.cpp:83`: `icicle_free` frees a block and *then* removes it from the tracker. In between
  another thread may be given the same address; its entry is ignored as a double one and erased
  afterwards, so that its vector can no longer be freed and its destructor throws, against
  `device_vector.h:72` ("Frees all allocated device memory"). `"entry kept"` of `DeviceVector`; the
  reason for the run's constraint. Two threads that construct and destroy one vector each are enough.
* `runtime.cpp:68`: "switch device, release and switch back": `cur_device` is a reference to the
  thread's device, so the second switch stays where the first went, and the error of the inner free
  is overwritten (lines 90 to 92).
* `device_vector.h:252`: when `grow` may not copy, because the vector's block is on another device than
  the active one, the new block stays allocated and belongs to nobody. The model has it; `NoLeak` is
  about vectors that are used on their own device.
* `device_vector.h:396`: assignment and the host copies free before they allocate; when the allocation
  fails, the vector keeps its size and capacity without a block (`"lost"`, `Unspecified`).
* `device_vector.h`: `copy_from_host` of nothing leaves the vector as it was (line 158 promises a resize
  to `count`); the size constructor and `resize` zero elements that lines 50 and 117 call
  uninitialized; `slice` throws where line 205 says that bounds are clamped.
* `cpu_merkle_tree.cpp:434`: when layer 0 has one hash more than a multiple of 16 and its last hash
  is only partly filled, the padded leaves begin at the wrong leaf: for hashes of nine leaves and
  81 of them, from 721 to 728 leaves. Line 517: the outputs of a segment that has `K + 1` hashes to
  feed wrap around in the buffer of the next layer's segment, when that layer is not stored. Both
  give another root than the "straight-forward single-threaded" build of `test_hash_api.cpp:572`,
  and no others do: `MisbuiltIsWrong`, `RootRight`.
* `random_sampling.h:41` says that challenges with a larger norm are rejected. After `0xFFFFFF` tries
  `cpu_random_sampling.cpp:299` throws inside a task of the flow, which `wait()` does not rethrow: the
  call returns SUCCESS with a large polynomial, and its other polynomials unsampled (`GaveUp`).
  `shared.cpp:30` ignores the return code in any case.
* `cpu_random_sampling.cpp:20` and `:246` divide by zero when nothing is to be sampled; the protocol
  never asks for nothing (`DividesByZero`). Line 68 rounds `hashes_per_element` down where line 17
  rounds up, which matters only for elements of more than 64 bytes.
* `cpu_ntt_domain.h:110` publishes `twiddles` before the tables of the kernels for 8, 16 and 32 are
  built, and line 69 reads it without the lock, so another thread may start its first transform
  between the two, although the comment on line 99 says that nobody returns before the twiddles
  are there. `RingProduct` starts from a complete domain. A later call with another root is ignored
  (line 69); a smaller domain than the ring's makes every transform an error (`Refuse`).
* `prover.cpp:15`: the seed of a projection has one byte for the counter. If all 256 are refused the
  loop does not end (`EndsExactlyIfOnePasses`).

## 9. Not modelled, and why

*Matrix kernels*: data-independent loops over fixed sizes; the models use what they compute. *The
kernels for 16 and 32 elements, columns of a batch, and the second hierarchy* of the NTT (from `2^26`
elements on): unrolled arithmetic, and sizes the ring never has. *Hash functions*: used as injective
functions. *Streams, asynchronous copies, the loading of backends and the registration of their
functions*: the protocol is synchronous and everything is registered before `main`. *Of the Merkle
tree*: the range check of `leaf_idx` (line 157 compares bytes and only logs), leaves that are not a
whole number of elements, no leaves at all. *FRI, sumcheck, polynomials, programs, PQC, MSM, curves,
fields*: never called by the protocol; the fields are integer residues in the models. *Build files,
scripts and tests*: no behaviour. `get_idle_task` and `wait_completed` of the pool are modelled only as
far as `MerkleTree` uses the former; the `Task pool` row is therefore partial.

Most lines of the repository are none of the program's: some 50,000 of its 88,000 are tables of
Poseidon constants, and much of the rest is parameters and bindings of curves the protocol does not
use. The modules cover what the protocol executes.

## 10. Plan

Written in this order, the most important behaviour first: `Labrador` with `ProofSystem`, `BaseRound`
over `Instance` and `PolyRing`, `Recursion` over `Layout`, `JLSelection`, `Decomposition`,
`NormCheck`, `TasksManager`; then `DeviceVector` over `DeviceRuntime` with `VectorValues`, `MerkleTree`,
`RandomSampling` over `MergeShuffle`, and `RingProduct` over `CpuNtt`. The proofs came in the same order,
and those of `DeviceVector` last. To come:

1. Proofs: of `ProofsVerifyExactly`, for which `Placed` says what the stored layers hold.
2. The kernels for 16 and 32 elements in `CpuNtt`; the other clients of the pool, with `get_idle_task`
   and `wait_completed`; the initialisation of the NTT domain by several threads.
