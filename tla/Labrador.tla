------------------------------ MODULE Labrador ------------------------------
(***************************************************************************)
(* The Fiat-Shamir control of the whole protocol: LabradorProver::prove(), *)
(* which runs NUM_REC base rounds and folds each into the next, and        *)
(* LabradorVerifier::verify(), which replays the oracle round by round.    *)
(* Both objects keep an Oracle that outlives a call; each round works on a *)
(* copy of it, copied back only when the round has been folded.            *)
(*                                                                         *)
(* Arithmetic is abstracted.  A digest of the oracle is the seed followed  *)
(* by the sequence of messages absorbed: SHA3 is taken to be injective.    *)
(* A message names what the honest value depends on and whether it was     *)
(* altered on the way.  An equation that involves challenges holds when    *)
(* the verifier's challenges are the ones the prover answered, otherwise   *)
(* not (modules BaseRound and Recursion check the equations themselves).   *)
(***************************************************************************)
EXTENDS Integers, Sequences

CONSTANTS
  NUM_REC,     \* rounds of the protocol
  MaxProve,    \* bound: calls of prove() on one LabradorProver
  MaxVerify,   \* bound: calls of verify() on one LabradorVerifier
  Faults       \* what, besides the messages, may be off with a delivered proof

\* NUM_REC = 0 makes NUM_REC - 1 wrap in the loops of prove() and verify().
ASSUME RecAssumption == NUM_REC \in Nat \ {0}
ASSUME BoundAssumption == MaxProve \in Nat /\ MaxVerify \in Nat

-----------------------------------------------------------------------------
Kinds == {"u1", "jl", "b_agg", "u2"}

\* One entry of BaseProverMessages.  start and round say which oracle state and
\* which witness it was computed from; norm is what check_norm_bound says of p.
\* alt: untouched, or altered, in b_agg in its constant term or elsewhere.
Message == [kind : Kinds, start : Nat, round : Nat,
            norm : {"small", "error"}, alt : {"no", "const", "other"}]

\* create_oracle_seed: the parameters and the two constraint counts, no contents.
Statements == {"same", "other_contents", "other_params"}
SeedOf(st) == IF st = "other_params" THEN "seed2" ELSE "seed1"

\* The verifier's instance against the prover's, the norm of z, and whether the
\* final proof was altered.
Fault == [statement : Statements, z_norm : {"small", "large", "error"},
          alt : {"no", "other"}]
ASSUME FaultAssumption == Faults \subseteq Fault

Digest == [seed : {"seed1", "seed2"}, log : Seq(Message)]
create_oracle_seed(st) == [seed |-> SeedOf(st), log |-> <<>>]

\* Mutant: the state so far is not hashed.
generate_forgets(state, m) == [state EXCEPT !.log = <<m>>]

\* Oracle::generate: hash state || message, keep the digest and return it.
generate(state, m) == [state EXCEPT !.log = Append(@, m)]

\* Message j, counted from 1, is message (j - 1) % 4 of round (j - 1) \div 4.
RoundLen == 4
ProofLen == RoundLen * NUM_REC

VARIABLES
  \* LabradorProver
  p_pc,        \* "idle" or the next step of base_case_prover, "prepare" after it
  p_oracle,    \* oracle of the LabradorProver
  p_base,      \* oracle of the current LabradorBaseProver
  p_first,     \* p_oracle when prove() was called
  p_round,     \* i
  trs_msgs,    \* prover messages of the transcripts so far
  trs_seeds,   \* seed1 .. seed4 of each transcript so far
  calls,       \* calls of prove()
  proof,       \* what the last successful prove() returned
  \* LabradorVerifier
  v_pc,        \* "none", "refused", "idle", "transcript", "part" or "final"
  v_oracle, v_base, v_first, v_round,
  statement,   \* the verifier's instance against the prover's
  prover_msgs, \* messages it was constructed with
  final_proof, \* [of, z_norm, alt]: the proof delivered, and what became of it
  v_seeds,     \* seeds of the verifier's transcripts
  verdicts     \* what each verify() returned: "accept", "reject" or "throw"

p_vars == <<p_pc, p_oracle, p_base, p_first, p_round, trs_msgs, trs_seeds, calls, proof>>
v_vars == <<v_pc, v_oracle, v_base, v_first, v_round, statement, prover_msgs,
            final_proof, v_seeds, verdicts>>
vars == <<p_vars, v_vars>>

NoProof == [first |-> create_oracle_seed("same"), msgs |-> <<>>, seeds |-> <<>>]

Init ==
  /\ p_pc = "idle" /\ p_oracle = create_oracle_seed("same")
  /\ p_base = p_oracle /\ p_first = p_oracle /\ p_round = 0
  /\ trs_msgs = <<>> /\ trs_seeds = <<>> /\ calls = 0 /\ proof = NoProof
  /\ v_pc = "none" /\ statement = "same"
  /\ v_oracle = create_oracle_seed("same") /\ v_base = v_oracle /\ v_first = v_oracle
  /\ v_round = 0 /\ prover_msgs = <<>> /\ v_seeds = <<>> /\ verdicts = <<>>
  /\ final_proof = [of |-> NoProof, z_norm |-> "small", alt |-> "no"]

-----------------------------------------------------------------------------
\* Both roles run in one thread: no call starts while another is running.
Verifying == v_pc \in {"transcript", "part", "final"}

\* prove(): the instance and the witness are copied, the oracle is not.
CallProve ==
  /\ p_pc = "idle" /\ ~Verifying /\ calls < MaxProve
  /\ p_pc' = "u1" /\ calls' = calls + 1
  /\ p_first' = p_oracle /\ p_base' = p_oracle /\ p_round' = 0
  /\ trs_msgs' = <<>> /\ trs_seeds' = <<>>
  /\ UNCHANGED <<p_oracle, proof, v_vars>>

\* Mutant: the base prover shares the oracle instead of copying it.
SendShared(kind, next, norm) ==
  LET m == [kind |-> kind, round |-> p_round, norm |-> norm, alt |-> "no",
            start |-> IF kind = "u1" /\ p_round = 0 THEN 0 ELSE Len(p_first.log)]
  IN  /\ p_pc = kind /\ p_pc' = next
      /\ p_base' = generate(p_base, m) /\ p_oracle' = p_base'
      /\ trs_msgs' = Append(trs_msgs, m)
      /\ trs_seeds' = Append(trs_seeds, p_base')
      /\ UNCHANGED <<p_first, p_round, calls, proof, v_vars>>

\* A step of base_case_prover that ends with a call of the oracle.
Send(kind, next, norm) ==
  LET m == [kind |-> kind, round |-> p_round, norm |-> norm, alt |-> "no",
            \* u1 of round 0 depends on the witness alone
            start |-> IF kind = "u1" /\ p_round = 0 THEN 0 ELSE Len(p_first.log)]
  IN  /\ p_pc = kind /\ p_pc' = next
      /\ p_base' = generate(p_base, m)
      /\ trs_msgs' = Append(trs_msgs, m)
      /\ trs_seeds' = Append(trs_seeds, p_base')
      /\ UNCHANGED <<p_oracle, p_first, p_round, calls, proof, v_vars>>

SendU1   == Send("u1", "jl", "small")
\* select_valid_jl_proj lets a projection pass whose norm check is an error.
SendJL   == \E norm \in {"small", "error"} : Send("jl", "b_agg", norm)
SendBAgg == Send("b_agg", "u2", "small")
SendU2   == Send("u2", "prepare", "small")

\* Between two rounds: prepare_recursion_witness and prepare_recursion_instance,
\* then the round's oracle is copied back and the next base prover starts on it.
Fold ==
  /\ p_pc = "prepare" /\ p_round < NUM_REC - 1
  /\ p_pc' = "u1" /\ p_round' = p_round + 1
  /\ p_oracle' = p_base
  /\ UNCHANGED <<p_base, p_first, trs_msgs, trs_seeds, calls, proof, v_vars>>

\* Parameter Choice Error: two digits in base0 do not represent z.
FoldThrows ==
  /\ p_pc = "prepare" /\ p_round < NUM_REC - 1
  /\ p_pc' = "idle"
  /\ UNCHANGED <<p_oracle, p_base, p_first, p_round, trs_msgs, trs_seeds, calls,
                 proof, v_vars>>

\* Mutant: the loop waits for a round that never comes.
ReturnProofLate ==
  /\ p_pc = "prepare" /\ p_round = NUM_REC
  /\ p_pc' = "idle"
  /\ proof' = [first |-> p_first, msgs |-> trs_msgs, seeds |-> trs_seeds]
  /\ UNCHANGED <<p_oracle, p_base, p_first, p_round, trs_msgs, trs_seeds, calls, v_vars>>

\* The last round is not folded: the oracle of its base prover is dropped.
ReturnProof ==
  /\ p_pc = "prepare" /\ p_round = NUM_REC - 1
  /\ p_pc' = "idle"
  /\ proof' = [first |-> p_first, msgs |-> trs_msgs, seeds |-> trs_seeds]
  /\ UNCHANGED <<p_oracle, p_base, p_first, p_round, trs_msgs, trs_seeds, calls, v_vars>>

-----------------------------------------------------------------------------
\* What may reach the verifier: the messages as they are, with one altered, with
\* the last round lost, or with two neighbouring rounds exchanged.
Altered(msgs, j, how) == [msgs EXCEPT ![j].alt = how]
Exchanged(msgs, i) ==
  [j \in DOMAIN msgs |->
     IF (j - 1) \div RoundLen = i THEN msgs[j + RoundLen]
     ELSE IF (j - 1) \div RoundLen = i + 1 THEN msgs[j - RoundLen] ELSE msgs[j]]
Transmitted(msgs) ==
  {msgs, SubSeq(msgs, 1, Len(msgs) - RoundLen)}
    \cup {Altered(msgs, j, how) : j \in DOMAIN msgs, how \in {"const", "other"}}
    \cup {Exchanged(msgs, i) : i \in 0 .. NUM_REC - 2}

\* The constructor of LabradorVerifier: the number of rounds must be NUM_REC.
Construct(msgs, fault) ==
  /\ v_pc = "none" /\ p_pc = "idle" /\ proof # NoProof
  /\ v_pc' = IF Len(msgs) = ProofLen THEN "idle" ELSE "refused"
  /\ statement' = fault.statement /\ prover_msgs' = msgs
  /\ final_proof' = [of |-> proof, z_norm |-> fault.z_norm, alt |-> fault.alt]
  /\ v_oracle' = create_oracle_seed(statement')
  /\ v_base' = v_oracle' /\ v_first' = v_oracle'
  /\ UNCHANGED <<v_round, v_seeds, verdicts, p_vars>>

CallVerify ==
  /\ v_pc = "idle" /\ p_pc = "idle" /\ Len(verdicts) < MaxVerify
  /\ v_pc' = "transcript"
  /\ v_first' = v_oracle /\ v_base' = v_oracle /\ v_round' = 0 /\ v_seeds' = <<>>
  /\ UNCHANGED <<v_oracle, statement, prover_msgs, final_proof, verdicts, p_vars>>

\* Mutant: every message is hashed into the state the round started with.
CreateTranscriptStale ==
  LET j == Len(v_seeds) + 1
  IN  /\ v_pc = "transcript"
      /\ v_base' = generate(v_oracle, prover_msgs[j])
      /\ v_seeds' = Append(v_seeds, v_base')
      /\ v_pc' = IF j = RoundLen * (v_round + 1) THEN "part" ELSE "transcript"
      /\ UNCHANGED <<v_oracle, v_first, v_round, statement, prover_msgs, final_proof,
                     verdicts, p_vars>>

\* create_transcript, one call of the oracle at a time; it is over with u2.
CreateTranscript ==
  LET j == Len(v_seeds) + 1
  IN  /\ v_pc = "transcript"
      /\ v_base' = generate(v_base, prover_msgs[j])
      /\ v_seeds' = Append(v_seeds, v_base')
      /\ v_pc' = IF j = RoundLen * (v_round + 1) THEN "part" ELSE "transcript"
      /\ UNCHANGED <<v_oracle, v_first, v_round, statement, prover_msgs, final_proof,
                     verdicts, p_vars>>

Return(verdict) ==
  /\ v_pc' = "idle"
  /\ verdicts' = Append(verdicts, verdict)
  /\ UNCHANGED <<v_oracle, v_base, v_first, v_round, statement, prover_msgs,
                 final_proof, v_seeds, p_vars>>

\* The j-th message of the current round.
Now(j) == RoundLen * v_round + j

\* Mutant: the constant terms are not compared.
ConstTermsUnread(luck) == v_seeds[Now(2)] = final_proof.of.seeds[Now(2)]

\* The constant terms of b_agg answer the psi and omega that seed2 expands to.
\* With other constraint contents they may or may not, in the only round that
\* has constant-zero constraints.
ConstTermsRight(luck) ==
  /\ v_seeds[Now(2)] = final_proof.of.seeds[Now(2)]
  /\ prover_msgs[Now(3)].alt # "const"
  /\ statement = "other_contents" /\ v_round = 0 => luck

\* part_verify: an error of the norm check is thrown, then p and b_agg.
PartVerifyFails(luck) ==
  /\ v_pc = "part"
  /\ \/ prover_msgs[Now(2)].norm = "error" /\ Return("throw")
     \/ /\ prover_msgs[Now(2)].norm = "small" /\ ~ConstTermsRight(luck)
        /\ Return("reject")

PartVerifyPasses(luck) ==
  /\ v_pc = "part"
  /\ prover_msgs[Now(2)].norm = "small" /\ ConstTermsRight(luck)
  /\ IF v_round < NUM_REC - 1
       THEN /\ v_pc' = "transcript" /\ v_round' = v_round + 1
            /\ v_oracle' = v_base
       ELSE v_pc' = "final" /\ UNCHANGED <<v_round, v_oracle>>
  /\ UNCHANGED <<v_base, v_first, statement, prover_msgs, final_proof, v_seeds,
                 verdicts, p_vars>>

\* Mutant: the equations are checked for the prover's constraints, not one's own.
EquationsHoldForTheirs == v_seeds = final_proof.of.seeds /\ final_proof.alt = "no"

\* The equations of _verify_base_proof fit when every challenge, from the first
\* round on, is the one the prover answered, for the same constraints.
EquationsHold ==
  /\ v_seeds = final_proof.of.seeds
  /\ statement = "same"
  /\ final_proof.alt = "no"

\* Mutant: an error of the norm check is swallowed here as it is in the prover.
VerifyBaseProofSwallows ==
  /\ v_pc = "final"
  /\ \/ final_proof.z_norm = "large" /\ Return("reject")
     \/ final_proof.z_norm # "large" /\ ~EquationsHold /\ Return("reject")
     \/ final_proof.z_norm # "large" /\ EquationsHold /\ Return("accept")

\* _verify_base_proof, of the last round only.
VerifyBaseProof ==
  /\ v_pc = "final"
  /\ \/ final_proof.z_norm = "error" /\ Return("throw")
     \/ final_proof.z_norm = "large" /\ Return("reject")
     \/ final_proof.z_norm = "small" /\ ~EquationsHold /\ Return("reject")
     \/ final_proof.z_norm = "small" /\ EquationsHold /\ Return("accept")

ProverNext == CallProve \/ SendU1 \/ SendJL \/ SendBAgg \/ SendU2
                \/ Fold \/ FoldThrows \/ ReturnProof
VerifierNext ==
  \/ \E msgs \in Transmitted(proof.msgs), fault \in Faults : Construct(msgs, fault)
  \/ CallVerify \/ CreateTranscript
  \/ \E luck \in BOOLEAN : PartVerifyFails(luck) \/ PartVerifyPasses(luck)
  \/ VerifyBaseProof

Next == ProverNext \/ VerifierNext

\* A call that has started runs to its end; calls need not be made.
Fairness ==
  /\ WF_vars(SendU1 \/ SendJL \/ SendBAgg \/ SendU2 \/ Fold \/ FoldThrows \/ ReturnProof)
  /\ WF_vars(CreateTranscript \/ VerifyBaseProof
               \/ \E luck \in BOOLEAN : PartVerifyFails(luck) \/ PartVerifyPasses(luck))

Spec == Init /\ [][Next]_vars
FairSpec == Spec /\ Fairness
-----------------------------------------------------------------------------
ProofType == [first : Digest, msgs : Seq(Message), seeds : Seq(Digest)]

\* Every variable has its type, and a call is never further along than its
\* rounds: transcripts hold four messages and four seeds per finished round.
TypeOK ==
  /\ p_pc \in Kinds \cup {"idle", "prepare"}
  /\ p_oracle \in Digest /\ p_base \in Digest /\ p_first \in Digest
  /\ p_round \in 0 .. NUM_REC - 1 /\ calls \in 0 .. MaxProve
  /\ trs_msgs \in Seq(Message) /\ trs_seeds \in Seq(Digest)
  /\ proof \in ProofType
  /\ v_pc \in {"none", "refused", "idle", "transcript", "part", "final"}
  /\ v_oracle \in Digest /\ v_base \in Digest /\ v_first \in Digest
  /\ v_round \in 0 .. NUM_REC - 1
  /\ statement \in Statements /\ prover_msgs \in Seq(Message)
  /\ final_proof \in [of : ProofType, z_norm : {"small", "large", "error"},
                      alt : {"no", "other"}]
  /\ v_seeds \in Seq(Digest)
  /\ verdicts \in Seq({"accept", "reject", "throw"})

\* The first j messages the verifier holds are those the proof was made with,
\* and both sides started from the same oracle state.
SameUpTo(j) ==
  /\ v_first = final_proof.of.first
  /\ \A k \in 1 .. j : prover_msgs[k] = final_proof.of.msgs[k]

\* Oracle: with the same seed and the same messages both sides obtain identical
\* challenges; and with anything else they differ from there on.  The challenge
\* the verifier derives at any point of any round is the prover's if and only if
\* nothing before it, in this round or an earlier one, was altered.
SeedsAgreeExactly ==
  \A j \in 1 .. Len(v_seeds) :
    v_seeds[j] = final_proof.of.seeds[j] <=> SameUpTo(j)

\* The norms of p of the first rounds.
PNormsSmall(rounds) ==
  \A i \in 0 .. rounds - 1 : prover_msgs[RoundLen * i + 2].norm = "small"

\* A transcript whose seeds are the oracle's answers to its messages.
OracleAfter(first, seeds, j) == IF j = 0 THEN first ELSE seeds[j]
Chained(first, msgs, seeds) ==
  \A j \in 1 .. Len(seeds) : seeds[j] = generate(OracleAfter(first, seeds, j - 1), msgs[j])

\* How far base_case_prover is in its round, in messages.
Sent == CASE p_pc = "jl" -> 1 [] p_pc = "b_agg" -> 2 [] p_pc = "u2" -> 3
          [] p_pc = "prepare" -> 4 [] OTHER -> 0

\* Why the seeds agree: on both sides every seed is the oracle's answer to its
\* message in the state the previous seed left, across the rounds, since the
\* oracle a round starts with is the one the round before it ended with.
ProverLockstep ==
  /\ Chained(p_first, trs_msgs, trs_seeds) /\ Len(trs_msgs) = Len(trs_seeds)
  /\ p_pc # "idle" =>
       /\ Len(trs_seeds) = RoundLen * p_round + Sent
       /\ p_base = OracleAfter(p_first, trs_seeds, Len(trs_seeds))

ProofChained(pf) ==
  /\ Chained(pf.first, pf.msgs, pf.seeds) /\ Len(pf.msgs) = Len(pf.seeds)
  /\ pf # NoProof => Len(pf.seeds) = ProofLen

VerifierLockstep ==
  /\ v_pc \in {"none", "refused"} => v_seeds = <<>>
  /\ v_pc \notin {"none", "refused"} =>
       Len(prover_msgs) = ProofLen /\ final_proof.of # NoProof
  /\ Len(v_seeds) <= ProofLen
  /\ Chained(v_first, prover_msgs, v_seeds)
  /\ Verifying => v_base = OracleAfter(v_first, v_seeds, Len(v_seeds))
  /\ v_pc = "transcript" => Len(v_seeds) \in RoundLen * v_round .. RoundLen * v_round + 3
  /\ v_pc \in {"part", "final"} => Len(v_seeds) = RoundLen * (v_round + 1)
  /\ v_pc = "final" => v_round = NUM_REC - 1
  /\ Verifying => PNormsSmall(IF v_pc = "final" THEN NUM_REC ELSE v_round)

Lockstep == /\ ProverLockstep /\ VerifierLockstep
            /\ ProofChained(proof) /\ ProofChained(final_proof.of)

\* What makes a delivery one that verify() ought to accept.
Genuine ==
  /\ statement = "same" /\ final_proof.alt = "no"
  /\ SameUpTo(ProofLen)
NormsSmall == final_proof.z_norm = "small" /\ PNormsSmall(NUM_REC)

\* The verdict as a verify() call ends, in the step that ends it.
Ends == Verifying /\ ~Verifying'
Verdict == verdicts'[Len(verdicts')]

\* No history of calls, failed calls and alterations makes verify() accept
\* anything but a genuine proof whose norms are small.
AcceptsOnlyGenuine == [][Ends /\ Verdict = "accept" => Genuine /\ NormsSmall]_vars

\* A genuine proof with small norms is accepted, whatever calls of prove(),
\* failed ones included, came before it, provided both calls start from the same oracle state.
GenuineIsAccepted == [][Ends /\ Genuine /\ NormsSmall => Verdict = "accept"]_vars

\* An altered u2 is never noticed by its own round's part_verify: it is the next
\* round, or the last round's equations, that refuse it; any other altered
\* message is refused by part_verify of its own round, but for the part of b_agg
\* that is not its constant term, which is refused one round later like u2.
RefusedRound(j) ==
  LET own  == (j - 1) \div RoundLen
      late == j % RoundLen = 0 \/ (j % RoundLen = 3 /\ prover_msgs[j].alt = "other")
  IN  IF late /\ own < NUM_REC - 1 THEN own + 1 ELSE own
AlterationRefusedInRound ==
  [][\A j \in 1 .. ProofLen :
       Ends /\ Verdict = "reject" /\ statement = "same" /\ NormsSmall
         /\ final_proof.alt = "no"
         /\ v_first = final_proof.of.first
         /\ prover_msgs = Altered(final_proof.of.msgs, j, prover_msgs[j].alt)
       => v_round = RefusedRound(j)]_vars

\* The oracle of a LabradorProver advances by whole rounds and is never taken
\* back, not even by a call that throws half-way.
OracleGrowsByRounds ==
  [][p_oracle' # p_oracle =>
       /\ Len(p_oracle'.log) = Len(p_oracle.log) + RoundLen
       /\ SubSeq(p_oracle'.log, 1, Len(p_oracle.log)) = p_oracle.log]_vars

\* Every prove() returns a proof or throws, every verify() returns a verdict, if
\* select_valid_jl_proj returns each time (module JLSelection says when it does).
CallsReturn ==
  /\ p_pc # "idle" ~> p_pc = "idle"
  /\ Verifying ~> v_pc = "idle"

\* The protocol implements the promise of ProofSystem.
System == INSTANCE ProofSystem WITH
  delivered <- IF v_pc \in {"none", "refused"} THEN "nothing"
               ELSE IF statement = "same" /\ final_proof.alt = "no"
                       /\ prover_msgs = final_proof.of.msgs THEN "genuine"
               ELSE "other",
  verdicts  <- verdicts
ImplementsProofSystem == System!Spec
=============================================================================
