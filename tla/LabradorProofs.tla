--------------------------- MODULE LabradorProofs ---------------------------
(***************************************************************************)
(* Proofs about Labrador for every NUM_REC and any number of calls: type   *)
(* correctness, the lockstep of the two oracles, and from it that the      *)
(* challenges agree exactly up to the first altered message and that only  *)
(* genuine proofs are accepted.                                            *)
(***************************************************************************)
EXTENDS Labrador, TLAPS

(* The oracle loses nothing: a digest determines the state and the message  *)
(* it was computed from (Oracle::generate hashes the whole of both).        *)
LEMMA GenerateInjective ==
  ASSUME NEW s \in Digest, NEW t \in Digest, NEW m \in Message, NEW n \in Message
  PROVE  /\ generate(s, m) \in Digest
         /\ generate(s, m) = generate(t, n) <=> s = t /\ m = n
<1>0. /\ s.log \in Seq(Message) /\ s.seed \in {"seed1", "seed2"}
      /\ t.log \in Seq(Message)
  BY DEF Digest
<1>1. generate(s, m) \in Digest
  <2>1. Append(s.log, m) \in Seq(Message)
    BY <1>0
  <2> QED BY <1>0, <2>1 DEF generate, Digest
<1>2. ASSUME generate(s, m) = generate(t, n) PROVE s = t /\ m = n
  <2>1. s.seed = t.seed /\ Append(s.log, m) = Append(t.log, n)
    BY <1>2 DEF generate, Digest
  <2>3. Len(s.log) = Len(t.log)
    BY <2>1, <1>0
  <2>4. \A k \in 1 .. Len(s.log) : s.log[k] = t.log[k]
    BY <2>1, <1>0, <2>3
  <2>5. m = n
    BY <2>1, <1>0, <2>3
  <2>6. s.log = t.log
    BY <1>0, <2>3, <2>4
  <2> QED BY <2>1, <2>5, <2>6 DEF Digest
<1> QED BY <1>1, <1>2

-----------------------------------------------------------------------------
(* Type correctness.                                                        *)
LEMMA InitTyped == Init => TypeOK
<1> SUFFICES ASSUME Init PROVE TypeOK
  OBVIOUS
<1>1. create_oracle_seed("same") \in Digest
  BY DEF create_oracle_seed, Digest, SeedOf
<1>2. NoProof \in ProofType
  BY <1>1 DEF NoProof, ProofType
<1> QED BY <1>1, <1>2, RecAssumption, BoundAssumption
        DEF Init, TypeOK, Kinds, Statements

(* What reaches the verifier is a sequence of messages.                     *)
LEMMA TransmittedTyped ==
  ASSUME NEW msgs \in Seq(Message), Len(msgs) = ProofLen,
         NEW got \in Transmitted(msgs)
  PROVE  got \in Seq(Message)
<1>1. CASE got = msgs
  BY <1>1
<1>2. CASE got = SubSeq(msgs, 1, Len(msgs) - RoundLen)
  BY <1>2, RecAssumption DEF ProofLen, RoundLen
<1>3. CASE \E j \in DOMAIN msgs, how \in {"const", "other"} : got = Altered(msgs, j, how)
  <2>1. PICK j \in DOMAIN msgs, how \in {"const", "other"} : got = Altered(msgs, j, how)
    BY <1>3
  <2>2. msgs[j] \in Message
    BY <2>1
  <2>3. [msgs[j] EXCEPT !.alt = how] \in Message
    BY <2>1, <2>2 DEF Message
  <2>4. got = [msgs EXCEPT ![j] = [msgs[j] EXCEPT !.alt = how]]
    BY <2>1 DEF Altered
  <2> QED BY <2>3, <2>4
<1>4. CASE \E i \in 0 .. NUM_REC - 2 : got = Exchanged(msgs, i)
  <2>1. PICK i \in 0 .. NUM_REC - 2 : got = Exchanged(msgs, i)
    BY <1>4
  <2>2. \A j \in 1 .. ProofLen : (j - 1) \div RoundLen = i => j + RoundLen \in 1 .. ProofLen
    BY <2>1, RecAssumption DEF ProofLen, RoundLen
  <2>3. \A j \in 1 .. ProofLen : (j - 1) \div RoundLen = i + 1 => j - RoundLen \in 1 .. ProofLen
    BY <2>1, RecAssumption DEF ProofLen, RoundLen
  <2>4. \A j \in 1 .. ProofLen : got[j] \in Message
    BY <2>1, <2>2, <2>3 DEF Exchanged
  <2>5. got = [j \in 1 .. ProofLen |-> got[j]]
    BY <2>1 DEF Exchanged
  <2> QED BY <2>4, <2>5, RecAssumption DEF ProofLen, RoundLen
<1> QED BY <1>1, <1>2, <1>3, <1>4 DEF Transmitted

(* Every action keeps the types.  Two need more than the types: Construct   *)
(* that the proof it delivers is complete, CreateTranscript that it does    *)
(* not read past the messages.                                              *)
LEMMA NextTyped ==
  ASSUME TypeOK, Lockstep, [Next]_vars PROVE TypeOK'
<1> USE RecAssumption, BoundAssumption DEF TypeOK
<1>1. CASE CallProve
  BY <1>1 DEF CallProve, v_vars, Kinds
<1>2. ASSUME NEW kind \in Kinds, NEW next \in Kinds \cup {"prepare"},
             NEW norm \in {"small", "error"}, Send(kind, next, norm)
      PROVE  TypeOK'
  <2> DEFINE m == [kind |-> kind, round |-> p_round, norm |-> norm, alt |-> "no",
                   start |-> IF kind = "u1" /\ p_round = 0 THEN 0 ELSE Len(p_first.log)]
  <2>1. Len(p_first.log) \in Nat
    BY DEF Digest
  <2>2. m \in Message
    BY <2>1 DEF Message
  <2>3. p_base' = generate(p_base, m) /\ trs_msgs' = Append(trs_msgs, m)
    BY <1>2 DEF Send
  <2>4. p_base' \in Digest
    BY <2>2, <2>3, GenerateInjective
  <2>5. trs_msgs' \in Seq(Message) /\ trs_seeds' \in Seq(Digest)
    BY <1>2, <2>2, <2>3, <2>4 DEF Send
  <2> HIDE DEF m
  <2> QED BY <1>2, <2>4, <2>5 DEF Send, v_vars
<1>3. CASE SendU1 \/ SendJL \/ SendBAgg \/ SendU2
  BY <1>2, <1>3 DEF SendU1, SendJL, SendBAgg, SendU2, Kinds
<1>4. CASE Fold
  BY <1>4 DEF Fold, v_vars, Kinds
<1>5. CASE FoldThrows
  BY <1>5 DEF FoldThrows, v_vars
<1>6. CASE ReturnProof
  BY <1>6 DEF ReturnProof, v_vars, ProofType
<1>7. ASSUME NEW msgs \in Transmitted(proof.msgs), NEW fault \in Faults,
             Construct(msgs, fault)
      PROVE  TypeOK'
  <2>1. msgs \in Seq(Message)
    BY <1>7, TransmittedTyped DEF Construct, Lockstep, ProofChained, ProofType
  <2>2. fault \in Fault
    BY FaultAssumption
  <2>3. create_oracle_seed(statement') \in Digest
    BY DEF create_oracle_seed, Digest, SeedOf
  <2> QED BY <1>7, <2>1, <2>2, <2>3 DEF Construct, p_vars, Fault
<1>8. CASE CallVerify
  BY <1>8 DEF CallVerify, p_vars
<1>9. CASE CreateTranscript
  <2> DEFINE j == Len(v_seeds) + 1
  <2>1. Len(v_seeds) < ProofLen /\ Len(prover_msgs) = ProofLen
    BY <1>9 DEF CreateTranscript, Lockstep, VerifierLockstep, ProofLen, RoundLen
  <2>2. prover_msgs[j] \in Message
    BY <2>1, RecAssumption DEF ProofLen, RoundLen
  <2>3. v_base' = generate(v_base, prover_msgs[j]) /\ v_seeds' = Append(v_seeds, v_base')
    BY <1>9 DEF CreateTranscript
  <2>4. v_base' \in Digest
    BY <2>2, <2>3, GenerateInjective
  <2>5. v_seeds' \in Seq(Digest)
    BY <2>3, <2>4
  <2> QED BY <1>9, <2>4, <2>5 DEF CreateTranscript, p_vars
<1>10. ASSUME NEW verdict \in {"accept", "reject", "throw"}, Return(verdict)
       PROVE  TypeOK'
  BY <1>10 DEF Return, p_vars
<1>11. ASSUME NEW luck \in BOOLEAN, PartVerifyFails(luck) PROVE TypeOK'
  BY <1>10, <1>11 DEF PartVerifyFails
<1>12. ASSUME NEW luck \in BOOLEAN, PartVerifyPasses(luck) PROVE TypeOK'
  BY <1>12 DEF PartVerifyPasses, p_vars
<1>13. CASE VerifyBaseProof
  BY <1>10, <1>13 DEF VerifyBaseProof
<1>14. CASE UNCHANGED vars
  BY <1>14 DEF vars, p_vars, v_vars
<1> QED BY <1>1, <1>3, <1>4, <1>5, <1>6, <1>7, <1>8, <1>9, <1>11, <1>12, <1>13, <1>14
        DEF Next, ProverNext, VerifierNext

-----------------------------------------------------------------------------
(* A transcript grows by the oracle's answer to its next message.           *)
LEMMA ChainGrows ==
  ASSUME NEW first, NEW msgs, NEW seeds \in Seq(Digest), NEW s \in Digest, NEW more,
         Chained(first, msgs, seeds),
         \A j \in 1 .. Len(seeds) : more[j] = msgs[j],
         s = generate(OracleAfter(first, seeds, Len(seeds)), more[Len(seeds) + 1])
  PROVE  Chained(first, more, Append(seeds, s))
<1> DEFINE grown == Append(seeds, s)
<1>1. /\ Len(grown) = Len(seeds) + 1 /\ grown[Len(seeds) + 1] = s
      /\ \A j \in 1 .. Len(seeds) : grown[j] = seeds[j]
  OBVIOUS
<1>2. \A j \in 0 .. Len(seeds) : OracleAfter(first, grown, j) = OracleAfter(first, seeds, j)
  BY <1>1 DEF OracleAfter
<1>3. ASSUME NEW j \in 1 .. Len(grown)
      PROVE  grown[j] = generate(OracleAfter(first, grown, j - 1), more[j])
  <2>1. CASE j = Len(seeds) + 1
    BY <1>1, <1>2, <2>1
  <2>2. CASE j \in 1 .. Len(seeds)
    <3>1. seeds[j] = generate(OracleAfter(first, seeds, j - 1), msgs[j])
      BY <2>2 DEF Chained
    <3>2. OracleAfter(first, grown, j - 1) = OracleAfter(first, seeds, j - 1)
      BY <1>2, <2>2
    <3> QED BY <1>1, <2>2, <3>1, <3>2
  <2> QED BY <1>1, <2>1, <2>2
<1> QED BY <1>3 DEF Chained

(* The objects start in lockstep.                                           *)
LEMMA InitLockstep == Init => Lockstep /\ SeedsAgreeExactly
BY RecAssumption DEF Init, Lockstep, ProverLockstep, VerifierLockstep, ProofChained,
   NoProof, Chained, SeedsAgreeExactly, Verifying, ProofLen, RoundLen

(* base_case_prover: the transcript of the call so far is chained.          *)
LEMMA NextProverLockstep ==
  ASSUME TypeOK, TypeOK', Lockstep, [Next]_vars PROVE ProverLockstep' /\ ProofChained(proof)'
<1> USE DEF Lockstep, ProverLockstep
<1>1. CASE CallProve
  BY <1>1 DEF CallProve, v_vars, Sent, Chained, OracleAfter, RoundLen, TypeOK
<1>2. ASSUME NEW kind \in Kinds, NEW next \in Kinds \cup {"prepare"},
             NEW norm \in {"small", "error"}, Send(kind, next, norm),
             <<kind, next>> \in {<<"u1", "jl">>, <<"jl", "b_agg">>,
                                <<"b_agg", "u2">>, <<"u2", "prepare">>}
      PROVE  ProverLockstep' /\ ProofChained(proof)'
  <2> DEFINE m == [kind |-> kind, round |-> p_round, norm |-> norm, alt |-> "no",
                   start |-> IF kind = "u1" /\ p_round = 0 THEN 0 ELSE Len(p_first.log)]
  <2>1. /\ p_base' = generate(p_base, m) /\ trs_msgs' = Append(trs_msgs, m)
        /\ trs_seeds' = Append(trs_seeds, p_base')
        /\ p_first' = p_first /\ p_round' = p_round /\ proof' = proof
        /\ p_pc = kind /\ p_pc' = next
    BY <1>2 DEF Send
  <2> HIDE DEF m
  <2>2. p_base = OracleAfter(p_first, trs_seeds, Len(trs_seeds))
    BY <2>1 DEF Kinds
  <2>3. /\ trs_seeds \in Seq(Digest) /\ p_base' \in Digest /\ trs_msgs \in Seq(Message)
    BY DEF TypeOK
  <2>4. /\ \A j \in 1 .. Len(trs_seeds) : trs_msgs'[j] = trs_msgs[j]
        /\ trs_msgs'[Len(trs_seeds) + 1] = m
    BY <2>1, <2>3
  <2>5. Chained(p_first, trs_msgs', trs_seeds')
    BY <2>1, <2>2, <2>3, <2>4, ChainGrows
  <2>6. /\ Len(trs_seeds') = Len(trs_seeds) + 1 /\ Len(trs_msgs') = Len(trs_msgs) + 1
        /\ trs_seeds'[Len(trs_seeds')] = p_base'
    BY <2>1, <2>3
  <2>7. p_base' = OracleAfter(p_first', trs_seeds', Len(trs_seeds'))
    BY <2>1, <2>3, <2>6 DEF OracleAfter
  <2>8. Len(trs_seeds') = RoundLen * p_round' + Sent'
    <3>1. Len(trs_seeds) = RoundLen * p_round + Sent
      BY <2>1 DEF Kinds
    <3>2. Sent' = Sent + 1 /\ Sent \in 0 .. 3
      BY <1>2, <2>1 DEF Sent
    <3> QED BY <2>1, <2>3, <2>6, <3>1, <3>2 DEF RoundLen, TypeOK
  <2> QED BY <2>1, <2>5, <2>6, <2>7, <2>8 DEF ProofChained
<1>3. CASE SendU1 \/ SendJL \/ SendBAgg \/ SendU2
  BY <1>2, <1>3 DEF SendU1, SendJL, SendBAgg, SendU2, Kinds
<1>4. CASE Fold
  <2>1. /\ p_pc = "prepare" /\ p_pc' = "u1" /\ p_round' = p_round + 1
        /\ UNCHANGED <<p_base, p_first, trs_msgs, trs_seeds, proof>>
    BY <1>4 DEF Fold
  <2>2. Sent = 4 /\ Sent' = 0
    BY <2>1 DEF Sent
  <2>3. Len(trs_seeds) = RoundLen * p_round + 4
    BY <2>1, <2>2
  <2>4. Len(trs_seeds') = RoundLen * p_round' + Sent'
    BY <2>1, <2>2, <2>3 DEF RoundLen, TypeOK
  <2>5. Chained(p_first, trs_msgs, trs_seeds)'
    BY <2>1
  <2>6. p_base' = OracleAfter(p_first', trs_seeds', Len(trs_seeds'))
    BY <2>1
  <2> QED BY <2>1, <2>4, <2>5, <2>6 DEF ProofChained
<1>5. CASE FoldThrows
  BY <1>5 DEF FoldThrows, ProofChained
<1>6. CASE ReturnProof
  <2>1. /\ p_pc = "prepare" /\ p_pc' = "idle" /\ p_round = NUM_REC - 1
        /\ proof' = [first |-> p_first, msgs |-> trs_msgs, seeds |-> trs_seeds]
        /\ UNCHANGED <<p_base, p_first, p_round, trs_msgs, trs_seeds>>
    BY <1>6 DEF ReturnProof
  <2>2. Sent = 4
    BY <2>1 DEF Sent
  <2>3. Len(trs_seeds) = ProofLen
    BY <2>1, <2>2, RecAssumption DEF RoundLen, ProofLen
  <2>4. ProofChained(proof)'
    BY <2>1, <2>3 DEF ProofChained
  <2> QED BY <2>1, <2>4
<1>7. CASE VerifierNext
  <2>1. UNCHANGED p_vars
    BY <1>7 DEF VerifierNext, Construct, CallVerify, CreateTranscript, PartVerifyFails,
                PartVerifyPasses, VerifyBaseProof, Return
  <2> QED BY <2>1 DEF p_vars, Sent, ProofChained
<1>8. CASE UNCHANGED vars
  BY <1>8 DEF vars, p_vars, Sent, ProofChained
<1> QED BY <1>1, <1>3, <1>4, <1>5, <1>6, <1>7, <1>8 DEF Next, ProverNext

(* A verdict ends the call and leaves the verifier's oracles as they are.   *)
LEMMA ReturnLockstep ==
  ASSUME TypeOK, Lockstep, Verifying, NEW verdict, Return(verdict)
  PROVE  VerifierLockstep' /\ ProofChained(final_proof.of)' /\ UNCHANGED <<v_seeds, v_first,
           prover_msgs, final_proof>>
BY DEF Return, Lockstep, VerifierLockstep, ProofChained, Verifying, Chained, p_vars

(* The message behind one of round n is in that round too, or is its last.  *)
LEMMA NextMessage ==
  ASSUME NEW n \in 0 .. NUM_REC - 1, NEW len \in RoundLen * n .. RoundLen * n + 3
  PROVE  /\ len + 1 <= ProofLen
         /\ len + 1 # RoundLen * (n + 1) => len + 1 \in RoundLen * n .. RoundLen * n + 3
BY RecAssumption DEF RoundLen, ProofLen

(* create_transcript and the rounds of verify(): the verifier's seeds are    *)
(* chained over the messages it holds.                                      *)
LEMMA NextVerifierLockstep ==
  ASSUME TypeOK, TypeOK', Lockstep, [Next]_vars
  PROVE  VerifierLockstep' /\ ProofChained(final_proof.of)'
<1> USE DEF Lockstep
<1>1. ASSUME NEW msgs \in Transmitted(proof.msgs), NEW fault \in Faults,
             Construct(msgs, fault)
      PROVE  VerifierLockstep' /\ ProofChained(final_proof.of)'
  <2>1. /\ v_pc = "none" /\ proof # NoProof
        /\ v_pc' = IF Len(msgs) = ProofLen THEN "idle" ELSE "refused"
        /\ prover_msgs' = msgs /\ final_proof'.of = proof
        /\ v_seeds' = v_seeds /\ UNCHANGED proof
    BY <1>1 DEF Construct, p_vars
  <2>2. v_seeds' = <<>>
    BY <2>1 DEF VerifierLockstep
  <2> QED BY <2>1, <2>2, RecAssumption
          DEF VerifierLockstep, ProofChained, Chained, Verifying, ProofLen, RoundLen
<1>2. CASE CallVerify
  <2>1. /\ v_pc = "idle" /\ v_pc' = "transcript" /\ v_seeds' = <<>> /\ v_round' = 0
        /\ v_base' = v_first'
        /\ UNCHANGED <<prover_msgs, final_proof>>
    BY <1>2 DEF CallVerify
  <2> QED BY <2>1, RecAssumption
          DEF VerifierLockstep, ProofChained, Chained, Verifying, OracleAfter,
              PNormsSmall, ProofLen, RoundLen
<1>3. CASE CreateTranscript
  <2> DEFINE j == Len(v_seeds) + 1
  <2>1. /\ v_pc = "transcript"
        /\ v_base' = generate(v_base, prover_msgs[j])
        /\ v_seeds' = Append(v_seeds, v_base')
        /\ v_pc' = IF j = RoundLen * (v_round + 1) THEN "part" ELSE "transcript"
        /\ UNCHANGED <<v_first, v_round, prover_msgs, final_proof>>
    BY <1>3 DEF CreateTranscript
  <2>2. /\ v_seeds \in Seq(Digest) /\ v_base' \in Digest /\ v_round \in 0 .. NUM_REC - 1
    BY DEF TypeOK
  <2>3. /\ v_base = OracleAfter(v_first, v_seeds, Len(v_seeds))
        /\ Chained(v_first, prover_msgs, v_seeds)
        /\ Len(v_seeds) \in RoundLen * v_round .. RoundLen * v_round + 3
        /\ PNormsSmall(v_round)
        /\ Len(prover_msgs) = ProofLen /\ final_proof.of # NoProof
    BY <2>1 DEF VerifierLockstep, Verifying
  <2>4. Chained(v_first, prover_msgs, v_seeds')
    BY <2>1, <2>2, <2>3, ChainGrows
  <2>5. Len(v_seeds') = Len(v_seeds) + 1 /\ v_seeds'[Len(v_seeds')] = v_base'
    BY <2>1, <2>2
  <2>6. v_base' = OracleAfter(v_first', v_seeds', Len(v_seeds'))
    BY <2>1, <2>2, <2>5 DEF OracleAfter
  <2>7. /\ Len(v_seeds') <= ProofLen
        /\ v_pc' = "transcript" => Len(v_seeds') \in RoundLen * v_round .. RoundLen * v_round + 3
        /\ v_pc' = "part" => Len(v_seeds') = RoundLen * (v_round + 1)
        /\ v_pc' \in {"transcript", "part"}
    <3>1. PICK len, n : len = Len(v_seeds) /\ n = v_round
      OBVIOUS
    <3>2. n \in 0 .. NUM_REC - 1 /\ len \in RoundLen * n .. RoundLen * n + 3
      BY <2>2, <2>3, <3>1
    <3>3. /\ len + 1 <= ProofLen
          /\ len + 1 # RoundLen * (n + 1) => len + 1 \in RoundLen * n .. RoundLen * n + 3
      BY ONLY <3>2, NextMessage
    <3>4. Len(v_seeds') = len + 1 /\ v_round' = n /\ j = len + 1
      BY <2>1, <2>5, <3>1
    <3> QED BY <2>1, <3>1, <3>3, <3>4
  <2>8. PNormsSmall(v_round)'
    BY <2>1, <2>3 DEF PNormsSmall
  <2>9. VerifierLockstep'
    <3>1. Chained(v_first, prover_msgs, v_seeds)'
      BY <2>1, <2>4
    <3> QED BY <2>1, <2>3, <2>6, <2>7, <2>8, <3>1 DEF VerifierLockstep
  <2> QED BY <2>1, <2>9 DEF ProofChained
<1>4. ASSUME NEW luck \in BOOLEAN, PartVerifyFails(luck)
      PROVE  VerifierLockstep' /\ ProofChained(final_proof.of)'
  BY <1>4, ReturnLockstep DEF PartVerifyFails, Verifying
<1>5. ASSUME NEW luck \in BOOLEAN, PartVerifyPasses(luck)
      PROVE  VerifierLockstep' /\ ProofChained(final_proof.of)'
  <2>1. /\ v_pc = "part" /\ prover_msgs[RoundLen * v_round + 2].norm = "small"
        /\ IF v_round < NUM_REC - 1
             THEN v_pc' = "transcript" /\ v_round' = v_round + 1
             ELSE v_pc' = "final" /\ v_round' = v_round
        /\ UNCHANGED <<v_base, v_first, prover_msgs, final_proof, v_seeds>>
    BY <1>5 DEF PartVerifyPasses, Now
  <2>2. v_round \in 0 .. NUM_REC - 1
    BY DEF TypeOK
  <2>3. /\ v_base = OracleAfter(v_first, v_seeds, Len(v_seeds))
        /\ Chained(v_first, prover_msgs, v_seeds) /\ Len(v_seeds) <= ProofLen
        /\ Len(v_seeds) = RoundLen * (v_round + 1)
        /\ PNormsSmall(v_round)
        /\ Len(prover_msgs) = ProofLen /\ final_proof.of # NoProof
    BY <2>1 DEF VerifierLockstep, Verifying
  <2>4. \A i \in 0 .. v_round : prover_msgs'[RoundLen * i + 2].norm = "small"
    BY <2>1, <2>2, <2>3 DEF PNormsSmall
  <2>5. /\ v_pc' = "transcript" => /\ v_round' = v_round + 1
                                   /\ Len(v_seeds') = RoundLen * v_round'
        /\ v_pc' = "final" => v_round = NUM_REC - 1 /\ v_round' = v_round
        /\ v_pc' \in {"transcript", "final"}
    BY <2>1, <2>2, <2>3, RecAssumption DEF RoundLen
  <2>6. (PNormsSmall(IF v_pc = "final" THEN NUM_REC ELSE v_round))'
    <3>1. CASE v_pc' = "final"
      <4>1. 0 .. NUM_REC - 1 = 0 .. v_round
        BY <2>2, <2>5, <3>1, RecAssumption
      <4> QED BY <2>4, <3>1, <4>1 DEF PNormsSmall
    <3>2. CASE v_pc' = "transcript"
      <4>1. 0 .. v_round' - 1 = 0 .. v_round
        BY <2>2, <2>5, <3>2
      <4> QED BY <2>4, <3>2, <4>1 DEF PNormsSmall
    <3> QED BY <2>5, <3>1, <3>2
  <2>7. Chained(v_first, prover_msgs, v_seeds)'
    BY <2>1, <2>3
  <2>8. /\ v_pc' = "transcript" => Len(v_seeds') \in RoundLen * v_round' .. RoundLen * v_round' + 3
        /\ v_pc' = "final" => Len(v_seeds') = RoundLen * (v_round' + 1)
    BY <2>1, <2>2, <2>3, <2>5, RecAssumption DEF RoundLen
  <2>9. VerifierLockstep'
    BY <2>1, <2>3, <2>5, <2>6, <2>7, <2>8 DEF VerifierLockstep
  <2> QED BY <2>1, <2>9 DEF ProofChained
<1>6. CASE VerifyBaseProof
  BY <1>6, ReturnLockstep DEF VerifyBaseProof, Verifying
<1>7. CASE ProverNext \/ UNCHANGED vars
  <2>1. UNCHANGED v_vars
    BY <1>7 DEF ProverNext, CallProve, SendU1, SendJL, SendBAgg, SendU2, Send, Fold,
                FoldThrows, ReturnProof, vars
  <2> QED BY <2>1 DEF v_vars, VerifierLockstep, ProofChained, Chained, Verifying, PNormsSmall
<1> QED BY <1>1, <1>2, <1>3, <1>4, <1>5, <1>6, <1>7 DEF Next, VerifierNext

-----------------------------------------------------------------------------
(* The next challenge agrees with the prover's exactly when the one before  *)
(* it did and the message between them is the prover's.                     *)
LEMMA NextSeedsAgree ==
  ASSUME TypeOK, TypeOK', Lockstep, Lockstep', SeedsAgreeExactly, [Next]_vars
  PROVE  SeedsAgreeExactly'
<1>1. CASE v_pc = "transcript" /\ CreateTranscript
  <2> DEFINE j == Len(v_seeds) + 1
  <2> DEFINE of == final_proof.of
  <2>1. /\ v_base' = generate(v_base, prover_msgs[j])
        /\ v_seeds' = Append(v_seeds, v_base')
        /\ UNCHANGED <<v_first, prover_msgs, final_proof>>
    BY <1>1 DEF CreateTranscript
  <2>2. /\ v_seeds \in Seq(Digest) /\ v_first \in Digest /\ v_base \in Digest
        /\ prover_msgs \in Seq(Message)
        /\ of.first \in Digest /\ of.msgs \in Seq(Message) /\ of.seeds \in Seq(Digest)
    BY DEF TypeOK, ProofType
  <2>3. /\ v_base = OracleAfter(v_first, v_seeds, Len(v_seeds))
        /\ Len(prover_msgs) = ProofLen /\ Len(of.seeds) = ProofLen
        /\ Len(of.msgs) = ProofLen
        /\ Chained(of.first, of.msgs, of.seeds)
        /\ Len(v_seeds) + 1 <= ProofLen
    <3>1. Len(v_seeds') = Len(v_seeds) + 1
      BY <2>1, <2>2
    <3> QED BY <1>1, <3>1 DEF Lockstep, VerifierLockstep, ProofChained, Verifying
  <2>4. j \in 1 .. ProofLen /\ j - 1 \in 0 .. ProofLen
    BY <2>2, <2>3, RecAssumption DEF ProofLen, RoundLen
  <2>5. of.seeds[j] = generate(OracleAfter(of.first, of.seeds, j - 1), of.msgs[j])
    BY <2>3, <2>4 DEF Chained
  <2>6. OracleAfter(of.first, of.seeds, j - 1) \in Digest
    BY <2>2, <2>3, <2>4 DEF OracleAfter
  <2>7. v_base = OracleAfter(of.first, of.seeds, j - 1) <=> SameUpTo(j - 1)
    <3>1. CASE Len(v_seeds) = 0
      BY <2>3, <3>1 DEF OracleAfter, SameUpTo
    <3>2. CASE Len(v_seeds) # 0
      <4>1. Len(v_seeds) \in 1 .. Len(v_seeds) /\ j - 1 = Len(v_seeds)
        BY <2>2, <3>2
      <4>2. v_base = v_seeds[j - 1] /\ OracleAfter(of.first, of.seeds, j - 1) = of.seeds[j - 1]
        BY <2>3, <3>2, <4>1 DEF OracleAfter
      <4> QED BY <4>1, <4>2 DEF SeedsAgreeExactly
    <3> QED BY <3>1, <3>2
  <2>8. prover_msgs[j] \in Message /\ of.msgs[j] \in Message
    BY <2>2, <2>3, <2>4
  <2>9. v_base' = of.seeds[j] <=>
          v_base = OracleAfter(of.first, of.seeds, j - 1) /\ prover_msgs[j] = of.msgs[j]
    BY <2>1, <2>2, <2>5, <2>6, <2>8, GenerateInjective
  <2>10. SameUpTo(j) <=> SameUpTo(j - 1) /\ prover_msgs[j] = of.msgs[j]
    BY <2>4 DEF SameUpTo
  <2>11. v_base' = of.seeds[j] <=> SameUpTo(j)
    BY <2>7, <2>9, <2>10
  <2>12. \A k \in 1 .. j : SameUpTo(k)' <=> SameUpTo(k)
    BY <2>1 DEF SameUpTo
  <2>13. /\ Len(v_seeds') = j /\ v_seeds'[j] = v_base'
         /\ \A k \in 1 .. Len(v_seeds) : v_seeds'[k] = v_seeds[k]
    BY <2>1, <2>2
  <2>14. ASSUME NEW k \in 1 .. j PROVE v_seeds'[k] = of.seeds[k] <=> SameUpTo(k)
    <3>1. CASE k = j
      BY <2>11, <2>13, <3>1
    <3>2. CASE k \in 1 .. Len(v_seeds)
      BY <2>13, <3>2 DEF SeedsAgreeExactly
    <3> QED BY <2>2, <3>1, <3>2
  <2> QED BY <2>1, <2>12, <2>13, <2>14 DEF SeedsAgreeExactly
<1>2. CASE v_seeds' = <<>>
  BY <1>2 DEF SeedsAgreeExactly
<1>3. CASE UNCHANGED <<v_seeds, v_first, prover_msgs, final_proof>>
  BY <1>3 DEF SeedsAgreeExactly, SameUpTo
<1>4. \/ v_pc = "transcript" /\ CreateTranscript
      \/ v_seeds' = <<>>
      \/ UNCHANGED <<v_seeds, v_first, prover_msgs, final_proof>>
  <2>1. CASE ProverNext \/ UNCHANGED vars
    BY <2>1 DEF ProverNext, CallProve, SendU1, SendJL, SendBAgg, SendU2, Send, Fold,
                FoldThrows, ReturnProof, vars, v_vars
  <2>2. CASE VerifierNext
    BY <2>2 DEF VerifierNext, Construct, CallVerify, CreateTranscript, PartVerifyFails,
                PartVerifyPasses, VerifyBaseProof, Return, Lockstep, VerifierLockstep
  <2> QED BY <2>1, <2>2 DEF Next
<1> QED BY <1>1, <1>2, <1>3, <1>4

IndInv == TypeOK /\ Lockstep /\ SeedsAgreeExactly

(* The inductive invariant.                                                 *)
THEOREM Inductive == Spec => []IndInv
<1>1. Init => IndInv
  BY InitTyped, InitLockstep DEF IndInv
<1>2. IndInv /\ [Next]_vars => IndInv'
  BY NextTyped, NextProverLockstep, NextVerifierLockstep, NextSeedsAgree DEF IndInv, Lockstep
<1> QED BY <1>1, <1>2, PTL DEF Spec

(* Every variable keeps its type: no round index or oracle is ever out of   *)
(* step with the code's loops.                                              *)
THEOREM TypeCorrect == Spec => []TypeOK
BY Inductive, PTL DEF IndInv

(* Oracle: the challenges of the two sides agree exactly up to the first    *)
(* altered message, in every round, for every NUM_REC.                      *)
THEOREM ChallengesAgree == Spec => []SeedsAgreeExactly
BY Inductive, PTL DEF IndInv

(* verify() returns true only for an untouched proof of the verifier's own  *)
(* statement, whose norms are small.                                        *)
THEOREM Soundness == Spec => AcceptsOnlyGenuine
<1>1. ASSUME IndInv, [Next]_vars, Ends, Verdict = "accept"
      PROVE  Genuine /\ NormsSmall
  <2>1. CASE VerifyBaseProof
    <3>1. /\ v_pc = "final" /\ final_proof.z_norm = "small" /\ EquationsHold
      BY <1>1, <2>1 DEF VerifyBaseProof, Return, Verdict, IndInv, TypeOK
    <3>2. Len(v_seeds) = ProofLen /\ PNormsSmall(NUM_REC)
      BY <1>1, <3>1, RecAssumption
         DEF IndInv, Lockstep, VerifierLockstep, ProofLen, RoundLen, Verifying
    <3>3. ProofLen \in 1 .. ProofLen
      BY RecAssumption DEF ProofLen, RoundLen
    <3>4. SameUpTo(ProofLen)
      BY <1>1, <3>1, <3>2, <3>3 DEF EquationsHold, IndInv, SeedsAgreeExactly
    <3> QED BY <3>1, <3>2, <3>4 DEF EquationsHold, Genuine, NormsSmall
  <2>2. CASE \E luck \in BOOLEAN : PartVerifyFails(luck)
    BY <1>1, <2>2 DEF PartVerifyFails, Return, Verdict, IndInv, TypeOK
  <2>3. CASE ~VerifyBaseProof /\ ~\E luck \in BOOLEAN : PartVerifyFails(luck)
    BY <1>1, <2>3
       DEF Next, VerifierNext, ProverNext, Ends, Verifying, Construct, CallVerify,
           CreateTranscript, PartVerifyPasses, CallProve, SendU1, SendJL, SendBAgg, SendU2,
           Send, Fold, FoldThrows, ReturnProof, vars, v_vars
  <2> QED BY <2>1, <2>2, <2>3
<1>2. IndInv /\ [Next]_vars => [Ends /\ Verdict = "accept" => Genuine /\ NormsSmall]_vars
  BY <1>1
<1> QED BY <1>2, Inductive, PTL DEF Spec, AcceptsOnlyGenuine

-----------------------------------------------------------------------------
(* What the prover records is what it computed: nothing is marked altered.  *)
AllUntouched(msgs) == \A j \in 1 .. Len(msgs) : msgs[j].alt = "no"
Untouched ==
  AllUntouched(trs_msgs) /\ AllUntouched(proof.msgs) /\ AllUntouched(final_proof.of.msgs)

(* A message of the prover is appended to its transcript untouched.         *)
Recorded ==
  /\ \E m : trs_msgs' = Append(trs_msgs, m) /\ m.alt = "no"
  /\ UNCHANGED <<proof, final_proof>>

(* A message sent is appended to the transcript unaltered.                  *)
LEMMA SendRecords ==
  ASSUME NEW kind, NEW next, NEW norm, Send(kind, next, norm)
  PROVE  Recorded
<1> DEFINE m == [kind |-> kind, round |-> p_round, norm |-> norm, alt |-> "no",
                 start |-> IF kind = "u1" /\ p_round = 0 THEN 0 ELSE Len(p_first.log)]
<1>1. trs_msgs' = Append(trs_msgs, m) /\ m.alt = "no"
  BY DEF Send
<1>2. UNCHANGED <<proof, final_proof>>
  BY DEF Send, v_vars
<1> QED BY <1>1, <1>2 DEF Recorded

(* What the prover keeps is never marked altered.                           *)
LEMMA UntouchedInductive == Spec => []Untouched
<1>1. Init => Untouched
  BY DEF Init, NoProof, Untouched, AllUntouched
<1>2. ASSUME IndInv, Untouched, [Next]_vars PROVE Untouched'
  <2>1. CASE UNCHANGED <<trs_msgs, proof, final_proof>>
    BY <1>2, <2>1 DEF Untouched, AllUntouched
  <2>2. CASE Recorded
    <3>1. PICK m : trs_msgs' = Append(trs_msgs, m) /\ m.alt = "no"
      BY <2>2 DEF Recorded
    <3>2. trs_msgs \in Seq(Message)
      BY <1>2 DEF IndInv, TypeOK
    <3>3. \A j \in 1 .. Len(trs_msgs') : trs_msgs'[j].alt = "no"
      BY <1>2, <3>1, <3>2 DEF Untouched, AllUntouched
    <3> QED BY <1>2, <2>2, <3>3 DEF Recorded, Untouched, AllUntouched
  <2>3. CASE CallProve
    BY <1>2, <2>3 DEF CallProve, v_vars, Untouched, AllUntouched
  <2>4. CASE ReturnProof
    BY <1>2, <2>4 DEF ReturnProof, v_vars, Untouched, AllUntouched
  <2>5. CASE \E msgs \in Transmitted(proof.msgs), fault \in Faults : Construct(msgs, fault)
    BY <1>2, <2>5 DEF Construct, p_vars, Untouched, AllUntouched
  <2>6. \/ UNCHANGED <<trs_msgs, proof, final_proof>>
        \/ Recorded \/ CallProve \/ ReturnProof
        \/ \E msgs \in Transmitted(proof.msgs), fault \in Faults : Construct(msgs, fault)
    <3>1. CASE SendU1 \/ SendJL \/ SendBAgg \/ SendU2
      BY <3>1, SendRecords DEF SendU1, SendJL, SendBAgg, SendU2
    <3>2. CASE UNCHANGED vars \/ Fold \/ FoldThrows
      BY <3>2 DEF Fold, FoldThrows, vars, v_vars, p_vars
    <3>3. CASE CallVerify \/ CreateTranscript \/ VerifyBaseProof
      BY <3>3 DEF CallVerify, CreateTranscript, VerifyBaseProof, Return, p_vars
    <3>4. CASE \E luck \in BOOLEAN : PartVerifyFails(luck) \/ PartVerifyPasses(luck)
      BY <3>4 DEF PartVerifyFails, PartVerifyPasses, Return, p_vars
    <3> QED BY <1>2, <3>1, <3>2, <3>3, <3>4 DEF Next, ProverNext, VerifierNext
  <2> QED BY <2>1, <2>2, <2>3, <2>4, <2>5, <2>6
<1> QED BY <1>1, <1>2, Inductive, PTL DEF Spec

(* In the steps of verify() that end a call, what the verdict depends on.   *)
LEMMA AgreementOfGenuine ==
  ASSUME IndInv, Verifying, v_pc # "transcript", Genuine
  PROVE  /\ Len(v_seeds) = RoundLen * (v_round + 1) /\ v_round \in 0 .. NUM_REC - 1
         /\ Len(v_seeds) \in 1 .. ProofLen
         /\ \A j \in 1 .. Len(v_seeds) :
              v_seeds[j] = final_proof.of.seeds[j] /\ prover_msgs[j] = final_proof.of.msgs[j]
<1>1. Len(v_seeds) = RoundLen * (v_round + 1) /\ v_round \in 0 .. NUM_REC - 1
  BY DEF IndInv, Lockstep, VerifierLockstep, Verifying, TypeOK
<1>2. Len(v_seeds) \in 1 .. ProofLen
  BY <1>1, RecAssumption DEF IndInv, Lockstep, VerifierLockstep, ProofLen, RoundLen
<1>3. ASSUME NEW j \in 1 .. Len(v_seeds) PROVE SameUpTo(j)
  BY <1>2, <1>3, RecAssumption DEF Genuine, SameUpTo, ProofLen, RoundLen
<1>4. ASSUME NEW j \in 1 .. Len(v_seeds)
      PROVE  v_seeds[j] = final_proof.of.seeds[j] /\ prover_msgs[j] = final_proof.of.msgs[j]
  BY <1>3, <1>4, <1>2 DEF IndInv, SeedsAgreeExactly, SameUpTo
<1> QED BY <1>1, <1>2, <1>4

(* In a call on a genuine proof with small norms no check fails.            *)
LEMMA GenuineStep ==
  ASSUME IndInv, Untouched, [Next]_vars, Ends, Genuine, NormsSmall
  PROVE  Verdict = "accept"
<1>1. CASE \E luck \in BOOLEAN : PartVerifyFails(luck)
  <2>1. PICK luck \in BOOLEAN : PartVerifyFails(luck)
    BY <1>1
  <2>2. v_pc = "part"
    BY <2>1 DEF PartVerifyFails
  <2>3. /\ Len(v_seeds) = RoundLen * (v_round + 1) /\ v_round \in 0 .. NUM_REC - 1
        /\ Len(v_seeds) \in 1 .. ProofLen
        /\ \A j \in 1 .. Len(v_seeds) :
             v_seeds[j] = final_proof.of.seeds[j] /\ prover_msgs[j] = final_proof.of.msgs[j]
    BY <2>2, AgreementOfGenuine DEF Verifying
  <2>4. Now(2) \in 1 .. Len(v_seeds) /\ Now(3) \in 1 .. Len(v_seeds)
    BY <2>3, RecAssumption DEF Now, RoundLen
  <2>5. prover_msgs[Now(2)].norm = "small"
    BY <2>3 DEF NormsSmall, PNormsSmall, Now
  <2>6. Len(final_proof.of.msgs) = ProofLen
    BY <2>2 DEF IndInv, Lockstep, VerifierLockstep, ProofChained
  <2>7. final_proof.of.msgs[Now(3)].alt = "no"
    BY <2>3, <2>4, <2>6, RecAssumption DEF Untouched, AllUntouched, ProofLen, RoundLen
  <2>8. ConstTermsRight(luck)
    BY <2>3, <2>4, <2>7 DEF ConstTermsRight, Genuine
  <2> QED BY <2>1, <2>5, <2>8 DEF PartVerifyFails
<1>2. CASE VerifyBaseProof
  <2>1. v_pc = "final" /\ final_proof.z_norm = "small"
    BY <1>2 DEF VerifyBaseProof, NormsSmall
  <2>2. /\ Len(v_seeds) = ProofLen
        /\ \A j \in 1 .. Len(v_seeds) : v_seeds[j] = final_proof.of.seeds[j]
    <3>1. v_round = NUM_REC - 1
      BY <2>1 DEF IndInv, Lockstep, VerifierLockstep
    <3> QED BY <2>1, <3>1, AgreementOfGenuine, RecAssumption DEF Verifying, ProofLen, RoundLen
  <2>3. Len(final_proof.of.seeds) = ProofLen
    BY <2>1 DEF IndInv, Lockstep, VerifierLockstep, ProofChained
  <2>4. v_seeds \in Seq(Digest) /\ final_proof.of.seeds \in Seq(Digest)
    BY DEF IndInv, TypeOK, ProofType
  <2>5. v_seeds = final_proof.of.seeds
    BY <2>2, <2>3, <2>4
  <2>6. EquationsHold
    BY <2>5 DEF EquationsHold, Genuine
  <2>7. Return("accept")
    BY <1>2, <2>1, <2>6 DEF VerifyBaseProof
  <2>8. verdicts \in Seq({"accept", "reject", "throw"})
    BY DEF IndInv, TypeOK
  <2> QED BY <2>7, <2>8 DEF Return, Verdict
<1>3. CASE ~VerifyBaseProof /\ ~\E luck \in BOOLEAN : PartVerifyFails(luck)
  BY <1>3
     DEF Next, VerifierNext, ProverNext, Ends, Verifying, Construct, CallVerify,
         CreateTranscript, PartVerifyPasses, CallProve, SendU1, SendJL, SendBAgg, SendU2,
         Send, Fold, FoldThrows, ReturnProof, vars, v_vars
<1> QED BY <1>1, <1>2, <1>3

(* An honest proof is accepted: with the same oracle state at the start,    *)
(* nothing altered and small norms, no check of any round can fail.         *)
THEOREM Completeness == Spec => GenuineIsAccepted
<1>1. IndInv /\ Untouched /\ [Next]_vars
        => [Ends /\ Genuine /\ NormsSmall => Verdict = "accept"]_vars
  BY GenuineStep
<1> QED BY <1>1, Inductive, UntouchedInductive, PTL DEF Spec, GenuineIsAccepted

-----------------------------------------------------------------------------
(* While a round runs, its oracle is the object's and one entry for each    *)
(* message the round has sent.                                              *)
WholeRounds ==
  p_pc # "idle" =>
    /\ Len(p_base.log) = Len(p_oracle.log) + Sent
    /\ \A k \in 1 .. Len(p_oracle.log) : p_base.log[k] = p_oracle.log[k]

(* The base oracle is the object's and the messages sent since.             *)
LEMMA WholeRoundsInductive == Spec => []WholeRounds
<1>1. Init => WholeRounds
  BY DEF Init, WholeRounds
<1>2. ASSUME IndInv, IndInv', WholeRounds, [Next]_vars PROVE WholeRounds'
  <2>1. ASSUME NEW kind \in Kinds, NEW next \in Kinds \cup {"prepare"}, NEW norm,
               Send(kind, next, norm),
               <<kind, next>> \in {<<"u1", "jl">>, <<"jl", "b_agg">>,
                                  <<"b_agg", "u2">>, <<"u2", "prepare">>}
        PROVE  WholeRounds'
    <3>1. PICK m : p_base' = generate(p_base, m)
      BY <2>1 DEF Send
    <3>2. p_base \in Digest /\ p_base.log \in Seq(Message)
      BY <1>2 DEF IndInv, TypeOK, Digest
    <3>3. p_base'.log = Append(p_base.log, m)
      BY <3>1, <3>2 DEF generate, Digest
    <3>4. /\ Len(p_base'.log) = Len(p_base.log) + 1
          /\ \A k \in 1 .. Len(p_base.log) : p_base'.log[k] = p_base.log[k]
      BY <3>2, <3>3
    <3>5. p_oracle' = p_oracle /\ Sent' = Sent + 1 /\ Sent \in 0 .. 3 /\ p_pc # "idle"
      BY <2>1 DEF Send, Sent, Kinds
    <3>6. Len(p_oracle.log) \in Nat
      BY <1>2 DEF IndInv, TypeOK, Digest
    <3>7. Len(p_base.log) = Len(p_oracle.log) + Sent
      BY <1>2, <3>5 DEF WholeRounds
    <3>8. Len(p_base'.log) = Len(p_oracle.log) + (Sent + 1)
      <4>1. \A l \in Nat, t \in 0 .. 3 : (l + t) + 1 = l + (t + 1)
        OBVIOUS
      <4> QED BY <3>4, <3>5, <3>6, <3>7, <4>1
    <3>9. \A k \in 1 .. Len(p_oracle.log) : p_base'.log[k] = p_oracle.log[k]
      BY <1>2, <3>4, <3>5, <3>6, <3>7 DEF WholeRounds
    <3> QED BY <3>5, <3>8, <3>9 DEF WholeRounds
  <2>2. CASE SendU1 \/ SendJL \/ SendBAgg \/ SendU2
    BY <2>1, <2>2 DEF SendU1, SendJL, SendBAgg, SendU2, Kinds
  <2>3. CASE CallProve \/ Fold
    <3>1. p_base' = p_oracle' /\ Sent' = 0
      BY <2>3 DEF CallProve, Fold, Sent
    <3>2. Len(p_oracle'.log) \in Nat
      BY <1>2 DEF IndInv, TypeOK, Digest
    <3> QED BY <3>1, <3>2 DEF WholeRounds
  <2>4. CASE FoldThrows \/ ReturnProof
    BY <2>4 DEF FoldThrows, ReturnProof, WholeRounds
  <2>5. CASE UNCHANGED p_vars
    BY <1>2, <2>5 DEF p_vars, WholeRounds, Sent
  <2>6. VerifierNext \/ UNCHANGED vars => UNCHANGED p_vars
    BY DEF VerifierNext, Construct, CallVerify, CreateTranscript, PartVerifyFails,
           PartVerifyPasses, VerifyBaseProof, Return, vars
  <2> QED BY <1>2, <2>2, <2>3, <2>4, <2>5, <2>6 DEF Next, ProverNext
<1> QED BY <1>1, <1>2, Inductive, PTL DEF Spec

(* The oracle of a LabradorProver only ever moves on by the four messages   *)
(* of a folded round: calls that throw half-way and last rounds leave it    *)
(* where it was.                                                            *)
THEOREM OracleMovesOnByRounds == Spec => OracleGrowsByRounds
<1>1. ASSUME IndInv, WholeRounds, [Next]_vars, p_oracle' # p_oracle
      PROVE  /\ Len(p_oracle'.log) = Len(p_oracle.log) + RoundLen
             /\ SubSeq(p_oracle'.log, 1, Len(p_oracle.log)) = p_oracle.log
  <2>1. Fold
    BY <1>1 DEF Next, ProverNext, VerifierNext, CallProve, SendU1, SendJL, SendBAgg, SendU2,
                Send, FoldThrows, ReturnProof, Construct, CallVerify, CreateTranscript,
                PartVerifyFails, PartVerifyPasses, VerifyBaseProof, Return, vars, p_vars
  <2>2. p_oracle' = p_base /\ p_pc = "prepare" /\ Sent = RoundLen
    BY <2>1 DEF Fold, Sent, RoundLen
  <2>3. p_oracle.log \in Seq(Message) /\ p_base.log \in Seq(Message)
    BY <1>1 DEF IndInv, TypeOK, Digest
  <2>4. /\ Len(p_base.log) = Len(p_oracle.log) + RoundLen
        /\ \A k \in 1 .. Len(p_oracle.log) : p_base.log[k] = p_oracle.log[k]
    BY <1>1, <2>2 DEF WholeRounds
  <2>5. SubSeq(p_base.log, 1, Len(p_oracle.log)) = p_oracle.log
    <3> DEFINE n == Len(p_oracle.log)
    <3>1. n \in Nat /\ n <= Len(p_base.log)
      BY <2>3, <2>4 DEF RoundLen
    <3>2. /\ SubSeq(p_base.log, 1, n) \in Seq(Message)
          /\ Len(SubSeq(p_base.log, 1, n)) = n
          /\ \A k \in 1 .. n : SubSeq(p_base.log, 1, n)[k] = p_base.log[k]
      BY <2>3, <3>1
    <3> QED BY <2>3, <2>4, <3>1, <3>2
  <2> QED BY <2>2, <2>4, <2>5
<1>2. IndInv /\ WholeRounds /\ [Next]_vars =>
        [p_oracle' # p_oracle =>
           /\ Len(p_oracle'.log) = Len(p_oracle.log) + RoundLen
           /\ SubSeq(p_oracle'.log, 1, Len(p_oracle.log)) = p_oracle.log]_vars
  BY <1>1
<1> QED BY <1>2, Inductive, WholeRoundsInductive, PTL DEF Spec, OracleGrowsByRounds

-----------------------------------------------------------------------------
(* In every round that part_verify has let pass, the constant terms were    *)
(* those that answer the challenges of the round.                           *)
Passed == IF v_pc = "final" THEN NUM_REC ELSE v_round
ConstTermsPassed ==
  Verifying =>
    \A i \in 0 .. Passed - 1 :
      /\ v_seeds[RoundLen * i + 2] = final_proof.of.seeds[RoundLen * i + 2]
      /\ prover_msgs[RoundLen * i + 3].alt # "const"

(* A round that passed had the right challenges up to b_agg's constant term. *)
LEMMA ConstTermsPassedInductive == Spec => []ConstTermsPassed
<1>1. Init => ConstTermsPassed
  BY DEF Init, ConstTermsPassed, Verifying
<1>2. ASSUME IndInv, IndInv', ConstTermsPassed, [Next]_vars PROVE ConstTermsPassed'
  <2>0. v_round \in 0 .. NUM_REC - 1 /\ v_seeds \in Seq(Digest)
    BY <1>2 DEF IndInv, TypeOK
  <2>1. CASE CreateTranscript
    <3>1. /\ v_seeds' = Append(v_seeds, v_base') /\ v_pc = "transcript"
          /\ v_pc' \in {"part", "transcript"}
          /\ UNCHANGED <<v_round, prover_msgs, final_proof>>
      BY <2>1 DEF CreateTranscript
    <3>2. Len(v_seeds) >= RoundLen * v_round
      BY <1>2, <2>0, <3>1, RecAssumption DEF IndInv, Lockstep, VerifierLockstep, RoundLen
    <3>3. \A i \in 0 .. v_round - 1 : v_seeds'[RoundLen * i + 2] = v_seeds[RoundLen * i + 2]
      BY <2>0, <3>1, <3>2, RecAssumption DEF RoundLen
    <3>4. Passed = v_round /\ Passed' = v_round
      BY <3>1 DEF Passed
    <3> QED BY <1>2, <3>1, <3>3, <3>4 DEF ConstTermsPassed, Verifying
  <2>2. CASE \E luck \in BOOLEAN : PartVerifyPasses(luck)
    <3>1. PICK luck \in BOOLEAN : PartVerifyPasses(luck)
      BY <2>2
    <3>2. /\ v_pc = "part" /\ UNCHANGED <<v_seeds, prover_msgs, final_proof>>
          /\ v_seeds[RoundLen * v_round + 2] = final_proof.of.seeds[RoundLen * v_round + 2]
          /\ prover_msgs[RoundLen * v_round + 3].alt # "const"
      BY <3>1 DEF PartVerifyPasses, ConstTermsRight, Now
    <3>3. Passed = v_round /\ Passed' = v_round + 1
      <4>1. \/ v_pc' = "transcript" /\ v_round' = v_round + 1
            \/ v_pc' = "final" /\ ~(v_round < NUM_REC - 1)
        BY <3>1 DEF PartVerifyPasses
      <4>2. v_round \in Int /\ NUM_REC \in Int /\ v_round <= NUM_REC - 1
        BY <2>0, RecAssumption
      <4>3. v_pc' = "final" => NUM_REC = v_round + 1
        BY <4>1, <4>2
      <4>4. v_pc # "final"
        BY <3>2
      <4> QED BY <4>1, <4>3, <4>4 DEF Passed
    <3>4. \A i \in 0 .. Passed' - 1 : i = v_round \/ i \in 0 .. Passed - 1
      BY <2>0, <3>3, RecAssumption
    <3> QED BY <1>2, <3>2, <3>4 DEF ConstTermsPassed, Verifying
  <2>3. CASE CallVerify
    BY <2>3 DEF CallVerify, ConstTermsPassed, Passed
  <2>4. CASE ~Verifying'
    BY <2>4 DEF ConstTermsPassed
  <2>5. CASE UNCHANGED v_vars
    BY <1>2, <2>5 DEF v_vars, ConstTermsPassed, Passed, Verifying
  <2>6. ProverNext \/ UNCHANGED vars => UNCHANGED v_vars
    BY DEF ProverNext, CallProve, SendU1, SendJL, SendBAgg, SendU2, Send, Fold,
           FoldThrows, ReturnProof, vars
  <2>7. VerifyBaseProof \/ (\E luck \in BOOLEAN : PartVerifyFails(luck)) => ~Verifying'
    BY DEF VerifyBaseProof, PartVerifyFails, Return, Verifying
  <2>8. (\E msgs \in Transmitted(proof.msgs), fault \in Faults : Construct(msgs, fault))
          => ~Verifying'
    BY DEF Construct, Verifying
  <2> QED BY <1>2, <2>1, <2>2, <2>3, <2>4, <2>5, <2>6, <2>7, <2>8 DEF Next, VerifierNext
<1> QED BY <1>1, <1>2, Inductive, PTL DEF Spec

(* Where a call stops: behind the constant terms of the rounds it has       *)
(* passed, and not behind those of the round that fails.                    *)
LEMMA RoundOfRefusal ==
  ASSUME NEW n \in Nat \ {0}, NEW j \in 1 .. 4 * n, NEW v \in 0 .. n - 1,
         NEW how \in {"const", "other"},
         \A i \in 0 .. v - 1 : 4 * i + 2 < j /\ ~(4 * i + 3 = j /\ how = "const"),
         \/ 4 * v + 2 >= j \/ (4 * v + 3 = j /\ how = "const")
         \/ v = n - 1 /\ 4 * v + 2 < j
  PROVE  LET own  == (j - 1) \div 4
             late == j % 4 = 0 \/ (j % 4 = 3 /\ how = "other")
         IN  v = IF late /\ own < n - 1 THEN own + 1 ELSE own
<1>1. v = 0 \/ (v - 1 \in 0 .. v - 1 /\ 4 * (v - 1) + 2 < j
                  /\ ~(4 * (v - 1) + 3 = j /\ how = "const"))
  OBVIOUS
<1>2. \/ j \in {4 * v - 1, 4 * v} /\ v > 0 /\ (j = 4 * v - 1 => how = "other")
      \/ j \in {4 * v + 1, 4 * v + 2}
      \/ j = 4 * v + 3 /\ how = "const"
      \/ v = n - 1 /\ j \in {4 * v + 3, 4 * v + 4}
  BY <1>1
<1> QED BY <1>2

(* A step that refuses one altered message is in the round that shows it.   *)
LEMMA RefusalStep ==
  ASSUME IndInv, Untouched, ConstTermsPassed, [Next]_vars, NEW j \in 1 .. ProofLen,
         Ends, Verdict = "reject", statement = "same", NormsSmall,
         final_proof.alt = "no", v_first = final_proof.of.first,
         prover_msgs = Altered(final_proof.of.msgs, j, prover_msgs[j].alt)
  PROVE  v_round = RefusedRound(j)
<1> DEFINE of == final_proof.of
           how == prover_msgs[j].alt
<1>1. /\ of.msgs \in Seq(Message) /\ Len(of.msgs) = ProofLen
      /\ prover_msgs \in Seq(Message) /\ Len(prover_msgs) = ProofLen
      /\ v_seeds \in Seq(Digest) /\ Len(v_seeds) <= ProofLen
      /\ v_round \in 0 .. NUM_REC - 1
  BY DEF IndInv, TypeOK, ProofType, Lockstep, VerifierLockstep, ProofChained, Ends, Verifying
<1>2. \A k \in 1 .. ProofLen : of.msgs[k] \in Message /\ of.msgs[k].alt = "no"
  BY <1>1 DEF Untouched, AllUntouched
<1>3. /\ \A k \in 1 .. ProofLen : k # j => prover_msgs[k] = of.msgs[k]
      /\ prover_msgs[j] = [of.msgs[j] EXCEPT !.alt = how]
  BY <1>1, <1>2 DEF Altered
<1>4. how \in {"const", "other"}
  <2>1. how \in {"no", "const", "other"}
    <3>1. prover_msgs[j] \in Message
      BY <1>1
    <3> QED BY <3>1 DEF Message
  <2>2. ASSUME how = "no" PROVE FALSE
    <3>1. prover_msgs[j] = of.msgs[j]
      BY <1>2, <1>3, <2>2 DEF Message
    <3>2. SameUpTo(ProofLen)
      BY <1>3, <3>1 DEF SameUpTo
    <3> QED BY <3>2, GenuineStep DEF Genuine
  <2> QED BY <2>1, <2>2
<1>5. prover_msgs[j] # of.msgs[j]
  BY <1>2, <1>4
<1>6. \A k \in 1 .. Len(v_seeds) : v_seeds[k] = of.seeds[k] <=> k < j
  <2>1. \A k \in 1 .. ProofLen : SameUpTo(k) <=> k < j
    BY <1>3, <1>5, RecAssumption DEF SameUpTo, ProofLen, RoundLen
  <2> QED BY <1>1, <2>1, RecAssumption DEF IndInv, SeedsAgreeExactly, ProofLen, RoundLen
<1>7. /\ Len(v_seeds) = RoundLen * (v_round + 1)
      /\ \/ v_pc = "part"
         \/ v_pc = "final" /\ v_round = NUM_REC - 1
      /\ Verifying
  <2>1. v_pc \in {"part", "final"}
    BY DEF Next, VerifierNext, ProverNext, Ends, Verifying, Construct, CallVerify,
           CreateTranscript, PartVerifyFails, PartVerifyPasses, VerifyBaseProof, CallProve,
           SendU1, SendJL, SendBAgg, SendU2, Send, Fold, FoldThrows, ReturnProof, vars, v_vars
  <2>2. v_pc = "part" => Len(v_seeds) = RoundLen * (v_round + 1)
    BY DEF IndInv, Lockstep, VerifierLockstep, Verifying
  <2>3. v_pc = "final" => v_round = NUM_REC - 1 /\ Len(v_seeds) = RoundLen * (v_round + 1)
    BY DEF IndInv, Lockstep, VerifierLockstep, Verifying
  <2>4. Verifying
    BY <2>1 DEF Verifying
  <2> QED BY <2>1, <2>2, <2>3, <2>4
<1>8. /\ \A i \in 0 .. Passed - 1 : i \in 0 .. v_round
      /\ \A i \in 0 .. v_round - 1 : i \in 0 .. Passed - 1
      /\ v_pc = "final" => v_round \in 0 .. Passed - 1
  BY <1>1, <1>7, RecAssumption DEF Passed
<1>9. \A i \in 0 .. v_round : RoundLen * i + 2 \in 1 .. Len(v_seeds)
                                 /\ RoundLen * i + 3 \in 1 .. Len(v_seeds)
  BY <1>1, <1>7, RecAssumption DEF RoundLen
<1>10. \A i \in 0 .. Passed - 1 :
         4 * i + 2 < j /\ ~(4 * i + 3 = j /\ how = "const")
  BY <1>6, <1>7, <1>8, <1>9 DEF ConstTermsPassed, RoundLen
<1>11. \/ 4 * v_round + 2 >= j \/ (4 * v_round + 3 = j /\ how = "const")
       \/ v_round = NUM_REC - 1 /\ 4 * v_round + 2 < j
  <2>1. CASE v_pc = "final"
    BY <1>7, <1>8, <1>10, <2>1
  <2>2. CASE v_pc = "part"
    <3>1. PICK luck \in BOOLEAN : PartVerifyFails(luck)
      BY <2>2 DEF Next, VerifierNext, ProverNext, Ends, Verifying, Construct, CallVerify,
           CreateTranscript, PartVerifyPasses, VerifyBaseProof, CallProve,
           SendU1, SendJL, SendBAgg, SendU2, Send, Fold, FoldThrows, ReturnProof, vars, v_vars
    <3>2. ~ConstTermsRight(luck)
      <4>1. verdicts \in Seq({"accept", "reject", "throw"})
        BY DEF IndInv, TypeOK
      <4>2. ~Return("throw")
        BY <4>1 DEF Return, Verdict
      <4> QED BY <3>1, <4>2 DEF PartVerifyFails
    <3>3. \/ v_seeds[Now(2)] # of.seeds[Now(2)]
          \/ prover_msgs[Now(3)].alt = "const"
      BY <3>2 DEF ConstTermsRight
    <3>4. /\ Now(2) \in 1 .. Len(v_seeds) /\ Now(2) = 4 * v_round + 2
          /\ Now(3) \in 1 .. ProofLen /\ Now(3) = 4 * v_round + 3
      BY <1>1, <1>7, <1>9, RecAssumption DEF Now, RoundLen, ProofLen
    <3>5. v_seeds[Now(2)] # of.seeds[Now(2)] => 4 * v_round + 2 >= j
      BY <1>1, <1>6, <3>4, RecAssumption DEF ProofLen, RoundLen
    <3>6. prover_msgs[Now(3)].alt = "const" => 4 * v_round + 3 = j /\ how = "const"
      BY <1>2, <1>3, <3>4
    <3> QED BY <3>3, <3>5, <3>6
  <2> QED BY <1>7, <2>1, <2>2
<1>12. j \in 1 .. 4 * NUM_REC /\ NUM_REC \in Nat \ {0}
  BY RecAssumption DEF ProofLen, RoundLen
<1> HIDE DEF how
<1>13. LET own  == (j - 1) \div 4
           late == j % 4 = 0 \/ (j % 4 = 3 /\ how = "other")
       IN  v_round = IF late /\ own < NUM_REC - 1 THEN own + 1 ELSE own
  <2>1. PICK v, n : v = v_round /\ n = NUM_REC
    OBVIOUS
  <2>2. /\ v \in 0 .. n - 1 /\ n \in Nat \ {0} /\ j \in 1 .. 4 * n
        /\ \A i \in 0 .. v - 1 : 4 * i + 2 < j /\ ~(4 * i + 3 = j /\ how = "const")
    BY ONLY <2>1, <1>1, <1>8, <1>10, <1>12
  <2>3. \/ 4 * v + 2 >= j \/ (4 * v + 3 = j /\ how = "const")
        \/ v = n - 1 /\ 4 * v + 2 < j
    BY ONLY <2>1, <1>11
  <2>4. LET own  == (j - 1) \div 4
            late == j % 4 = 0 \/ (j % 4 = 3 /\ how = "other")
        IN  v = IF late /\ own < n - 1 THEN own + 1 ELSE own
    BY ONLY <2>2, <2>3, <1>4, RoundOfRefusal
  <2> QED BY ONLY <2>1, <2>4
<1> QED BY <1>13 DEF RefusedRound, RoundLen, how

(* An altered message is refused in the round that first depends on it:     *)
(* u2, and b_agg but for its constant term, one round late, anything else   *)
(* in its own round, for every number of rounds.                            *)
THEOREM RefusedInTime == Spec => AlterationRefusedInRound
<1>1. IndInv /\ Untouched /\ ConstTermsPassed /\ [Next]_vars =>
        [\A j \in 1 .. ProofLen :
           Ends /\ Verdict = "reject" /\ statement = "same" /\ NormsSmall
             /\ final_proof.alt = "no"
             /\ v_first = final_proof.of.first
             /\ prover_msgs = Altered(final_proof.of.msgs, j, prover_msgs[j].alt)
           => v_round = RefusedRound(j)]_vars
  BY RefusalStep
<1> QED BY <1>1, Inductive, UntouchedInductive, ConstTermsPassedInductive, PTL
        DEF Spec, AlterationRefusedInRound

-----------------------------------------------------------------------------
(* ProofSystem's "delivered", and what a step of the protocol does to it.   *)
Delivered ==
  IF v_pc \in {"none", "refused"} THEN "nothing"
  ELSE IF statement = "same" /\ final_proof.alt = "no"
          /\ prover_msgs = final_proof.of.msgs THEN "genuine"
  ELSE "other"

(* A call of verify() ends in a step of the abstract specification.         *)
LEMMA ReturnJudges ==
  ASSUME IndInv, [Next]_vars, NEW v \in {"accept", "reject", "throw"},
         Verifying, Return(v), v = "accept" => Delivered = "genuine"
  PROVE  System!Judge
<1>1. UNCHANGED <<statement, prover_msgs, final_proof>> /\ v_pc' = "idle"
  BY DEF Return
<1>2. Delivered' = Delivered /\ Delivered # "nothing"
  BY <1>1 DEF Delivered, Verifying
<1>3. verdicts' = Append(verdicts, v)
  BY DEF Return
<1> QED BY <1>2, <1>3 DEF System!Judge, System!Verdicts, Delivered

(* verify() implements the promise of ProofSystem: whatever the calls, the  *)
(* failures and the alterations, only a genuine proof is accepted.          *)
THEOREM Refinement == Spec => ImplementsProofSystem
<1>1. Init => System!Init
  BY DEF Init, System!Init
<1>2. ASSUME IndInv, [Next]_vars
      PROVE  [System!Next]_(<<Delivered, verdicts>>)
  <2>1. CASE UNCHANGED v_vars
    BY <2>1 DEF v_vars, Delivered
  <2>2. CASE \E msgs \in Transmitted(proof.msgs), fault \in Faults : Construct(msgs, fault)
    <3>1. v_pc = "none" /\ UNCHANGED verdicts
      BY <2>2 DEF Construct
    <3> QED BY <3>1 DEF System!Next, System!Deliver, Delivered
  <2>3. CASE CallVerify \/ CreateTranscript \/ \E luck \in BOOLEAN : PartVerifyPasses(luck)
    <3>1. /\ UNCHANGED <<statement, prover_msgs, final_proof, verdicts>>
          /\ v_pc \notin {"none", "refused"} /\ v_pc' \notin {"none", "refused"}
      BY <2>3 DEF CallVerify, CreateTranscript, PartVerifyPasses
    <3> QED BY <3>1 DEF Delivered
  <2>4. CASE \E luck \in BOOLEAN : PartVerifyFails(luck)
    <3>1. PICK v \in {"throw", "reject"} : v_pc = "part" /\ Return(v)
      BY <2>4 DEF PartVerifyFails
    <3>2. System!Judge
      BY <1>2, <3>1, ReturnJudges DEF Verifying
    <3> QED BY <3>2 DEF System!Next
  <2>5. CASE VerifyBaseProof
    <3>1. PICK v \in {"throw", "reject", "accept"} :
            v_pc = "final" /\ Return(v) /\ (v = "accept" => EquationsHold)
      BY <2>5 DEF VerifyBaseProof
    <3>2. ASSUME v = "accept" PROVE Delivered = "genuine"
      <4>1. EquationsHold
        BY <3>1, <3>2
      <4>2. /\ Len(v_seeds) = ProofLen
            /\ Len(prover_msgs) = ProofLen /\ Len(final_proof.of.msgs) = ProofLen
        BY <1>2, <3>1, RecAssumption
           DEF IndInv, Lockstep, VerifierLockstep, ProofChained, ProofLen, RoundLen, Verifying
      <4>3. SameUpTo(ProofLen)
        <5>1. ProofLen \in 1 .. ProofLen
          BY RecAssumption DEF ProofLen, RoundLen
        <5> QED BY <1>2, <4>1, <4>2, <5>1 DEF IndInv, SeedsAgreeExactly, EquationsHold
      <4>4. prover_msgs \in Seq(Message) /\ final_proof.of.msgs \in Seq(Message)
        BY <1>2 DEF IndInv, TypeOK, ProofType
      <4>5. prover_msgs = final_proof.of.msgs
        BY <4>2, <4>3, <4>4 DEF SameUpTo
      <4> QED BY <3>1, <4>1, <4>5 DEF EquationsHold, Delivered
    <3>3. System!Judge
      BY <1>2, <3>1, <3>2, ReturnJudges DEF Verifying
    <3> QED BY <3>3 DEF System!Next
  <2>6. \/ UNCHANGED v_vars \/ VerifyBaseProof
        \/ \E msgs \in Transmitted(proof.msgs), fault \in Faults : Construct(msgs, fault)
        \/ CallVerify \/ CreateTranscript
        \/ \E luck \in BOOLEAN : PartVerifyFails(luck) \/ PartVerifyPasses(luck)
    <3>1. CASE ProverNext \/ UNCHANGED vars
      BY <3>1 DEF ProverNext, CallProve, SendU1, SendJL, SendBAgg, SendU2, Send, Fold,
                  FoldThrows, ReturnProof, vars
    <3> QED BY <1>2, <3>1 DEF Next, VerifierNext
  <2> QED BY <2>1, <2>2, <2>3, <2>4, <2>5, <2>6
<1> QED BY <1>1, <1>2, Inductive, PTL DEF Spec, ImplementsProofSystem, System!Spec, Delivered
=============================================================================
