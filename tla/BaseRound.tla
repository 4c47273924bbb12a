------------------------------ MODULE BaseRound ------------------------------
(***************************************************************************)
(* One round of the protocol, with its arithmetic: base_case_prover builds *)
(* the messages and the proof for a witness S, and the verifier runs       *)
(* part_verify and _verify_base_proof on them.  Every challenge is drawn   *)
(* once and shared by both sides; that the two sides do derive the same    *)
(* challenges is the subject of module Labrador.                           *)
(*                                                                         *)
(* The prover runs the code of the repository on any witness, also on one  *)
(* that does not satisfy the instance, and it may claim a projection that  *)
(* is not the witness's.  The proof may be altered in one entry on its way *)
(* to the verifier.                                                        *)
(***************************************************************************)
EXTENDS BaseProof

CONSTANTS
  PBound, ZBound,        \* the integer bounds given to the two L2 checks
  Shapes,                \* the a and phi parts of instances, [eq, cz]
  Slacks,                \* what is added to b of the first constraints
  Witnesses,             \* witness vectors, flat, over Rq
  Projections,           \* JL matrices the oracle may select
  FalseProjections,      \* projections a dishonest prover may claim instead
  Psis, Omegas,          \* aggregation challenges, one row per round
  Alphas, Challenges,    \* challenges of later steps, alphas and c
  Alterations            \* alterations of the proof, [part, at, by]

VARIABLES
  pc,
  S, inst,               \* the witness and the instance of both sides
  S_hat, G_hat, J,       \* prover: witness and Gram matrix in Tq, projection
  psi, omega, alpha, c_hat, \* the challenges
  msg,                   \* BaseProverMessages: u1, p, b_agg, u2
  prover_eq,             \* the equality constraints of the prover's instance
  verifier_eq,           \* the equality constraints of the verifier's instance
  proof,                 \* LabradorBaseCaseProof: z_hat, t, g, h
  altered,               \* the proof is not the prover's any more
  verdict                \* "none", "accept", "reject" or "throw"

vars == <<pc, S, inst, S_hat, G_hat, J, psi, omega, alpha, c_hat, msg,
          prover_eq, verifier_eq, proof, altered, verdict>>

None == <<>>
\* An instance the witness satisfies, as create_rand_eq_inst and
\* create_rand_const_zero_inst build it, with a slack on the first b.
BuildInstance(shape, W_hat, slack) ==
  LET Value(con) == Eval(con, W_hat, Gram(W_hat, R, N), R, N)
  IN  [eq |-> [k \in DOMAIN shape.eq |->
                 [a |-> shape.eq[k].a, phi |-> shape.eq[k].phi,
                  b |-> AddP(NegP(Value(shape.eq[k])),
                             IF k = 1 THEN slack.eq ELSE ZeroPoly)]],
       cz |-> [k \in DOMAIN shape.cz |->
                 [a |-> shape.cz[k].a, phi |-> shape.cz[k].phi,
                  b |-> (Intt(NegP(Value(shape.cz[k])))[0]
                           + IF k = 1 THEN slack.cz ELSE 0) % Q]]]

-----------------------------------------------------------------------------
Init ==
  /\ pc = "commit"
  /\ S \in Witnesses
  /\ \E shape \in Shapes, slack \in Slacks :
       inst = BuildInstance(shape, VecNtt(S), slack)
  /\ S_hat = None /\ G_hat = None /\ J = None
  /\ psi = None /\ omega = None /\ alpha = None /\ c_hat = None
  /\ msg = [u1 |-> None, p |-> None, b_agg |-> None, u2 |-> None]
  /\ proof = [z_hat |-> None, t |-> None, g |-> None, h |-> None]
  /\ prover_eq = inst.eq /\ verifier_eq = inst.eq
  /\ altered = FALSE
  /\ verdict = "none"

\* base_case_prover, steps 2 to 8: commit to T = S A and to G = S S^t.
Commit ==
  LET T == VecIntt(ajtai_commitment(A, N, Kappa, VecNtt(S), R))
      g == VecIntt(extract_symm_part(Gram(VecNtt(S), R, N), R))
      t_tilde == decompose(T, R * Kappa, Base1, l1)
      g_tilde == decompose(g, PackedLen(R), Base2, l2)
  IN  /\ pc = "commit" /\ pc' = "project"
      /\ S_hat' = VecNtt(S)
      /\ G_hat' = Gram(VecNtt(S), R, N)
      /\ proof' = [proof EXCEPT !.t = t_tilde, !.g = g_tilde]
      /\ msg' = [msg EXCEPT !.u1 = CommitU1(t_tilde, g_tilde)]
      /\ UNCHANGED <<S, inst, J, psi, omega, alpha, c_hat, prover_eq, verifier_eq,
                     altered, verdict>>

\* select_valid_jl_proj keeps the first projection whose norm check does not
\* answer "large": an error of the check is swallowed and counts as success.
ProjectionNorm(p) == norm_L2(Len(p), [k \in 0 .. Len(p) - 1 |-> p[k + 1]], PBound)
SendProjection(mat, p) ==
  /\ pc = "project" /\ pc' = "aggconst"
  /\ J' = mat
  /\ msg' = [msg EXCEPT !.p = p]
  /\ UNCHANGED <<S, inst, S_hat, G_hat, psi, omega, alpha, c_hat, prover_eq,
                 verifier_eq, proof, altered, verdict>>
Project(mat) ==
  LET p == jl_projection(mat, S, R * N)
  IN  ProjectionNorm(p) # "large" /\ SendProjection(mat, p)
\* A prover that does not run select_valid_jl_proj.
ClaimProjection(mat, p) == SendProjection(mat, p)

\* The equality constraints added by one side: round k of
\* agg_const_zero_constraints for each row of psi, with b given by the caller.
Aggregated(ps, om, b(_)) ==
  [k \in DOMAIN ps |->
     LET con == agg_round(inst.cz, ps[k], om[k], J, R, N)
     IN  [con EXCEPT !.b = b(con)]]

\* Mutant: the aggregated constraints are put before the others.
AggregateConstZeroFirst(ps, om) ==
  LET added == Aggregated(ps, om, LAMBDA con : NegP(Eval(con, S_hat, G_hat, R, N)))
  IN  /\ pc = "aggconst" /\ pc' = "aggeq"
      /\ psi' = ps /\ omega' = om
      /\ prover_eq' = added \o inst.eq
      /\ msg' = [msg EXCEPT !.b_agg = [k \in DOMAIN added |-> added[k].b]]
      /\ UNCHANGED <<S, inst, S_hat, G_hat, J, alpha, c_hat, verifier_eq, proof,
                     altered, verdict>>

\* Steps 12 to 14: aggregate the constant-zero constraints, send their b.
AggregateConstZero(ps, om) ==
  LET added == Aggregated(ps, om, LAMBDA con : NegP(Eval(con, S_hat, G_hat, R, N)))
  IN  /\ pc = "aggconst" /\ pc' = "aggeq"
      /\ psi' = ps /\ omega' = om
      /\ prover_eq' = inst.eq \o added
      /\ msg' = [msg EXCEPT !.b_agg = [k \in DOMAIN added |-> added[k].b]]
      /\ UNCHANGED <<S, inst, S_hat, G_hat, J, alpha, c_hat, verifier_eq, proof,
                     altered, verdict>>

\* Steps 15 and 16.
AggregateEquality(al) ==
  /\ pc = "aggeq" /\ pc' = "commith"
  /\ alpha' = SubSeq(al, 1, Len(prover_eq))
  /\ prover_eq' = agg_equality_constraints(prover_eq, alpha', R, N)
  /\ UNCHANGED <<S, inst, S_hat, G_hat, J, psi, omega, c_hat, msg, verifier_eq,
                 proof, altered, verdict>>

\* Steps 17 to 19: H is the symmetric part of Phi S^t, committed to in u2.
CommitH ==
  LET PhiSt == VecIntt(matmul(prover_eq[1].phi, R, N, transpose(S_hat, R, N), R))
      H == [e \in 0 .. R * R - 1 |->
              ScaleP(InvZ(2), AddP(PhiSt[e], transpose(PhiSt, R, R)[e]))]
      h_tilde == decompose(extract_symm_part(H, R), PackedLen(R), Base3, l3)
  IN  /\ pc = "commith" /\ pc' = "respond"
      /\ proof' = [proof EXCEPT !.h = h_tilde]
      /\ msg' = [msg EXCEPT !.u2 = CommitU2(h_tilde)]
      /\ UNCHANGED <<S, inst, S_hat, G_hat, J, psi, omega, alpha, c_hat, prover_eq,
                     verifier_eq, altered, verdict>>

\* Steps 20 to 22: the amortised opening z = sum_i c_i s_i.
Respond(ch) ==
  /\ pc = "respond" /\ pc' = "send"
  /\ c_hat' = VecNtt(ch)
  /\ proof' = [proof EXCEPT !.z_hat = matmul(c_hat', 1, R, S_hat, N)]
  /\ UNCHANGED <<S, inst, S_hat, G_hat, J, psi, omega, alpha, msg, prover_eq,
                 verifier_eq, altered, verdict>>

Deliver ==
  /\ pc = "send" /\ pc' = "partverify"
  /\ UNCHANGED <<S, inst, S_hat, G_hat, J, psi, omega, alpha, c_hat, msg, prover_eq,
                 verifier_eq, proof, altered, verdict>>

\* One entry of the proof is not what the prover computed.
Alter(alt) ==
  /\ pc = "send" /\ pc' = "partverify"
  /\ alt.at \in DOMAIN proof[alt.part]
  /\ proof' = [proof EXCEPT ![alt.part][alt.at] = AddP(@, alt.by)]
  /\ altered' = TRUE
  /\ UNCHANGED <<S, inst, S_hat, G_hat, J, psi, omega, alpha, c_hat, msg, prover_eq,
                 verifier_eq, verdict>>

-----------------------------------------------------------------------------
\* The constant term part_verify expects in b_agg of aggregation round k.
ExpectedB0(k) ==
  (SumZ(Len(inst.cz), LAMBDA l : psi[k][l + 1] * inst.cz[l + 1].b)
     + Neg(SumZ(Len(msg.p), LAMBDA l : omega[k][l + 1] * msg.p[l + 1]))) % Q

Stop(v) == pc' = "done" /\ verdict' = v /\ UNCHANGED verifier_eq

\* part_verify: norm of p, constant terms of b_agg, then both aggregations.
PartVerify ==
  /\ pc = "partverify"
  /\ LET norm == ProjectionNorm(msg.p)
         b0ok == \A k \in DOMAIN psi : ExpectedB0(k) = Intt(msg.b_agg[k])[0]
         added == [k \in DOMAIN psi |->
                     [agg_round(inst.cz, psi[k], omega[k], J, R, N)
                        EXCEPT !.b = msg.b_agg[k]]]
     IN  \/ norm = "error" /\ Stop("throw")
         \/ norm = "large" /\ Stop("reject")
         \/ norm = "small" /\ ~b0ok /\ Stop("reject")
         \/ /\ norm = "small" /\ b0ok
            /\ verifier_eq' = agg_equality_constraints(verifier_eq \o added, alpha, R, N)
            /\ pc' = "verify"
            /\ UNCHANGED verdict
  /\ UNCHANGED <<S, inst, S_hat, G_hat, J, psi, omega, alpha, c_hat, msg, prover_eq,
                 proof, altered>>

\* The LInfinity checks of _verify_base_proof.  The bound of h is taken from
\* base2 and the bound of g from base3.
DigitsSmall ==
  /\ norm_LInf(proof.t, (Base1 + 1) \div 2 + 1)
  /\ norm_LInf(proof.h, (Base2 + 1) \div 2 + 1)
  /\ norm_LInf(proof.g, (Base3 + 1) \div 2 + 1)

\* An array of N polynomials read as one of N * d residues.
Coefficients(x) == [k \in 0 .. N * Deg - 1 |-> x[k \div Deg][k % Deg]]

VerifyBaseProof ==
  LET z    == VecIntt(proof.z_hat)
      norm == norm_L2(N * Deg, Coefficients(z), ZBound)
      equations == Equations(proof, msg.u1, msg.u2, c_hat, verifier_eq[1])
  IN  /\ pc = "verify"
      /\ \/ ~DigitsSmall /\ Stop("reject")
         \/ DigitsSmall /\ norm = "error" /\ Stop("throw")
         \/ DigitsSmall /\ norm = "large" /\ Stop("reject")
         \/ DigitsSmall /\ norm = "small" /\ ~equations /\ Stop("reject")
         \/ DigitsSmall /\ norm = "small" /\ equations /\ Stop("accept")
      /\ UNCHANGED <<S, inst, S_hat, G_hat, J, psi, omega, alpha, c_hat, msg, prover_eq,
                     proof, altered>>

Next ==
  \/ Commit
  \/ \E mat \in Projections : Project(mat)
  \/ \E mat \in Projections, p \in FalseProjections : ClaimProjection(mat, p)
  \/ \E ps \in Psis, om \in Omegas : AggregateConstZero(ps, om)
  \/ \E al \in Alphas : AggregateEquality(al)
  \/ CommitH
  \/ \E ch \in Challenges : Respond(ch)
  \/ Deliver
  \/ \E alt \in Alterations : Alter(alt)
  \/ PartVerify
  \/ VerifyBaseProof

Spec == Init /\ [][Next]_vars
-----------------------------------------------------------------------------
\* By how much the witness misses the constraints of the instance.
EqDefect(k) == AddP(Eval(inst.eq[k], S_hat, G_hat, R, N), inst.eq[k].b)
CzDefect(l) == (Intt(Eval(inst.cz[l], S_hat, G_hat, R, N))[0] + inst.cz[l].b) % Q

ZNorm ==
  LET z == VecIntt(proof.z_hat)
  IN  norm_L2(N * Deg, Coefficients(z), ZBound)

\* By how much the claimed projection misses that of the witness.
PDefect(j) == (msg.p[j] + Neg(jl_projection(J, S, R * N)[j])) % Q

\* psi and omega of aggregation round k annihilate the defects.
Annihilates(k) ==
  SumZ(Len(inst.cz), LAMBDA l : psi[k][l + 1] * CzDefect(l + 1))
    = SumZ(Len(msg.p), LAMBDA j : omega[k][j + 1] * PDefect(j + 1))

\* Completeness of the code: a witness of the instance, put through
\* base_case_prover and delivered as it is, is accepted whenever its projection
\* and its amortised opening meet the two L2 bounds.
Completeness ==
  pc = "done" /\ ~altered /\ ProjectionNorm(msg.p) = "small" /\ ZNorm = "small"
    /\ msg.p = jl_projection(J, S, R * N) /\ lab_witness_legit(inst, S_hat, R, N)
  => verdict = "accept"

\* The constant-term check of part_verify answers for the constant-zero
\* constraints and for p exactly: on what base_case_prover sends it fails in an
\* aggregation round if and only if psi and omega do not annihilate the defects.
\* It is where the conjugated rows of the prover's and the verifier's
\* get_jl_matrix_rows must fit the plain rows of jl_projection.
ConstTermCheckExact ==
  pc = "partverify" =>
    \A k \in DOMAIN psi : ExpectedB0(k) = Intt(msg.b_agg[k])[0] <=> Annihilates(k)

\* A prover that runs the code on a witness of something else is accepted only
\* when the random combinations annihilate every defect: the equality
\* constraints are all aggregated, each with its own alpha, b included.
AcceptsOnlyAnnihilatedDefects ==
  verdict = "accept" =>
    /\ SumP(Len(inst.eq), LAMBDA k : MulT(alpha[k + 1], EqDefect(k + 1))) = ZeroPoly
    /\ \A k \in DOMAIN psi : Annihilates(k)

\* The prover and the verifier aggregate separately, the prover computing b and
\* the verifier reading it from b_agg: they must end with the same constraint.
SidesAggregateAlike == pc = "verify" => verifier_eq = prover_eq

\* Every entry of z, t, g and h is pinned down by u1, u2 and A: with one entry
\* altered the proof is never accepted.
AlteredProofNotAccepted == altered => verdict # "accept"
=============================================================================
