---------------------------- MODULE ProofSystem ----------------------------
(***************************************************************************)
(* What the pair LabradorProver / LabradorVerifier promises its user: a    *)
(* proof reaches the verifier either exactly as a prover made it for the   *)
(* verifier's own statement, or not; the verifier may be asked several     *)
(* times, and may accept only in the first case.                           *)
(***************************************************************************)
EXTENDS Sequences

VARIABLES
  delivered,  \* "nothing", "genuine" or "other"
  verdicts    \* the answers of verify(), in order

Verdicts == {"accept", "reject", "throw"}

Init == delivered = "nothing" /\ verdicts = <<>>

Deliver ==
  /\ delivered = "nothing"
  /\ delivered' \in {"genuine", "other"}
  /\ UNCHANGED verdicts

Judge ==
  /\ delivered # "nothing"
  /\ \E v \in Verdicts :
       /\ v = "accept" => delivered = "genuine"
       /\ verdicts' = Append(verdicts, v)
  /\ UNCHANGED delivered

Next == Deliver \/ Judge

Spec == Init /\ [][Next]_<<delivered, verdicts>>
=============================================================================
