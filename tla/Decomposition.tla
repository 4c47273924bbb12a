---------------------------- MODULE Decomposition ----------------------------
(***************************************************************************)
(* Balanced base-b decomposition and recomposition of a vector over Zq,    *)
(* as the CPU backend computes them: the vector is cut into tasks of       *)
(* TaskSize elements that run in any order, each task makes one pass over  *)
(* its block per digit, and the output is digit-major.  The protocol uses  *)
(* it for t, g and h (compute_nof_digits digits) and, with two digits      *)
(* only, for z when a round is folded into the next one.                   *)
(***************************************************************************)
EXTENDS Digits, FiniteSets

CONSTANTS
  TaskSize,  \* elements per task (256 in the code)
  Bases,     \* decomposition bases to consider
  Inputs,    \* input vectors, functions from 0 .. n - 1 to Zq
  MaxDigits  \* largest number of digits the caller's output buffer holds

ASSUME DecompAssumption ==
  /\ TaskSize \in Nat \ {0} /\ MaxDigits \in Nat \ {0}
  /\ \A b \in Bases : b \in Nat \ {0}
  /\ \A v \in Inputs :
       IsFiniteSet(DOMAIN v) /\ v \in [0 .. Cardinality(DOMAIN v) - 1 -> 0 .. Q - 1]

VARIABLES
  input,     \* the vector to decompose
  base,      \* the base b
  digits,    \* output_size / input_size
  remainder, \* what is left of every element
  passes,    \* digit passes each task has made
  output,    \* digit-major digits: output[k][e]
  restored,  \* the recomposed vector
  recomposed,\* tasks of the recomposition that have run
  status     \* "running", "SUCCESS" or "INVALID_ARGUMENT"

decomp_vars == <<input, base, digits, remainder, passes, output, restored, recomposed, status>>

Unset == -1
Elements == DOMAIN input
NofElements == Cardinality(Elements)
NofTasks == (NofElements + TaskSize - 1) \div TaskSize
DigitTasks == 0 .. NofTasks - 1
\* The block [start, end) of a task; the last one may be partial.
Block(t) ==
  LET end == (t + 1) * TaskSize
  IN  {e \in Elements : t * TaskSize <= e /\ e < end}

-----------------------------------------------------------------------------
DecompInit ==
  /\ input \in Inputs
  /\ base \in Bases
  /\ digits \in 1 .. MaxDigits
  /\ remainder = input
  /\ passes = [t \in DigitTasks |-> 0]
  /\ output = [k \in 0 .. digits - 1 |-> [e \in Elements |-> Unset]]
  /\ restored = [e \in Elements |-> Unset]
  /\ recomposed = {}
  /\ status = "running"

\* verify_params: an empty vector or a base below two is refused at once.
Reject ==
  /\ status = "running" /\ passes = [t \in DigitTasks |-> 0]
  /\ base <= 1 \/ NofElements = 0
  /\ status' = "INVALID_ARGUMENT"
  /\ UNCHANGED <<input, base, digits, remainder, passes, output, restored, recomposed>>

\* One pass of a task over its block, for its next digit.
DigitPass(t) ==
  LET k == passes[t]
      Step(e) == DigitStep(remainder[e], base)
  IN  /\ status = "running" /\ base > 1
      /\ k < digits
      /\ remainder' = [e \in Elements |->
                         IF e \in Block(t) THEN Step(e).rest ELSE remainder[e]]
      /\ output' = [output EXCEPT ![k] =
                      [e \in Elements |->
                         IF e \in Block(t) THEN Step(e).digit ELSE @[e]]]
      /\ passes' = [passes EXCEPT ![t] = k + 1]
      /\ UNCHANGED <<input, base, digits, restored, recomposed, status>>

Decomposed == \A t \in DigitTasks : passes[t] = digits

\* A task of the recomposition, started once the decomposition has returned.
RecomposeTask(t) ==
  /\ status = "running" /\ base > 1 /\ NofElements > 0
  /\ Decomposed
  /\ t \notin recomposed
  /\ restored' = [e \in Elements |->
                    IF e \in Block(t) THEN Horner(output, e, base, digits)
                                      ELSE restored[e]]
  /\ recomposed' = recomposed \cup {t}
  /\ status' = IF recomposed' = DigitTasks THEN "SUCCESS" ELSE status
  /\ UNCHANGED <<input, base, digits, remainder, passes, output>>

DecompNext == Reject \/ \E t \in DigitTasks : DigitPass(t) \/ RecomposeTask(t)

DecompSpec == DecompInit /\ [][DecompNext]_decomp_vars
-----------------------------------------------------------------------------
\* The loop invariant of cpu_decompose_balanced_digits: whatever the order of
\* the tasks, the digits written so far plus the remainder, each at its weight,
\* still stand for the element.
DigitsAndRemainder ==
  base > 1 =>
    \A t \in DigitTasks : \A e \in Block(t) :
      LET k == passes[t] IN
      (Horner(output, e, base, k) + remainder[e] * Power(base, k) - input[e]) % Q = 0

\* What the verifier's LInfinity check is told, (base + 1) / 2 + 1 with a strict
\* comparison, is satisfied by every digit an honest prover sends.
HonestDigitsPassNormCheck ==
  \A k \in 0 .. digits - 1, e \in Elements :
    LET x == output[k][e] IN
    x # Unset => (IF x > Q \div 2 THEN Q - x ELSE x) < (base + 1) \div 2 + 1

\* Recomposing returns the input exactly when its digits can express it: always
\* with the number of digits the protocol allocates, so that no carry is lost past
\* the last one; with fewer, which are accepted with a warning only, on the
\* interval outside which prepare_recursion_witness throws "Parameter Choice Error".
RoundTripExactly ==
  status = "SUCCESS" =>
    \A e \in Elements :
      LET unit == (Power(base, digits) - 1) \div (base - 1)
          x    == IF input[e] > Q \div 2 THEN input[e] - Q ELSE input[e]
          fits == -((base - 1) \div 2) * unit <= x /\ x <= (base \div 2) * unit
      IN  IF digits >= compute_nof_digits(base) THEN restored[e] = input[e]
          ELSE base > 2 => (restored[e] = input[e] <=> fits)
=============================================================================
