----------------------------- MODULE JLSelection -----------------------------
(***************************************************************************)
(* select_valid_jl_proj and its counterpart on the verifier's side.  The   *)
(* prover tries projections seeded by seed1 and one more byte until the    *)
(* norm of the projected witness passes; the number of the projection      *)
(* travels to the verifier as a size_t and is cut to a byte again there.   *)
(* What the norm check says of a projection is data: it is chosen once,    *)
(* as a function of the byte, since the projection is.                     *)
(***************************************************************************)
EXTENDS Integers

CONSTANTS
  Bytes,  \* values of std::byte (256 in the code)
  Word    \* values of size_t, where JL_i wraps

ASSUME WidthAssumption ==
  /\ Bytes \in Nat \ {0} /\ Word \in Nat \ {0}
  /\ Word % Bytes = 0

Answer == {"small", "large", "error"}
Byte == 0 .. Bytes - 1

VARIABLES
  pc,     \* "project", "check", "sent", "accept", "reject" or "throw"
  norm,   \* check_norm_bound of the projection of each seed byte
  JL_i,   \* the loop counter, then the message
  seed,   \* the byte on top of seed1: the projection p was computed with
  tried,  \* bytes whose projection was found large
  rows    \* the byte the verifier regenerates its matrix rows from

jl_vars == <<pc, norm, JL_i, seed, tried, rows>>

JLInit ==
  /\ pc = "project"
  /\ norm \in [Byte -> Answer]
  /\ JL_i = 0 /\ seed = 0 /\ tried = {} /\ rows = 0

ToByte(i) == i % Bytes

\* push_back(std::byte(JL_i)), then the projection itself.
Project ==
  /\ pc = "project" /\ pc' = "check"
  /\ seed' = ToByte(JL_i)
  /\ UNCHANGED <<norm, JL_i, tried, rows>>

\* JL_check starts as true and an exception leaves it so.
Passes(answer) == answer \in {"small", "error"}

\* Mutant: the counter is increased before the loop is left.
CheckPassesNext ==
  /\ pc = "check" /\ Passes(norm[seed])
  /\ pc' = "sent"
  /\ JL_i' = (JL_i + 1) % Word
  /\ UNCHANGED <<norm, seed, tried, rows>>

CheckPasses ==
  /\ pc = "check" /\ Passes(norm[seed])
  /\ pc' = "sent"
  /\ UNCHANGED <<norm, JL_i, seed, tried, rows>>

\* Mutants: the counter skips a projection, or stays.
CheckFailsBy(k) ==
  /\ pc = "check" /\ ~Passes(norm[seed])
  /\ pc' = "project"
  /\ JL_i' = (JL_i + k) % Word
  /\ tried' = tried \cup {seed}
  /\ UNCHANGED <<norm, seed, rows>>
CheckFailsSkips == CheckFailsBy(2)
CheckFailsStays == CheckFailsBy(0)

CheckFails ==
  /\ pc = "check" /\ ~Passes(norm[seed])
  /\ pc' = "project"
  /\ JL_i' = (JL_i + 1) % Word
  /\ tried' = tried \cup {seed}
  /\ UNCHANGED <<norm, seed, rows>>

\* part_verify checks the norm of the p it was sent, here without catching, and
\* agg_const_zero_constraints regenerates the rows from seed1 and JL_i.
Verify ==
  /\ pc = "sent"
  /\ rows' = ToByte(JL_i)
  /\ pc' = CASE norm[seed] = "small" -> "accept"
             [] norm[seed] = "large" -> "reject"
             [] norm[seed] = "error" -> "throw"
  /\ UNCHANGED <<norm, JL_i, seed, tried>>

JLNext == Project \/ CheckPasses \/ CheckFails \/ Verify

JLSpec == JLInit /\ [][JLNext]_jl_vars /\ WF_jl_vars(JLNext)
-----------------------------------------------------------------------------
Judged == pc \in {"accept", "reject", "throw"}

TypeOK ==
  /\ pc \in {"project", "check", "sent", "accept", "reject", "throw"}
  /\ JL_i \in 0 .. Word - 1 /\ seed \in Byte /\ rows \in Byte /\ tried \subseteq Byte

\* The number sent fits the byte it is cut to: no projection is ever tried twice
\* before one is returned, every one before it was found large, and the verifier
\* does not refuse it for its norm: only the error select_valid_jl_proj has
\* swallowed comes back, as an exception of verify().  The verifier's rows are those
\* p was computed with, although only JL_i, and not the seed, is sent.
FirstThatPasses ==
  pc \in {"sent", "accept", "reject", "throw"} =>
    /\ JL_i = seed /\ seed \notin tried
    /\ \A b \in Byte : b < JL_i => norm[b] = "large"
    /\ pc # "reject" /\ (Judged => rows = seed)

\* The loop ends if one of the projections a byte can name passes; otherwise it
\* has no way out, it tries the same ones for ever.
EndsExactlyIfOnePasses ==
  /\ (\E b \in Byte : norm[b] # "large") => <>Judged
  /\ (\A b \in Byte : norm[b] = "large") => [](pc \in {"project", "check"})
=============================================================================
