------------------------- MODULE MC_RandomSampling -------------------------
(* One to three workers.  Up to nine elements in at most three chains, or    *)
(* two to a hash, so that the last chain, hash and worker may have less      *)
(* than their share or nothing; two batches; three challenges of degree      *)
(* four with two retries, and shapes that use none to all coefficients.      *)
EXTENDS RandomSampling

Random == [mode : {"fast", "slow"}, size : 0 .. 5, batch : {1, 2}, workers : 1 .. 3,
           ones : {0}, twos : {0}, norm : {FALSE}]
            \cup [mode : {"fast", "slow"}, size : {7, 9}, batch : {1}, workers : {2, 3},
                  ones : {0}, twos : {0}, norm : {FALSE}]
Challenge == [mode : {"challenge"}, size : 0 .. 3, batch : {1}, workers : 1 .. 3,
              ones : {2}, twos : {1}, norm : {TRUE}]
Mixtures == {[mode |-> "challenge", size |-> m[1], batch |-> 1, workers |-> 2,
              ones |-> m[2], twos |-> m[3], norm |-> FALSE] :
               m \in {<<1, 0, 0>>, <<1, 0, 2>>, <<2, 1, 1>>, <<1, 2, 1>>, <<1, 1, 3>>, <<2, 2, 3>>}}
MCCalls == Random \cup Challenge \cup Mixtures
=============================================================================
