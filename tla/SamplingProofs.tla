--------------------------- MODULE SamplingProofs ---------------------------
(***************************************************************************)
(* What prover and verifier draw at random is the same on both sides: the  *)
(* elements of a call of the sampling functions, for any size, any number  *)
(* of workers and any order of their tasks.                                *)
(***************************************************************************)
EXTENDS RandomSampling, JLSelection, TLAPS

-----------------------------------------------------------------------------
(* Which task writes a place of the batch, at which of its iterations, and  *)
(* what, when the call is not one for challenges.                           *)
chain_size(c) == Ceil(c.size, NofTasks)
hashes(c) == AtLeastOne(Ceil(c.size, ElementsPerHash))
share(c) == Ceil(hashes(c), nof_workers(c))

Owner(c, e) ==
  CASE c.mode = "fast" -> e \div chain_size(c)
    [] c.mode = "slow" -> (e \div ElementsPerHash) \div share(c)
    [] c.mode = "challenge" -> e
Turn(c, e) ==
  CASE c.mode = "fast" -> e % chain_size(c)
    [] c.mode = "slow" -> (e \div ElementsPerHash) % share(c)
Element(c, k, e) ==
  CASE c.mode = "fast" -> <<k, e \div chain_size(c), e % chain_size(c)>>
    [] c.mode = "slow" -> <<k, e \div ElementsPerHash, e % ElementsPerHash>>

(* What the place holds when the tasks are at n: its element, or the        *)
(* challenge tried last, from the moment it was written.                    *)
Place(c, k, n, e) ==
  IF c.mode = "challenge" THEN IF n[e] > 0 THEN <<e, n[e] - 1>> ELSE Empty
  ELSE IF Turn(c, e) < n[Owner(c, e)] THEN Element(c, k, e) ELSE Empty

(* What memory holds during batch k: the batches before are complete.       *)
Filled(c, k, n, x) ==
  IF x < k * c.size THEN Element(c, x \div c.size, x % c.size)
  ELSE IF x < k * c.size + c.size THEN Place(c, k, n, x - k * c.size) ELSE Empty

(* The call has nothing to do.                                              *)
Nothing == outcome \in {"INVALID_ARGUMENT", "divided by zero"} \/ Batches(call) = 0
Normed == call.mode = "challenge" /\ call.norm

(* A call that works: each task has written the places of the iterations    *)
(* behind it, and one that no worker has or will take has no other, unless  *)
(* a task gave up.                                                          *)
Flow ==
  /\ b \in 0 .. Batches(call) - 1
  /\ ~DividesByZero(call)
  /\ next \in [tasks(call) -> Nat]
  /\ waiting \subseteq tasks(call) /\ running \subseteq tasks(call)
  /\ \A t \in tasks(call) \ (waiting \cup running) : GaveUp \/ ~Continues(t)
  /\ \A x \in 0 .. Cells - 1 : output[x] = Filled(call, b, next, x)
  /\ outcome = "SUCCESS" => waiting = {} /\ running = {} /\ b + 1 = Batches(call)
TriedLarge ==
  call.mode = "challenge" =>
    \A p \in tasks(call) :
      IF call.norm THEN next[p] <= MaxRetry => \A r \in 0 .. MaxRetry : r + 1 < next[p] => ~small[p][r]
      ELSE next[p] <= 1

IndInv ==
  /\ call \in Calls
  /\ outcome \in {"running", "SUCCESS", "INVALID_ARGUMENT", "divided by zero"}
  /\ output = [x \in 0 .. Cells - 1 |-> output[x]]
  /\ Normed => small \in [0 .. call.size - 1 -> [0 .. MaxRetry -> BOOLEAN]]
  /\ Nothing => /\ b = 0 /\ waiting = {} /\ running = {}
                /\ \A x \in 0 .. Cells - 1 : output[x] = Empty
  /\ ~Nothing => Flow /\ TriedLarge

-----------------------------------------------------------------------------
(* Euclid.                                                                  *)
LEMMA Euclid ==
  ASSUME NEW a \in Nat, NEW d \in Nat \ {0}
  PROVE  /\ a \div d \in Nat /\ a % d \in 0 .. d - 1
         /\ a = (a \div d) * d + (a % d)
<1>1. a \div d \in Nat /\ a % d \in 0 .. d - 1
  OBVIOUS
<1>2. a % d = a - d * (a \div d)
  OBVIOUS
<1>3. d * (a \div d) = (a \div d) * d /\ (a \div d) * d \in Nat
  BY <1>1
<1> QED BY <1>1, <1>2, <1>3

(* The larger of two multiples is larger by one divisor at least.           *)
LEMMA MultiplesApart ==
  ASSUME NEW s \in Nat, NEW t \in Nat, NEW d \in Nat, s < t
  PROVE  s * d + d <= t * d
<1>1. PICK k \in Nat : t = s + 1 + k
  <2>1. t - s - 1 \in Nat /\ t = s + 1 + (t - s - 1)
    OBVIOUS
  <2> QED BY <2>1
<1>2. t * d = s * d + d + k * d /\ k * d \in Nat /\ s * d \in Nat /\ t * d \in Nat
  BY <1>1
<1> QED BY <1>2

(* Quotient and remainder are the only ones.                                *)
LEMMA Quotient ==
  ASSUME NEW t \in Nat, NEW d \in Nat \ {0}, NEW i \in 0 .. d - 1
  PROVE  (t * d + i) \div d = t /\ (t * d + i) % d = i
<1> DEFINE a == t * d + i
           q == a \div d
           r == a % d
<1>1. t * d \in Nat /\ a \in Nat
  OBVIOUS
<1>2. q \in Nat /\ r \in 0 .. d - 1 /\ a = q * d + r /\ q * d \in Nat
  <2>1. q \in Nat /\ r \in 0 .. d - 1 /\ a = q * d + r
    BY ONLY <1>1, Euclid, d \in Nat \ {0}
  <2> HIDE DEF q
  <2>2. q * d \in Nat
    BY <2>1
  <2> QED BY <2>1, <2>2
<1>3. ~(q < t)
  <2> SUFFICES ASSUME q < t PROVE FALSE
    OBVIOUS
  <2>1. q * d + d <= t * d
    BY <1>2, MultiplesApart
  <2> QED BY <1>1, <1>2, <2>1
<1>4. ~(t < q)
  <2> SUFFICES ASSUME t < q PROVE FALSE
    OBVIOUS
  <2>1. t * d + d <= q * d
    BY <1>2, MultiplesApart
  <2> QED BY <1>1, <1>2, <2>1
<1>5. q = t
  BY <1>2, <1>3, <1>4
<1>6. r = i
  BY <1>1, <1>2, <1>5
<1> QED BY <1>5, <1>6

(* A quotient is below a number when the dividend is below its multiple.    *)
LEMMA QuotientBelow ==
  ASSUME NEW a \in Nat, NEW d \in Nat \ {0}, NEW n \in Nat
  PROVE  a \div d < n <=> a < n * d
<1> DEFINE q == a \div d
<1>1. q \in Nat /\ a % d \in 0 .. d - 1 /\ a = q * d + (a % d) /\ q * d \in Nat /\ n * d \in Nat
  <2>1. q \in Nat /\ a % d \in 0 .. d - 1 /\ a = q * d + (a % d)
    BY Euclid
  <2> HIDE DEF q
  <2>2. q * d \in Nat /\ n * d \in Nat
    BY <2>1
  <2> QED BY <2>1, <2>2
<1>2. ASSUME q < n PROVE a < n * d
  <2>1. q * d + d <= n * d
    BY <1>1, <1>2, MultiplesApart
  <2> QED BY <1>1, <2>1
<1>3. ASSUME ~(q < n) PROVE ~(a < n * d)
  <2>1. CASE q = n
    BY <1>1, <2>1
  <2>2. CASE n < q
    <3>1. n * d + d <= q * d
      BY <1>1, <2>2, MultiplesApart
    <3> QED BY <1>1, <3>1
  <2> QED BY <1>1, <1>3, <2>1, <2>2
<1> QED BY <1>2, <1>3

(* A rounded-up share is enough, and not a whole divisor too much.          *)
LEMMA CeilCovers ==
  ASSUME NEW a \in Nat, NEW d \in Nat \ {0}
  PROVE  /\ Ceil(a, d) \in Nat /\ a <= Ceil(a, d) * d
         /\ a > 0 => Ceil(a, d) > 0
<1> DEFINE q == (a + d - 1) \div d
<1>1. a + d - 1 \in Nat
  OBVIOUS
<1>2. q \in Nat /\ (a + d - 1) % d \in 0 .. d - 1 /\ a + d - 1 = q * d + ((a + d - 1) % d)
  BY <1>1, Euclid
<1>3. q * d \in Nat
  BY <1>2
<1>4. a <= q * d
  BY <1>2, <1>3
<1>5. a > 0 => q # 0
  <2>1. q = 0 => q * d = 0
    OBVIOUS
  <2> QED BY <1>4, <2>1
<1> QED BY <1>2, <1>4, <1>5 DEF Ceil

-----------------------------------------------------------------------------
(* The parts of a call that works are not empty.                            *)
LEMMA PartsTyped ==
  ASSUME NEW c \in Calls, ~DividesByZero(c)
  PROVE  /\ c.size \in Nat /\ c.batch \in Nat /\ c.workers \in Nat \ {0}
         /\ c.mode \in {"fast", "slow", "challenge"} /\ c.norm \in BOOLEAN
         /\ c.mode = "fast" => c.size > 0 /\ chain_size(c) \in Nat \ {0}
                               /\ c.size <= chain_size(c) * NofTasks
         /\ hashes(c) \in Nat \ {0} /\ c.size <= hashes(c) * ElementsPerHash
         /\ c.mode = "slow" => /\ nof_workers(c) \in Nat \ {0} /\ share(c) \in Nat \ {0}
                               /\ hashes(c) <= share(c) * nof_workers(c)
         /\ c.mode = "challenge" => c.size > 0
<1>1. /\ c.size \in Nat /\ c.batch \in Nat /\ c.workers \in Nat \ {0}
      /\ c.mode \in {"fast", "slow", "challenge"} /\ c.norm \in BOOLEAN
      /\ c.mode \in {"fast", "challenge"} => c.size > 0
  BY SamplingAssumption DEF DividesByZero
<1>2. /\ NofTasks \in Nat \ {0} /\ ElementsPerHash \in Nat \ {0}
  BY SamplingAssumption
<1>3. c.mode = "fast" => chain_size(c) \in Nat \ {0} /\ c.size <= chain_size(c) * NofTasks
  BY <1>1, <1>2, CeilCovers DEF chain_size
<1>4. hashes(c) \in Nat \ {0} /\ c.size <= hashes(c) * ElementsPerHash
  <2> DEFINE h == Ceil(c.size, ElementsPerHash)
  <2>1. h \in Nat /\ c.size <= h * ElementsPerHash
    BY <1>1, <1>2, CeilCovers
  <2>2. CASE h > 1
    BY <2>1, <2>2 DEF hashes, AtLeastOne
  <2>3. CASE ~(h > 1)
    <3>1. hashes(c) = 1
      BY <2>3 DEF hashes, AtLeastOne
    <3>2. h = 0 \/ h = 1
      BY <2>1, <2>3
    <3> QED BY <1>1, <1>2, <2>1, <3>1, <3>2
  <2> QED BY <2>2, <2>3
<1>5. ASSUME c.mode = "slow"
      PROVE  /\ nof_workers(c) \in Nat \ {0} /\ share(c) \in Nat \ {0}
             /\ hashes(c) <= share(c) * nof_workers(c)
  <2>1. nof_workers(c) = Lesser(hashes(c), c.workers)
    BY <1>5 DEF nof_workers, hashes
  <2>2. nof_workers(c) \in Nat \ {0}
    BY <1>1, <1>4, <2>1 DEF Lesser
  <2> QED BY <1>4, <2>2, CeilCovers DEF share
<1> QED BY <1>1, <1>3, <1>4, <1>5

(* Every place has an owner among the tasks.                                *)
LEMMA OwnerWorks ==
  ASSUME NEW c \in Calls, ~DividesByZero(c), NEW e \in 0 .. c.size - 1
  PROVE  /\ Owner(c, e) \in tasks(c)
         /\ c.mode # "challenge" => Turn(c, e) \in Nat
<1>1. /\ c.size \in Nat /\ e \in Nat /\ e < c.size
      /\ NofTasks \in Nat \ {0} /\ ElementsPerHash \in Nat \ {0}
  BY PartsTyped, SamplingAssumption
<1>2. ASSUME c.mode = "fast" PROVE Owner(c, e) \in tasks(c) /\ Turn(c, e) \in Nat
  <2> DEFINE l == chain_size(c)
             n == Ceil(c.size, l)
  <2>1. c.size > 0 /\ l \in Nat \ {0} /\ c.size <= l * NofTasks /\ l * NofTasks = NofTasks * l
    BY <1>1, <1>2, PartsTyped
  <2>2. n \in Nat /\ c.size <= n * l
    BY <1>1, <2>1, CeilCovers
  <2>3. Owner(c, e) = e \div l /\ Turn(c, e) = e % l
    BY <1>2 DEF Owner, Turn
  <2>4. tasks(c) = 0 .. Lesser(n, NofTasks) - 1
    BY <1>2 DEF tasks, chain_size
  <2> HIDE DEF l, n
  <2>5. e < n * l /\ e < NofTasks * l
    <3>1. n * l \in Nat /\ NofTasks * l \in Nat
      BY <1>1, <2>1, <2>2
    <3> QED BY <1>1, <2>1, <2>2, <3>1
  <2>6. e \div l < n /\ e \div l < NofTasks /\ e \div l \in Nat /\ e % l \in 0 .. l - 1
    BY <1>1, <2>1, <2>2, <2>5, QuotientBelow, Euclid
  <2> QED BY <1>1, <2>2, <2>3, <2>4, <2>6 DEF Lesser
<1>3. ASSUME c.mode = "slow" PROVE Owner(c, e) \in tasks(c) /\ Turn(c, e) \in Nat
  <2> DEFINE l == share(c)
             n == nof_workers(c)
             i == e \div ElementsPerHash
  <2>1. /\ l \in Nat \ {0} /\ n \in Nat \ {0} /\ hashes(c) \in Nat /\ hashes(c) <= l * n
        /\ l * n = n * l /\ c.size <= hashes(c) * ElementsPerHash
    BY <1>1, <1>3, PartsTyped
  <2>2. Owner(c, e) = i \div l /\ Turn(c, e) = i % l /\ tasks(c) = 0 .. n - 1
    BY <1>3 DEF Owner, Turn, tasks
  <2> HIDE DEF l, n
  <2>3. i \in Nat /\ i < hashes(c)
    <3>1. hashes(c) * ElementsPerHash \in Nat
      BY <1>1, <2>1
    <3>2. e < hashes(c) * ElementsPerHash
      BY <1>1, <2>1, <3>1
    <3> QED BY <1>1, <2>1, <3>2, QuotientBelow, Euclid
  <2> HIDE DEF i
  <2>4. n * l \in Nat
    BY <2>1
  <2>5. i < n * l
    BY <2>1, <2>3, <2>4
  <2>6. i \div l < n /\ i \div l \in Nat /\ i % l \in 0 .. l - 1
    BY <2>1, <2>3, <2>5, QuotientBelow, Euclid
  <2> QED BY <2>1, <2>2, <2>6
<1>4. ASSUME c.mode = "challenge" PROVE Owner(c, e) \in tasks(c)
  BY <1>4 DEF Owner, tasks
<1> QED BY <1>2, <1>3, <1>4, PartsTyped

(* The share of a worker, in the words of the model.                        *)
LEMMA CallParts ==
  /\ size_per_task = chain_size(call) /\ hashes_per_batch = hashes(call)
  /\ hashes_per_worker = share(call)
BY DEF size_per_task, chain_size, hashes_per_batch, hashes, hashes_per_worker, share

(* An iteration writes the places that are its turn, with their elements.   *)
LEMMA WrittenIs ==
  ASSUME call \in Calls, ~DividesByZero(call), call.mode # "challenge",
         NEW t \in tasks(call), next[t] \in Nat, Continues(t)
  PROVE  /\ DOMAIN Written(t) = {e \in 0 .. call.size - 1 :
                                   Owner(call, e) = t /\ Turn(call, e) = next[t]}
         /\ \A e \in DOMAIN Written(t) : Written(t)[e] = Element(call, b, e)
<1> DEFINE i == next[t]
<1>1. /\ call.size \in Nat /\ i \in Nat
      /\ NofTasks \in Nat \ {0} /\ ElementsPerHash \in Nat \ {0}
  BY PartsTyped, SamplingAssumption
<1>2. ASSUME call.mode = "fast"
      PROVE  /\ DOMAIN Written(t) = {e \in 0 .. call.size - 1 :
                                       Owner(call, e) = t /\ Turn(call, e) = next[t]}
             /\ \A e \in DOMAIN Written(t) : Written(t)[e] = Element(call, b, e)
  <2> DEFINE l == chain_size(call)
             n == Ceil(call.size, l)
  <2>1. call.size > 0 /\ l \in Nat \ {0}
    BY <1>2, PartsTyped
  <2>2. /\ Written(t) = [e \in {t * l + i} |-> <<b, t, i>>]
        /\ i > 0 => i < l /\ t * l + i < call.size
    BY <1>2, CallParts DEF Written, Continues
  <2>3. \A e : /\ Owner(call, e) = e \div l /\ Turn(call, e) = e % l
               /\ Element(call, b, e) = <<b, e \div l, e % l>>
    BY <1>2 DEF Owner, Turn, Element
  <2>4. t \in Nat /\ t < Ceil(call.size, l)
    <3>1. tasks(call) = 0 .. Lesser(n, NofTasks) - 1
      BY <1>2 DEF tasks, chain_size
    <3>2. n \in Nat
      BY <1>1, <2>1, CeilCovers
    <3> QED BY <1>1, <3>1, <3>2 DEF Lesser
  <2> HIDE DEF l
  <2>5. i < l /\ t * l + i < call.size
    <3>1. CASE i > 0
      BY <2>2, <3>1
    <3>2. CASE i = 0
      <4>1. t * l < call.size
        <5>1. call.size + l - 1 \in Nat /\ n = (call.size + l - 1) \div l
          BY <1>1, <2>1 DEF Ceil
        <5>2. n \in Nat /\ n * l <= call.size + l - 1
          <6> DEFINE x == call.size + l - 1
          <6>1. x \in Nat /\ n = x \div l
            BY <5>1
          <6> HIDE DEF x, n
          <6>2. n \in Nat /\ x % l \in Nat /\ x = n * l + (x % l)
            <7>1. x \div l \in Nat /\ x % l \in 0 .. l - 1 /\ x = (x \div l) * l + (x % l)
              BY ONLY <2>1, <6>1, Euclid
            <7> QED BY <2>1, <6>1, <7>1
          <6>3. n * l <= x
            BY <2>1, <6>1, <6>2
          <6> QED BY <6>2, <6>3 DEF x
        <5>3. t * l + l <= n * l
          BY <2>1, <2>4, <5>2, MultiplesApart
        <5> HIDE DEF n, l
        <5>4. t * l \in Nat /\ n * l \in Nat
          BY <2>1, <2>4, <5>2
        <5> QED BY <1>1, <2>1, <5>2, <5>3, <5>4
      <4>2. t * l + i = t * l
        BY <2>1, <2>4, <3>2
      <4> QED BY <2>1, <3>2, <4>1, <4>2
    <3> QED BY <1>1, <3>1, <3>2
  <2> HIDE DEF l, n
  <2>6. i \in 0 .. l - 1 /\ t * l + i \in 0 .. call.size - 1
    <3>1. t * l \in Nat
      BY <2>1, <2>4
    <3> QED BY <1>1, <2>1, <2>5, <3>1
  <2>7. (t * l + i) \div l = t /\ (t * l + i) % l = i
    BY <2>1, <2>4, <2>6, Quotient
  <2>8. \A e \in 0 .. call.size - 1 : e \div l = t /\ e % l = i => e = t * l + i
    <3> TAKE e \in 0 .. call.size - 1
    <3>1. e \in Nat
      BY <1>1
    <3>2. e = (e \div l) * l + (e % l)
      BY <2>1, <3>1, Euclid
    <3> QED BY <3>2
  <2> HIDE DEF i
  <2>9. {e \in 0 .. call.size - 1 : Owner(call, e) = t /\ Turn(call, e) = i} = {t * l + i}
    BY <2>3, <2>6, <2>7, <2>8
  <2>10. DOMAIN Written(t) = {t * l + i} /\ Written(t)[t * l + i] = <<b, t, i>>
    BY <2>2
  <2> QED BY <2>3, <2>7, <2>9, <2>10 DEF i
<1>3. ASSUME call.mode = "slow"
      PROVE  /\ DOMAIN Written(t) = {e \in 0 .. call.size - 1 :
                                       Owner(call, e) = t /\ Turn(call, e) = next[t]}
             /\ \A e \in DOMAIN Written(t) : Written(t)[e] = Element(call, b, e)
  <2> DEFINE l == share(call)
             counter == t * l + i
             E == {counter * ElementsPerHash + k : k \in 0 .. ElementsPerHash - 1}
                    \cap 0 .. call.size - 1
  <2>1. l \in Nat \ {0} /\ t \in Nat
    BY <1>3, PartsTyped DEF tasks
  <2>2. /\ Written(t) = [e \in E |-> <<b, counter, e % ElementsPerHash>>]
        /\ i < l
    BY <1>3, CallParts DEF Written, Continues
  <2>3. \A e : /\ Owner(call, e) = (e \div ElementsPerHash) \div l
               /\ Turn(call, e) = (e \div ElementsPerHash) % l
               /\ Element(call, b, e) = <<b, e \div ElementsPerHash, e % ElementsPerHash>>
    BY <1>3 DEF Owner, Turn, Element
  <2> HIDE DEF l
  <2>4. i \in 0 .. l - 1 /\ counter \in Nat
    BY <1>1, <2>1, <2>2
  <2>5. counter \div l = t /\ counter % l = i
    BY <2>1, <2>4, Quotient
  <2>6. ASSUME NEW e \in E PROVE e \div ElementsPerHash = counter
    <3>1. PICK k \in 0 .. ElementsPerHash - 1 : e = counter * ElementsPerHash + k
      BY <2>6
    <3> HIDE DEF counter
    <3> QED BY <1>1, <2>4, <3>1, Quotient
  <2>7. ASSUME NEW e \in 0 .. call.size - 1, Owner(call, e) = t, Turn(call, e) = i PROVE e \in E
    <3> DEFINE h == e \div ElementsPerHash
               k == e % ElementsPerHash
    <3>1. h \in Nat /\ k \in 0 .. ElementsPerHash - 1 /\ e = h * ElementsPerHash + k
      <4>1. e \in Nat
        BY <1>1
      <4> QED BY <1>1, <4>1, Euclid
    <3>2. h \div l = t /\ h % l = i
      BY <2>3, <2>7
    <3> HIDE DEF h, k
    <3>3. h = counter
      <4>1. h = (h \div l) * l + (h % l)
        BY <2>1, <3>1, Euclid
      <4> QED BY <3>2, <4>1
    <3> QED BY <3>1, <3>3
  <2> HIDE DEF i, counter
  <2>8. DOMAIN Written(t) = E
    BY <2>2
  <2>9. \A e \in E : e \in 0 .. call.size - 1 /\ Owner(call, e) = t /\ Turn(call, e) = i
    BY <2>3, <2>5, <2>6
  <2>10. E = {e \in 0 .. call.size - 1 : Owner(call, e) = t /\ Turn(call, e) = i}
    BY <2>7, <2>9
  <2>11. \A e \in E : Written(t)[e] = Element(call, b, e)
    BY <2>2, <2>3, <2>6
  <2> QED BY <2>8, <2>10, <2>11 DEF i
<1> QED BY <1>2, <1>3, PartsTyped

(* A task that is through has written all its places.                       *)
LEMMA DoneWrote ==
  ASSUME call \in Calls, ~DividesByZero(call), call.mode # "challenge",
         NEW e \in 0 .. call.size - 1, next[Owner(call, e)] \in Nat,
         ~Continues(Owner(call, e))
  PROVE  Turn(call, e) < next[Owner(call, e)]
<1> DEFINE t == Owner(call, e)
           i == next[t]
           j == Turn(call, e)
<1>1. /\ call.size \in Nat /\ i \in Nat /\ e \in Nat /\ e < call.size
      /\ NofTasks \in Nat \ {0} /\ ElementsPerHash \in Nat \ {0}
  BY PartsTyped, SamplingAssumption
<1>2. ASSUME call.mode = "fast" PROVE j < i
  <2> DEFINE l == chain_size(call)
  <2>1. call.size > 0 /\ l \in Nat \ {0}
    BY <1>2, PartsTyped
  <2>2. i > 0 /\ (i >= l \/ t * l + i >= call.size)
    <3>1. ~(i > 0 => i < l /\ t * l + i < call.size)
      BY <1>2, CallParts DEF Continues
    <3>2. t \in Nat
      BY <1>2, OwnerWorks DEF tasks
    <3> HIDE DEF l, i, t
    <3>3. t * l \in Nat
      BY <2>1, <3>2
    <3> QED BY <1>1, <2>1, <3>1, <3>3
  <2>3. t = e \div l /\ j = e % l
    BY <1>2 DEF Owner, Turn
  <2> HIDE DEF l, t, i, j
  <2>4. t \in Nat /\ j \in 0 .. l - 1 /\ e = t * l + j
    <3>1. e \div l \in Nat /\ e % l \in 0 .. l - 1 /\ e = (e \div l) * l + (e % l)
      BY ONLY <1>1, <2>1, Euclid
    <3> QED BY <2>3, <3>1
  <2>5. t * l \in Nat
    BY <2>1, <2>4
  <2> QED BY <1>1, <2>1, <2>2, <2>4, <2>5
<1>3. ASSUME call.mode = "slow" PROVE j < i
  <2> DEFINE l == share(call)
             h == e \div ElementsPerHash
  <2>1. l \in Nat \ {0} /\ hashes(call) \in Nat /\ call.size <= hashes(call) * ElementsPerHash
    BY <1>3, PartsTyped
  <2>2. ~(i < l /\ t * l + i < hashes(call))
    BY <1>3, CallParts DEF Continues
  <2>3. t = h \div l /\ j = h % l
    BY <1>3 DEF Owner, Turn
  <2>4. h \in Nat /\ h < hashes(call)
    <3>1. hashes(call) * ElementsPerHash \in Nat
      BY <1>1, <2>1
    <3>2. e < hashes(call) * ElementsPerHash
      BY <1>1, <2>1, <3>1
    <3> QED BY <1>1, <2>1, <3>2, QuotientBelow, Euclid
  <2> HIDE DEF l, t, i, j, h
  <2>5. t \in Nat /\ j \in 0 .. l - 1 /\ h = t * l + j
    <3>1. h \div l \in Nat /\ h % l \in 0 .. l - 1 /\ h = (h \div l) * l + (h % l)
      BY ONLY <2>1, <2>4, Euclid
    <3> QED BY <2>3, <3>1
  <2>6. t * l \in Nat
    BY <2>1, <2>5
  <2> QED BY <1>1, <2>1, <2>2, <2>4, <2>5, <2>6
<1> QED BY <1>2, <1>3, PartsTyped

(* After one more iteration memory holds what the counts say.               *)
LEMMA WritesFill ==
  ASSUME call \in Calls, Flow, NEW t \in tasks(call), Continues(t),
         NEW n, n = [next EXCEPT ![t] = @ + 1], NEW x \in 0 .. Cells - 1
  PROVE  Stored(Written(t))[x] = Filled(call, b, n, x)
<1> DEFINE e == x - b * call.size
           w == Written(t)
<1>1. /\ call.size \in Nat /\ call.batch \in Nat /\ b \in Nat /\ b * call.size \in Nat
      /\ ~DividesByZero(call) /\ next \in [tasks(call) -> Nat] /\ next[t] \in Nat
      /\ Cells \in Nat /\ x \in Nat /\ e \in Int
  <2>1. ~DividesByZero(call) /\ b \in 0 .. Batches(call) - 1 /\ next \in [tasks(call) -> Nat]
    BY DEF Flow
  <2>2. call.size \in Nat /\ Cells \in Nat /\ call.batch \in Nat
    BY <2>1, PartsTyped, SamplingAssumption
  <2>3. Batches(call) \in Nat
    BY <2>2 DEF Batches
  <2>4. b \in Nat
    BY <2>1, <2>3
  <2>5. b * call.size \in Nat
    BY <2>2, <2>4
  <2> QED BY <2>1, <2>2, <2>4, <2>5
<1>2. Stored(w)[x] = IF e \in DOMAIN w THEN w[e] ELSE output[x]
  BY DEF Stored
<1>3. output[x] = Filled(call, b, next, x)
  BY DEF Flow
<1>4. n[t] = next[t] + 1 /\ \A o \in tasks(call) : o # t => n[o] = next[o]
  BY <1>1
<1>5. DOMAIN w \subseteq 0 .. call.size - 1
  <2>1. CASE call.mode = "challenge"
    BY <1>1, <2>1 DEF Written, tasks
  <2>2. CASE call.mode # "challenge"
    BY <1>1, <2>2, WrittenIs
  <2> QED BY <2>1, <2>2
<1> SUFFICES Stored(w)[x] = Filled(call, b, n, x)
  OBVIOUS
<1> HIDE DEF w
<1>6. CASE e \notin 0 .. call.size - 1
  <2>1. x < b * call.size \/ ~(x < b * call.size + call.size)
    BY <1>1, <1>6
  <2>2. Filled(call, b, n, x) = Filled(call, b, next, x)
    BY <2>1 DEF Filled
  <2> QED BY <1>2, <1>3, <1>5, <1>6, <2>2
<1>7. CASE e \in 0 .. call.size - 1
  <2>1. ~(x < b * call.size) /\ x < b * call.size + call.size
    BY <1>1, <1>7
  <2>2. \A m : Filled(call, b, m, x) = Place(call, b, m, e)
    BY <2>1 DEF Filled
  <2>3. CASE call.mode = "challenge"
    <3>1. /\ w = [f \in {t} |-> <<t, next[t]>>] /\ e \in tasks(call)
          /\ \A m : Place(call, b, m, e) = IF m[e] > 0 THEN <<e, m[e] - 1>> ELSE Empty
      BY <1>7, <2>3 DEF w, Written, tasks, Place
    <3> HIDE DEF e
    <3>2. CASE e = t
      <4>1. n[e] > 0 /\ n[e] - 1 = next[t]
        <5>1. n[e] = next[t] + 1
          BY ONLY <1>4, <3>2
        <5>2. next[t] \in Nat
          BY <1>1
        <5> QED BY ONLY <5>1, <5>2
      <4> QED BY <1>2, <2>2, <3>1, <3>2, <4>1
    <3>3. CASE e # t
      <4>1. n[e] = next[e]
        BY ONLY <1>4, <3>1, <3>3
      <4>2. Stored(w)[x] = output[x]
        BY ONLY <1>2, <3>1, <3>3
      <4> QED BY <1>3, <2>2, <3>1, <4>1, <4>2
    <3> QED BY <3>2, <3>3
  <2>4. CASE call.mode # "challenge"
    <3> DEFINE o == Owner(call, e)
               j == Turn(call, e)
    <3>1. o \in tasks(call) /\ j \in Nat /\ next[o] \in Nat
      BY <1>1, <1>7, <2>4, OwnerWorks
    <3>2. /\ e \in DOMAIN w <=> o = t /\ j = next[t]
          /\ e \in DOMAIN w => w[e] = Element(call, b, e)
      BY <1>1, <1>7, <2>4, WrittenIs DEF w
    <3>3. \A m : Place(call, b, m, e) = IF j < m[o] THEN Element(call, b, e) ELSE Empty
      BY <2>4 DEF Place
    <3> HIDE DEF o, j, e
    <3>4. j < n[o] <=> j < next[o] \/ (o = t /\ j = next[t])
      BY <1>1, <1>4, <3>1
    <3> QED BY <1>2, <1>3, <2>2, <3>2, <3>3, <3>4
  <2> QED BY <2>3, <2>4
<1> QED BY <1>6, <1>7

-----------------------------------------------------------------------------
(* Whether a task has more to do depends on its own index alone.            *)
LEMMA ContinuesFrame ==
  ASSUME call' = call, small' = small, NEW o, next'[o] = next[o]
  PROVE  Continues(o)' <=> Continues(o)
<1>1. size_per_task' = size_per_task
  BY DEF size_per_task
<1>2. hashes_per_batch' = hashes_per_batch
  BY DEF hashes_per_batch
<1>3. hashes_per_worker' = hashes_per_worker
  BY <1>2 DEF hashes_per_worker
<1> QED BY <1>1, <1>2, <1>3 DEF Continues

(* A worker is at work only in a call that works.                           *)
LEMMA AtWork ==
  ASSUME IndInv, NEW t \in waiting \cup running
  PROVE  /\ call \in Calls /\ ~Nothing /\ Flow /\ TriedLarge /\ t \in tasks(call)
         /\ outcome = "running"
BY DEF IndInv, Flow, Nothing

(* An iteration keeps the invariant, whether or not the task goes on, if no *)
(* other task is dropped unless one gave up.                                *)
LEMMA IterationStep ==
  ASSUME IndInv, NEW t \in running, Continues(t),
         output' = Stored(Written(t)), next' = [next EXCEPT ![t] = @ + 1],
         UNCHANGED <<call, small, b, outcome>>,
         waiting' \subseteq waiting, running' \subseteq running,
         \/ waiting' = waiting /\ running' = running
         \/ Normed /\ next'[t] > MaxRetry
  PROVE  IndInv'
<1>1. /\ call \in Calls /\ ~Nothing /\ Flow /\ TriedLarge /\ t \in tasks(call)
      /\ outcome = "running" /\ waiting \subseteq tasks(call) /\ running \subseteq tasks(call)
      /\ next \in [tasks(call) -> Nat]
  BY AtWork DEF Flow
<1>2. /\ tasks(call)' = tasks(call) /\ Batches(call)' = Batches(call)
      /\ DividesByZero(call)' = DividesByZero(call) /\ Normed' = Normed /\ Nothing' = Nothing
  BY DEF Normed, Nothing
<1>3. next' \in [tasks(call) -> Nat] /\ next'[t] = next[t] + 1
      /\ \A o \in tasks(call) : o # t => next'[o] = next[o]
  BY <1>1
<1>4. ASSUME GaveUp PROVE GaveUp'
  <2>1. PICK p \in DOMAIN next : next[p] > MaxRetry
    BY <1>4 DEF GaveUp
  <2>2. p \in DOMAIN next' /\ next'[p] > MaxRetry
    <3>1. DOMAIN next' = DOMAIN next
      OBVIOUS
    <3>2. next[p] \in Nat /\ MaxRetry \in Nat
      BY <1>1, <2>1, SamplingAssumption
    <3>3. next'[p] = next[p] \/ next'[p] = next[p] + 1
      BY <1>1, <1>3, <2>1
    <3> QED BY <2>1, <3>1, <3>2, <3>3
  <2> QED BY <1>4, <2>2 DEF GaveUp
<1>5. ASSUME NEW o \in tasks(call)' \ (waiting' \cup running') PROVE GaveUp' \/ ~Continues(o)'
  <2>1. o \in tasks(call)
    BY <1>2
  <2>2. CASE waiting' = waiting /\ running' = running
    <3>1. o # t /\ (GaveUp \/ ~Continues(o))
      BY <1>1, <1>5, <2>1, <2>2 DEF Flow
    <3>2. next'[o] = next[o]
      BY <1>3, <2>1, <3>1
    <3> QED BY <1>4, <3>1, <3>2, ContinuesFrame
  <2>3. CASE Normed /\ next'[t] > MaxRetry
    <3>1. t \in DOMAIN next'
      BY <1>1, <1>3
    <3> QED BY <2>3, <3>1 DEF GaveUp, Normed
  <2> QED BY <2>2, <2>3
<1>6. \A x \in 0 .. Cells - 1 : output'[x] = Filled(call, b, next, x)'
  <2> TAKE x \in 0 .. Cells - 1
  <2> DEFINE n == [next EXCEPT ![t] = @ + 1]
  <2>1. Stored(Written(t))[x] = Filled(call, b, n, x)
    BY <1>1, WritesFill
  <2>2. Filled(call, b, next, x)' = Filled(call, b, n, x)
    BY DEF Filled, Place
  <2> QED BY <2>1, <2>2
<1>7. Flow'
  BY <1>1, <1>2, <1>3, <1>5, <1>6 DEF Flow
<1>8. TriedLarge'
  <2> SUFFICES ASSUME call.mode = "challenge", NEW p \in tasks(call)
               PROVE  IF call.norm
                      THEN next'[p] <= MaxRetry =>
                             \A r \in 0 .. MaxRetry : r + 1 < next'[p] => ~small[p][r]
                      ELSE next'[p] <= 1
    BY <1>2 DEF TriedLarge
  <2>1. CASE p # t
    <3>1. next'[p] = next[p]
      BY <1>3, <2>1
    <3> QED BY <1>1, <3>1 DEF TriedLarge
  <2>2. CASE p = t
    <3>1. next[t] \in Nat /\ next'[t] = next[t] + 1 /\ MaxRetry \in Nat
      BY <1>1, <1>3, SamplingAssumption
    <3>2. next[t] > 0 => call.norm /\ ~small[t][next[t] - 1]
      BY DEF Continues
    <3>3. CASE call.norm
      <4> SUFFICES ASSUME next'[t] <= MaxRetry, NEW r \in 0 .. MaxRetry, r + 1 < next'[t]
                   PROVE  ~small[t][r]
        BY <2>2, <3>3
      <4>1. next[t] <= MaxRetry /\ (r + 1 < next[t] \/ (r = next[t] - 1 /\ next[t] > 0))
        BY <3>1
      <4>2. r + 1 < next[t] => ~small[t][r]
        BY <1>1, <3>3, <4>1 DEF TriedLarge
      <4> QED BY <3>2, <4>1, <4>2
    <3>4. CASE ~call.norm
      BY <2>2, <3>1, <3>2, <3>4
    <3> QED BY <3>3, <3>4
  <2> QED BY <2>1, <2>2
<1>9. output' = [x \in 0 .. Cells - 1 |-> output'[x]]
  BY DEF Stored
<1> QED BY <1>1, <1>2, <1>7, <1>8, <1>9 DEF IndInv

(* A worker takes a task.                                                   *)
LEMMA StartStep == ASSUME IndInv, NEW t \in waiting, Start(t) PROVE IndInv'
<1>1. /\ call \in Calls /\ ~Nothing /\ Flow /\ TriedLarge /\ outcome = "running"
  BY AtWork
<1>2. /\ waiting' = waiting \ {t} /\ running' = running \cup {t}
      /\ UNCHANGED <<call, small, b, next, output, outcome>>
  BY DEF Start
<1>3. /\ tasks(call)' = tasks(call) /\ Batches(call)' = Batches(call)
      /\ DividesByZero(call)' = DividesByZero(call) /\ Normed' = Normed /\ Nothing' = Nothing
      /\ GaveUp' = GaveUp /\ TriedLarge' = TriedLarge
  BY <1>2 DEF Normed, Nothing, GaveUp, TriedLarge
<1>4. waiting' \cup running' = waiting \cup running /\ waiting \subseteq tasks(call)
  BY <1>1, <1>2 DEF Flow
<1>5. \A o \in tasks(call) : Continues(o)' <=> Continues(o)
  BY <1>2, ContinuesFrame
<1>6. \A x : Filled(call, b, next, x)' = Filled(call, b, next, x)
  BY <1>2
<1>7. Flow'
  BY <1>1, <1>2, <1>3, <1>4, <1>5, <1>6 DEF Flow
<1> QED BY <1>1, <1>2, <1>3, <1>7 DEF IndInv

(* A task that is through leaves its worker.                                *)
LEMMA LeaveStep == ASSUME IndInv, NEW t \in running, Leave(t) PROVE IndInv'
<1>1. /\ call \in Calls /\ ~Nothing /\ Flow /\ TriedLarge /\ outcome = "running"
  BY AtWork
<1>2. /\ ~Continues(t) /\ running' = running \ {t}
      /\ UNCHANGED <<call, small, b, waiting, next, output, outcome>>
  BY DEF Leave
<1>3. /\ tasks(call)' = tasks(call) /\ Batches(call)' = Batches(call)
      /\ DividesByZero(call)' = DividesByZero(call) /\ Normed' = Normed /\ Nothing' = Nothing
      /\ GaveUp' = GaveUp /\ TriedLarge' = TriedLarge
  BY <1>2 DEF Normed, Nothing, GaveUp, TriedLarge
<1>4. \A o \in tasks(call) : Continues(o)' <=> Continues(o)
  BY <1>2, ContinuesFrame
<1>5. \A o \in tasks(call) \ (waiting' \cup running') :
        o = t \/ o \in tasks(call) \ (waiting \cup running)
  BY <1>2
<1>6. \A x : Filled(call, b, next, x)' = Filled(call, b, next, x)
  BY <1>2
<1>7. Flow'
  BY <1>1, <1>2, <1>3, <1>4, <1>5, <1>6 DEF Flow
<1> QED BY <1>1, <1>2, <1>3, <1>7 DEF IndInv

(* A place of a batch whose tasks are through holds its element.            *)
LEMMA BatchDone ==
  ASSUME IndInv, ~Nothing, waiting = {}, running = {}, call.mode # "challenge",
         NEW e \in 0 .. call.size - 1
  PROVE  Place(call, b, next, e) = Element(call, b, e)
<1>1. /\ call \in Calls /\ Flow /\ ~DividesByZero(call) /\ ~GaveUp
      /\ next \in [tasks(call) -> Nat]
  BY DEF IndInv, Flow, GaveUp
<1> DEFINE o == Owner(call, e)
<1>2. o \in tasks(call)
  BY <1>1, OwnerWorks
<1>3. ~Continues(o)
  BY <1>1, <1>2 DEF Flow
<1>4. next[o] \in Nat
  BY <1>1, <1>2
<1>5. Turn(call, e) < next[o]
  BY <1>1, <1>3, <1>4, DoneWrote
<1> QED BY <1>5 DEF Place

(* Nothing is in a place of a batch that has not begun.                     *)
LEMMA BatchEmpty ==
  ASSUME call \in Calls, ~DividesByZero(call), NEW k, NEW e \in 0 .. call.size - 1
  PROVE  Place(call, k, [o \in tasks(call) |-> 0], e) = Empty
<1> DEFINE n == [o \in tasks(call) |-> 0]
<1>1. Owner(call, e) \in tasks(call) /\ (call.mode # "challenge" => Turn(call, e) \in Nat)
  BY OwnerWorks
<1>2. n[Owner(call, e)] = 0
  BY <1>1
<1>3. CASE call.mode = "challenge"
  <2>1. Owner(call, e) = e
    BY <1>3 DEF Owner
  <2> QED BY <1>2, <1>3, <2>1 DEF Place
<1>4. CASE call.mode # "challenge"
  <2> HIDE DEF n
  <2> QED BY <1>1, <1>2, <1>4 DEF Place, n
<1> QED BY <1>3, <1>4

(* The next batch begins where a complete one ends.                         *)
LEMMA NextBatchStep == ASSUME IndInv, NextBatch PROVE IndInv'
<1>1. /\ outcome = "running" /\ waiting = {} /\ running = {} /\ b + 1 < Batches(call)
      /\ b' = b + 1 /\ waiting' = tasks(call) /\ next' = [t \in tasks(call) |-> 0]
      /\ UNCHANGED <<call, small, running, output, outcome>>
  BY DEF NextBatch
<1>2. call \in Calls
  BY DEF IndInv
<1>3. ~Nothing
  <2> SUFFICES ASSUME Nothing PROVE FALSE
    OBVIOUS
  <2>1. Batches(call) = 0 /\ b = 0
    BY <1>1 DEF Nothing, IndInv
  <2> QED BY <1>1, <2>1
<1>4. /\ Flow /\ b \in Nat /\ ~DividesByZero(call) /\ call.size \in Nat /\ call.batch \in Nat
      /\ Batches(call) \in Nat /\ b \in 0 .. Batches(call) - 1 /\ Cells \in Nat
      /\ b * call.size \in Nat /\ b' * call.size = b * call.size + call.size
  <2>1. Flow /\ ~DividesByZero(call) /\ b \in 0 .. Batches(call) - 1
    BY <1>3 DEF IndInv, Flow
  <2>2. call.size \in Nat /\ call.batch \in Nat /\ Cells \in Nat
    BY <1>2, <2>1, PartsTyped, SamplingAssumption
  <2>3. Batches(call) \in Nat
    BY <2>2 DEF Batches
  <2>4. b \in Nat
    BY <2>1, <2>3
  <2>5. b * call.size \in Nat /\ (b + 1) * call.size = b * call.size + call.size
    BY <2>2, <2>4
  <2> QED BY <1>1, <2>1, <2>2, <2>3, <2>4, <2>5
<1>5. call.mode # "challenge"
  BY <1>1, <1>4 DEF Batches
<1>6. /\ tasks(call)' = tasks(call) /\ Batches(call)' = Batches(call)
      /\ DividesByZero(call)' = DividesByZero(call) /\ Normed' = Normed /\ Nothing' = Nothing
  BY <1>1 DEF Normed, Nothing
<1>7. ASSUME NEW x \in 0 .. Cells - 1 PROVE output'[x] = Filled(call, b, next, x)'
  <2> DEFINE n == [t \in tasks(call) |-> 0]
             e == x - b * call.size
             f == x - b' * call.size
  <2>0. x \in Nat /\ e \in Int /\ f \in Int
    BY <1>1, <1>4
  <2>1. output'[x] = Filled(call, b, next, x)
    BY <1>1, <1>4 DEF Flow
  <2>2. /\ Filled(call, b, next, x)' = Filled(call, b', n, x)
        /\ \A c, k, m : Place(c, k, m, e)' = Place(c, k, m, e)'
    BY <1>1
  <2> HIDE DEF n
  <2>3. CASE x < b * call.size
    <3>1. x < b' * call.size
      BY <1>1, <1>4, <2>0, <2>3
    <3> QED BY <2>1, <2>2, <2>3, <3>1 DEF Filled
  <2>4. CASE e \in 0 .. call.size - 1
    <3>1. ~(x < b * call.size) /\ x < b * call.size + call.size /\ x < b' * call.size
      BY <1>4, <2>0, <2>4
    <3>2. Filled(call, b, next, x) = Element(call, b, e)
      BY <1>1, <1>3, <1>5, <2>4, <3>1, BatchDone DEF Filled
    <3>3. x \div call.size = b /\ x % call.size = e
      <4>1. x = b * call.size + e /\ call.size \in Nat \ {0}
        BY <1>4, <2>0, <2>4
      <4> HIDE DEF e
      <4> QED BY <1>4, <2>4, <4>1, Quotient
    <3>4. Filled(call, b', n, x) = Element(call, b, e)
      BY <3>1, <3>3 DEF Filled
    <3> QED BY <2>1, <2>2, <3>2, <3>4
  <2>5. CASE ~(x < b * call.size) /\ e \notin 0 .. call.size - 1
    <3>1. ~(x < b * call.size + call.size) /\ ~(x < b' * call.size)
      BY <1>4, <2>0, <2>5
    <3>2. Filled(call, b, next, x) = Empty
      BY <2>5, <3>1 DEF Filled
    <3>3. f \in 0 .. call.size - 1 => Place(call, b', n, f) = Empty
      BY <1>2, <1>4, BatchEmpty DEF n
    <3>4. x < b' * call.size + call.size => f \in 0 .. call.size - 1
      BY <1>4, <2>0, <3>1
    <3>5. Filled(call, b', n, x) = Empty
      BY <3>1, <3>3, <3>4 DEF Filled
    <3> QED BY <2>1, <2>2, <3>2, <3>5
  <2> QED BY <2>3, <2>4, <2>5
<1>8. b' \in 0 .. Batches(call) - 1
  BY <1>1, <1>4
<1>9. next' \in [tasks(call) -> Nat]
  BY <1>1
<1>10. Flow'
  BY <1>1, <1>4, <1>6, <1>7, <1>8, <1>9 DEF Flow
<1>11. TriedLarge'
  BY <1>1, <1>5 DEF TriedLarge
<1> QED BY <1>1, <1>2, <1>3, <1>6, <1>10, <1>11 DEF IndInv

(* The call returns.                                                        *)
LEMMA ReturnStep == ASSUME IndInv, Return PROVE IndInv'
<1>1. /\ outcome = "running" /\ waiting = {} /\ running = {} /\ b + 1 >= Batches(call)
      /\ outcome' = "SUCCESS"
      /\ UNCHANGED <<call, small, b, waiting, running, next, output>>
  BY DEF Return
<1>2. call \in Calls /\ (~Nothing => Flow)
  BY DEF IndInv
<1>3. /\ tasks(call)' = tasks(call) /\ Batches(call)' = Batches(call)
      /\ DividesByZero(call)' = DividesByZero(call) /\ Normed' = Normed
      /\ GaveUp' = GaveUp /\ TriedLarge' = TriedLarge
  BY <1>1 DEF Normed, GaveUp, TriedLarge
<1>4. Nothing' = Nothing
  BY <1>1, <1>3 DEF Nothing
<1>5. ASSUME ~Nothing PROVE Flow'
  <2>1. b + 1 = Batches(call)
    <3>1. Batches(call) \in Nat
      BY <1>2, <1>5, PartsTyped DEF Batches, Flow
    <3> QED BY <1>1, <1>2, <1>5, <3>1 DEF Flow
  <2>2. \A o \in tasks(call) : Continues(o)' <=> Continues(o)
    BY <1>1, ContinuesFrame
  <2>3. \A x : Filled(call, b, next, x)' = Filled(call, b, next, x)
    BY <1>1
  <2> QED BY <1>1, <1>2, <1>3, <1>5, <2>1, <2>2, <2>3 DEF Flow
<1> QED BY <1>1, <1>2, <1>3, <1>4, <1>5 DEF IndInv

(* A call begins with empty memory and all tasks of its first batch.        *)
LEMMA InitStep == ASSUME Init PROVE IndInv
<1>1. /\ call \in Calls /\ b = 0 /\ running = {} /\ output = [x \in 0 .. Cells - 1 |-> Empty]
      /\ outcome = IF TooMany(call) THEN "INVALID_ARGUMENT"
                   ELSE IF DividesByZero(call) THEN "divided by zero" ELSE "running"
      /\ waiting = IF outcome = "running" /\ b < Batches(call) THEN tasks(call) ELSE {}
      /\ next = [t \in waiting |-> 0]
  BY DEF Init
<1>2. Normed => small \in [0 .. call.size - 1 -> [0 .. MaxRetry -> BOOLEAN]]
  BY DEF Init, Normed
<1>3. call.size \in Nat /\ call.batch \in Nat /\ Batches(call) \in Nat /\ Cells \in Nat
  BY <1>1, SamplingAssumption DEF Batches
<1>4. \A x \in 0 .. Cells - 1 : output[x] = Empty
  BY <1>1
<1>5. ASSUME Nothing PROVE waiting = {}
  <2>1. outcome # "running" \/ ~(b < Batches(call))
    <3>1. outcome # "running" \/ Batches(call) = 0
      BY <1>5 DEF Nothing
    <3>2. b = 0
      BY <1>1
    <3> QED BY <3>1, <3>2
  <2> QED BY <1>1, <2>1
<1>6. ASSUME ~Nothing PROVE Flow /\ TriedLarge
  <2>1. /\ ~DividesByZero(call) /\ outcome = "running" /\ b \in 0 .. Batches(call) - 1
        /\ waiting = tasks(call) /\ next = [t \in tasks(call) |-> 0]
    <3>1. outcome = "running" /\ ~DividesByZero(call)
      BY <1>1, <1>6 DEF Nothing
    <3>2. Batches(call) # 0
      BY <1>6 DEF Nothing
    <3>3. b = 0
      BY <1>1
    <3>4. b < Batches(call) /\ b \in 0 .. Batches(call) - 1
      BY <1>3, <3>2, <3>3
    <3>5. waiting = tasks(call)
      BY <1>1, <3>1, <3>4
    <3> QED BY <1>1, <3>1, <3>4, <3>5
  <2>2. ASSUME NEW x \in 0 .. Cells - 1 PROVE Filled(call, b, next, x) = Empty
    <3>1. b * call.size = 0 /\ x \in Nat
      <4>1. b = 0
        BY <1>1
      <4> QED BY <1>3, <4>1
    <3>2. x - b * call.size = x
      BY <3>1
    <3>3. x < call.size => Place(call, b, next, x) = Empty
      BY <1>1, <1>3, <2>1, <3>1, BatchEmpty
    <3>4. ~(x < b * call.size) /\ (x < b * call.size + call.size <=> x < call.size)
      BY <1>3, <3>1
    <3> QED BY <3>2, <3>3, <3>4 DEF Filled
  <2>3. Flow
    BY <1>1, <1>4, <2>1, <2>2 DEF Flow
  <2>4. TriedLarge
    <3> SUFFICES ASSUME call.mode = "challenge", NEW p \in tasks(call) PROVE
                   IF call.norm
                   THEN next[p] <= MaxRetry =>
                          \A r \in 0 .. MaxRetry : r + 1 < next[p] => ~small[p][r]
                   ELSE next[p] <= 1
      BY DEF TriedLarge
    <3>1. next[p] = 0
      BY <2>1
    <3> QED BY <3>1
  <2> QED BY <2>3, <2>4
<1> QED BY <1>1, <1>2, <1>4, <1>5, <1>6 DEF IndInv

(* The inductive invariant of a call.                                       *)
THEOREM Inductive == Spec => []IndInv
<1>1. Init => IndInv
  BY InitStep
<1>2. ASSUME IndInv, [Next]_vars PROVE IndInv'
  <2>1. ASSUME NEW t \in waiting \cup running, Work(t) PROVE IndInv'
    <3>1. CASE Start(t)
      BY <1>2, <3>1, StartStep DEF Start
    <3>2. CASE Iterate(t)
      <4>1. /\ t \in running /\ Continues(t)
            /\ output' = Stored(Written(t)) /\ next' = [next EXCEPT ![t] = @ + 1]
            /\ UNCHANGED <<call, small, b, outcome>>
            /\ waiting' = waiting /\ running' = running
        BY <3>2 DEF Iterate
      <4> QED BY <1>2, <4>1, IterationStep
    <3>3. CASE Throw(t)
      <4>1. /\ t \in running /\ Continues(t) /\ Normed /\ next[t] + 1 > MaxRetry
            /\ output' = Stored(Written(t)) /\ next' = [next EXCEPT ![t] = @ + 1]
            /\ UNCHANGED <<call, small, b, outcome>>
            /\ waiting' \subseteq waiting /\ running' \subseteq running
        BY <3>3 DEF Throw, GivesUp, Normed
      <4>2. t \in tasks(call) /\ next \in [tasks(call) -> Nat]
        BY <1>2, <4>1, AtWork DEF Flow
      <4>3. next'[t] > MaxRetry
        BY <4>1, <4>2
      <4> QED BY <1>2, <4>1, <4>3, IterationStep
    <3>4. CASE Leave(t)
      BY <1>2, <3>4, LeaveStep DEF Leave
    <3> QED BY <2>1, <3>1, <3>2, <3>3, <3>4 DEF Work
  <2>2. CASE NextBatch
    BY <1>2, <2>2, NextBatchStep
  <2>3. CASE Return
    BY <1>2, <2>3, ReturnStep
  <2>4. CASE UNCHANGED vars
    <3>1. UNCHANGED <<call, small, b, waiting, running, next, output, outcome>>
      BY <2>4 DEF vars
    <3>2. \A o : Continues(o)' <=> Continues(o)
      BY <3>1, ContinuesFrame
    <3>3. /\ Nothing' = Nothing /\ Normed' = Normed /\ TriedLarge' = TriedLarge
          /\ GaveUp' = GaveUp
      BY <3>1 DEF Nothing, Normed, TriedLarge, GaveUp
    <3>4. Flow' <=> Flow
      BY <3>1, <3>2, <3>3 DEF Flow
    <3> QED BY <1>2, <3>1, <3>3, <3>4 DEF IndInv
  <2> QED BY <1>2, <2>1, <2>2, <2>3, <2>4 DEF Next
<1> QED BY <1>1, <1>2, PTL DEF Spec

(* The retry at which a challenge was small is the first.                   *)
LEMMA FirstSmall ==
  ASSUME NEW p, NEW n \in Nat \ {0}, n <= MaxRetry, small[p][n - 1],
         \A r \in 0 .. MaxRetry : r + 1 < n => ~small[p][r]
  PROVE  LastTry(p) = n - 1
<1> DEFINE stops == {r \in 0 .. MaxRetry : small[p][r] \/ r = MaxRetry}
<1>1. MaxRetry \in Nat
  BY SamplingAssumption
<1>2. n - 1 \in stops
  BY <1>1
<1>3. \A o \in stops : n - 1 <= o
  BY <1>1
<1>4. \A r \in stops : (\A o \in stops : r <= o) => r = n - 1
  <2> TAKE r \in stops
  <2> HAVE \A o \in stops : r <= o
  <2>1. r <= n - 1 /\ n - 1 <= r /\ r \in Nat
    BY <1>1, <1>2, <1>3
  <2> QED BY <2>1
<1>5. LastTry(p) = CHOOSE r \in stops : \A o \in stops : r <= o
  BY DEF LastTry
<1> HIDE DEF stops
<1> QED BY <1>2, <1>3, <1>4, <1>5

(* What a complete call has sampled.                                        *)
LEMMA Sampled ==
  ASSUME IndInv, outcome = "SUCCESS", ~GaveUp, NEW x \in 0 .. Cells - 1
  PROVE  output[x] = Sample(call)[x]
<1> DEFINE e == x - b * call.size
           s == Sample(call)[x]
<1>0. call \in Calls /\ x \in Nat /\ Cells \in Nat /\ call.size \in Nat /\ call.batch \in Nat
      /\ call.mode \in {"fast", "slow", "challenge"}
  BY SamplingAssumption DEF IndInv
<1>1. CASE Nothing
  <2>1. Batches(call) = 0 /\ output[x] = Empty
    BY <1>1 DEF Nothing, IndInv
  <2>2. x >= call.size * Batches(call)
    BY <1>0, <2>1
  <2> QED BY <2>1, <2>2 DEF Sample
<1>2. CASE ~Nothing
  <2>1. /\ Flow /\ TriedLarge /\ ~DividesByZero(call) /\ waiting = {} /\ running = {}
        /\ b + 1 = Batches(call) /\ output[x] = Filled(call, b, next, x)
        /\ \A t \in tasks(call) : ~Continues(t)
        /\ next \in [tasks(call) -> Nat]
    BY <1>2 DEF IndInv, Flow
  <2>2. /\ b \in Nat /\ b * call.size \in Nat /\ e \in Int
        /\ call.size * Batches(call) = b * call.size + call.size
    <3>1. Batches(call) \in Nat
      BY <1>0 DEF Batches
    <3>2. b \in Nat
      BY <2>1, <3>1 DEF Flow
    <3>3. call.size * (b + 1) = b * call.size + call.size /\ b * call.size \in Nat
      BY <1>0, <3>2
    <3> QED BY <1>0, <2>1, <3>2, <3>3
  <2>3. CASE ~(x < b * call.size + call.size)
    <3>1. ~(x < b * call.size)
      BY <1>0, <2>2, <2>3
    <3>2. x >= call.size * Batches(call)
      BY <1>0, <2>2, <2>3
    <3>3. Filled(call, b, next, x) = Empty
      BY <2>3, <3>1 DEF Filled
    <3>4. s = Empty
      BY <3>2 DEF Sample
    <3> QED BY <2>1, <3>3, <3>4
  <2>4. CASE x < b * call.size + call.size
    <3>1. ~(x >= call.size * Batches(call)) /\ call.size > 0
      BY <1>0, <2>2, <2>4
    <3>2. ASSUME call.mode # "challenge" PROVE output[x] = s
      <4>1. s = Element(call, x \div call.size, x % call.size)
        BY <1>0, <3>1, <3>2 DEF Sample, Element, chain_size
      <4>2. CASE x < b * call.size
        BY <2>1, <4>1, <4>2 DEF Filled
      <4>3. CASE ~(x < b * call.size)
        <5>1. e \in 0 .. call.size - 1
          BY <1>0, <2>2, <2>4, <4>3
        <5>2. output[x] = Element(call, b, e)
          BY <1>2, <2>1, <2>4, <3>2, <4>3, <5>1, BatchDone DEF Filled
        <5>3. x = b * call.size + e /\ call.size \in Nat \ {0}
          BY <1>0, <2>2, <3>1
        <5> HIDE DEF e
        <5>4. x \div call.size = b /\ x % call.size = e
          BY <2>2, <5>1, <5>3, Quotient
        <5> QED BY <4>1, <5>2, <5>4
      <4> QED BY <4>2, <4>3
    <3>3. ASSUME call.mode = "challenge" PROVE output[x] = s
      <4>1. b = 0
        BY <2>1, <2>2, <3>3 DEF Batches
      <4>2. b * call.size = 0 /\ e = x /\ x \in 0 .. call.size - 1
        BY <1>0, <2>4, <4>1
      <4>3. x % call.size = x
        BY <1>0, <4>2
      <4>4. s = <<x, IF call.norm THEN LastTry(x) ELSE 0>>
        BY <3>1, <3>3, <4>3 DEF Sample
      <4>5. output[x] = IF next[x] > 0 THEN <<x, next[x] - 1>> ELSE Empty
        BY <1>0, <2>1, <2>4, <3>3, <4>2 DEF Filled, Place
      <4>6. x \in tasks(call) /\ next[x] \in Nat
        BY <2>1, <3>3, <4>2 DEF tasks
      <4>7. next[x] > 0 /\ ~(call.norm /\ ~small[x][next[x] - 1])
        BY <2>1, <3>3, <4>6 DEF Continues
      <4>8. CASE ~call.norm
        <5>1. next[x] = 1
          BY <2>1, <3>3, <4>6, <4>7, <4>8 DEF TriedLarge
        <5> QED BY <4>4, <4>5, <4>8, <5>1
      <4>9. CASE call.norm
        <5>1. next[x] <= MaxRetry
          <6>1. x \in DOMAIN next
            BY <2>1, <4>6
          <6>2. ~(next[x] > MaxRetry)
            BY <3>3, <4>9, <6>1 DEF GaveUp
          <6> QED BY <4>6, <6>2, SamplingAssumption
        <5>2. \A r \in 0 .. MaxRetry : r + 1 < next[x] => ~small[x][r]
          BY <2>1, <3>3, <4>6, <4>9, <5>1 DEF TriedLarge
        <5>3. LastTry(x) = next[x] - 1
          BY <4>6, <4>7, <4>9, <5>1, <5>2, FirstSmall
        <5> QED BY <4>4, <4>5, <4>7, <4>9, <5>3
      <4> QED BY <4>8, <4>9
    <3> QED BY <3>2, <3>3
  <2> QED BY <2>3, <2>4
<1> QED BY <1>1, <1>2

(* One cell of Sample.                                                      *)
SampleAt(c, x) ==
  LET e == x % c.size
      chain == Ceil(c.size, NofTasks)
  IN  IF x >= c.size * Batches(c) THEN Empty
      ELSE CASE c.mode = "fast" -> <<x \div c.size, e \div chain, e % chain>>
             [] c.mode = "slow" ->
                  <<x \div c.size, e \div ElementsPerHash, e % ElementsPerHash>>
             [] c.mode = "challenge" -> <<e, IF c.norm THEN LastTry(e) ELSE 0>>

(* Prover and verifier sample the same: whatever the size of the call, the  *)
(* number of workers and the order of their tasks, the output of a          *)
(* successful call is the function of the arguments that Sample gives.      *)
THEOREM SampledAlike == Spec => []SamplesAlike
<1>1. IndInv => SamplesAlike
  <2> SUFFICES ASSUME IndInv, outcome = "SUCCESS", ~GaveUp PROVE output = Sample(call)
    BY DEF SamplesAlike
  <2>1. output = [x \in 0 .. Cells - 1 |-> output[x]]
    BY DEF IndInv
  <2>2. Sample(call) = [x \in 0 .. Cells - 1 |-> SampleAt(call, x)]
    BY DEF Sample, SampleAt
  <2>3. \A x \in 0 .. Cells - 1 : output[x] = Sample(call)[x]
    BY Sampled
  <2> HIDE DEF Sample
  <2> QED BY <2>1, <2>2, <2>3
<1> QED BY <1>1, Inductive, PTL

-----------------------------------------------------------------------------
(* The choice of a projection, the other thing both sides draw, for bytes   *)
(* and counters of any width.                                               *)

(* Every projection the counter has passed was found large; once it has     *)
(* passed a byte's worth of them, all of them were, and it stays so when    *)
(* the counter wraps.                                                       *)
AllLarge == \A k \in Byte : norm[k] = "large"
SelectionInv ==
  /\ TypeOK /\ norm \in [Byte -> Answer]
  /\ AllLarge \/ \A k \in Byte : k < JL_i => norm[k] = "large"
  /\ \A k \in tried : norm[k] = "large"
  /\ pc = "check" => seed = ToByte(JL_i)
  /\ pc \in {"sent"} \cup {"accept", "reject", "throw"} =>
       seed = ToByte(JL_i) /\ Passes(norm[seed])
  /\ Judged => rows = ToByte(JL_i) /\ (pc = "reject" => norm[seed] = "large")

(* The counter is cut to a byte, and not changed below the byte's range.    *)
LEMMA ToByteTyped ==
  \A i \in Nat : ToByte(i) \in Byte /\ (i < Bytes => ToByte(i) = i)
BY WidthAssumption DEF ToByte, Byte

(* The bytes before the next value of the counter.                          *)
LEMMA CounterAdvances ==
  ASSUME SelectionInv, CheckFails
  PROVE  AllLarge \/ \A k \in Byte : k < JL_i' => norm[k] = "large"
<1>0. Bytes \in Nat \ {0} /\ Word \in Nat \ {0} /\ Word % Bytes = 0
  BY WidthAssumption
<1>1. /\ JL_i \in 0 .. Word - 1 /\ seed = ToByte(JL_i) /\ norm[seed] = "large"
      /\ seed \in Byte /\ JL_i' = (JL_i + 1) % Word
  BY DEF SelectionInv, CheckFails, TypeOK, Passes, Answer
<1>2. CASE AllLarge
  BY <1>2
<1>3. CASE ~AllLarge /\ JL_i < Bytes
  <2>1. seed = JL_i
    BY <1>0, <1>1, <1>3, ToByteTyped
  <2>2. JL_i' <= JL_i + 1
    BY <1>0, <1>1
  <2> QED BY <1>0, <1>1, <1>3, <2>1, <2>2 DEF SelectionInv, Byte
<1>4. CASE ~AllLarge /\ JL_i >= Bytes
  BY <1>0, <1>1, <1>4 DEF SelectionInv, Byte, AllLarge
<1> QED BY <1>0, <1>1, <1>2, <1>3, <1>4

(* The inductive invariant of the selection loop.                           *)
THEOREM SelectionInductive == JLSpec => []SelectionInv
<1>0. Bytes \in Nat \ {0} /\ Word \in Nat \ {0} /\ Word % Bytes = 0
  BY WidthAssumption
<1>1. JLInit => SelectionInv
  BY <1>0 DEF JLInit, SelectionInv, TypeOK, Byte, Judged
<1>2. ASSUME SelectionInv, [JLNext]_jl_vars PROVE SelectionInv'
  <2>0. JL_i \in Nat /\ JL_i' \in 0 .. Word - 1
    BY <1>0, <1>2
       DEF SelectionInv, TypeOK, JLNext, Project, CheckPasses, CheckFails,
           Verify, jl_vars
  <2>1. CASE Project
    BY <1>2, <2>0, <2>1, ToByteTyped
       DEF SelectionInv, TypeOK, Project, Judged, AllLarge
  <2>2. CASE CheckPasses
    BY <1>2, <2>0, <2>2, ToByteTyped
       DEF SelectionInv, TypeOK, CheckPasses, Judged, AllLarge
  <2>3. CASE CheckFails
    <3>1. norm[seed] = "large"
      BY <1>2, <2>3 DEF SelectionInv, TypeOK, CheckFails, Passes, Answer
    <3> QED BY <1>2, <2>0, <2>3, <3>1, CounterAdvances
            DEF SelectionInv, TypeOK, CheckFails, Judged, AllLarge
  <2>4. CASE Verify
    BY <1>2, <2>0, <2>4, ToByteTyped
       DEF SelectionInv, TypeOK, Verify, Judged, AllLarge, Answer
  <2>5. CASE UNCHANGED jl_vars
    BY <1>2, <2>5 DEF SelectionInv, TypeOK, jl_vars, Judged, AllLarge, Passes
  <2> QED BY <1>2, <2>1, <2>2, <2>3, <2>4, <2>5 DEF JLNext
<1> QED BY <1>1, <1>2, PTL DEF JLSpec

(* The number sent fits a byte, and is the first that passes, the verifier  *)
(* does not refuse it for its norm, and the rows it regenerates from the    *)
(* number are those of the projection.                                      *)
THEOREM FirstIsSent == JLSpec => []FirstThatPasses
<1>0. Bytes \in Nat \ {0} /\ Word \in Nat \ {0} /\ Word % Bytes = 0
  BY WidthAssumption
<1>1. SelectionInv => FirstThatPasses
  <2> SUFFICES ASSUME SelectionInv, pc \in {"sent", "accept", "reject", "throw"}
               PROVE  /\ JL_i = seed /\ seed \notin tried
                      /\ \A k \in Byte : k < JL_i => norm[k] = "large"
                      /\ pc # "reject" /\ (Judged => rows = seed)
    BY DEF FirstThatPasses
  <2>1. /\ JL_i \in 0 .. Word - 1 /\ seed \in Byte /\ seed = ToByte(JL_i)
        /\ norm[seed] # "large"
    BY DEF SelectionInv, TypeOK, Passes
  <2>2. \A k \in Byte : k < JL_i => norm[k] = "large"
    BY <2>1 DEF SelectionInv, AllLarge
  <2>3. JL_i = seed
    BY <1>0, <2>1, <2>2, ToByteTyped DEF Byte
  <2>4. pc # "reject"
    BY <2>1 DEF SelectionInv, Judged
  <2>5. Judged => rows = seed
    BY <2>1 DEF SelectionInv
  <2> QED BY <2>1, <2>2, <2>3, <2>4, <2>5 DEF SelectionInv
<1> QED BY <1>1, SelectionInductive, PTL

=============================================================================
