------------------------- MODULE DeviceVectorProofs -------------------------
(***************************************************************************)
(* For any number of threads, vectors, devices and blocks: until an        *)
(* address is handed out again before it is untracked, every vector owns   *)
(* its block, destructors do not throw, nothing leaks, and every call has  *)
(* the effect VectorValues states, or throws as it allows.                 *)
(***************************************************************************)
EXTENDS DeviceVector, SequenceTheorems, TLAPS

Backs == {"back", "back to default"}
Fills == {"zero", "copy host", "copy other"}
AllSteps == {"malloc", "track", "copy old", "free", "free memory", "untrack", "adopt",
             "keep", "return"} \cup Fills \cup Backs

Cons(e, s) == <<e>> \o s
Finish == <<"return">>

\* The step that comes first in a sequence, the one a thread is at.
First(q) == IF q = <<>> THEN "none" ELSE Head(q)
Step(t) == First(todo[t])
Running(t) == request[t] # NoRequest

-----------------------------------------------------------------------------
\* What is left of a call behind its release of the old block, behind the copy of
\* the old elements, and behind the tracking of the new block.
AfterFree(r) ==
  IF r.op \in Growing THEN Cons("adopt", Finish)
  ELSE IF r.op \in Replacing THEN Cons("malloc", Cons("track", Cons("keep", Finish)))
  ELSE Finish

AfterCopy(r) ==
  IF Buffer(r.x) # nullptr THEN Cons("free", AfterFree(r)) ELSE AfterFree(r)

FillOf(r) == CASE r.op = "construct" -> "zero"
               [] r.op = "from_host" -> "copy host"
               [] OTHER              -> "copy other"

AfterTrack(r) ==
  IF r.op \in Creating THEN Cons(FillOf(r), Finish)
  ELSE IF r.op \in Replacing THEN Cons("keep", Finish)
  ELSE IF Buffer(r.x) # nullptr /\ vec[r.x].size_ > 0 THEN Cons("copy old", AfterCopy(r))
  ELSE AfterCopy(r)

\* Behind the release of a block of another device comes the switch back.
Endings(r) ==
  {AfterFree(r)} \cup (IF seen = {} THEN {} ELSE {Cons(b, AfterFree(r)) : b \in Backs})

\* The steps q left of call r are those of its operation, from the present one on.
Rest(r, q) ==
  LET s == First(q)
      frees == r.op \notin Creating /\ Buffer(r.x) # nullptr
  IN  /\ s \in AllSteps
      /\ s = "malloc" => /\ r.op # "destroy"
                         /\ q = Cons("malloc", Cons("track", AfterTrack(r)))
      /\ s = "track" => r.op # "destroy" /\ q = Cons("track", AfterTrack(r))
      /\ s \in Fills => r.op \in Creating /\ s = FillOf(r) /\ q = Cons(s, Finish)
      /\ s = "copy old" => /\ frees /\ r.op \in Growing /\ vec[r.x].size_ > 0
                           /\ q = Cons("copy old", AfterCopy(r))
      /\ s = "free" => frees /\ \E e \in Endings(r) : q = Cons("free", e)
      /\ s = "free memory" =>
           frees /\ \E e \in Endings(r) : q = Cons("free memory", Cons("untrack", e))
      /\ s = "untrack" => frees /\ \E e \in Endings(r) : q = Cons("untrack", e)
      /\ s \in Backs => frees /\ seen # {} /\ q = Cons(s, AfterFree(r))
      /\ s = "adopt" => r.op \in Growing /\ q = Cons("adopt", Finish)
      /\ s = "keep" => r.op \in Replacing /\ q = Cons("keep", Finish)
      /\ s = "return" => q = Finish

\* How many elements a call that does not grow its vector allocates, and how many
\* any call needs room for.
Asked(r) ==
  IF r.op \in {"construct", "from_host", "copy_from_host"} THEN r.n ELSE vec[r.y].size_
Need(r) == IF r.op \in Growing THEN Wanted(r) ELSE Asked(r)

\* Between allocation and adoption a call holds a block, and only then.
HoldsNew(r, q) ==
  LET s == First(q)
  IN  \/ s \in {"track", "copy old", "adopt", "keep"} \cup Fills
      \/ r.op \in Growing /\ s \in {"free", "free memory", "untrack"} \cup Backs
      \/ r.op \in Creating /\ s = "return" /\ Asked(r) > 0

\* A call that allocates lacks room, one that returns has it.
Room(r, q) ==
  /\ First(q) # "return" /\ r.op # "destroy" =>
       Need(r) > IF r.op \in Creating THEN 0 ELSE vec[r.x].capacity_
  /\ First(q) = "return" /\ r.op \in Growing \cup Replacing =>
       Need(r) <= vec[r.x].capacity_

\* A call that thread t may be in.
Asks(t, r) ==
  /\ r \in Requests[t] /\ Owner[r.x] = t /\ Owner[r.y] = t
  /\ Exists(r.x) <=> r.op \notin Creating
  /\ r.op \in {"copy", "push_vector", "assign"} => Exists(r.y)
  /\ r.op = "assign" => r.x # r.y
  /\ r.op = "set" => r.n \in 1 .. vec[r.x].size_

Within(t, r, q, new) ==
  /\ Asks(t, r) /\ Rest(r, q) /\ Room(r, q)
  /\ new # nullptr <=> HoldsNew(r, q)

\* What concerns one thread and its call.
Local(t) ==
  IF Running(t) THEN Within(t, request[t], todo[t], new_data[t])
  ELSE todo[t] = <<>> /\ new_data[t] = nullptr

\* A vector by itself.
Sound(x) ==
  LET v == vec[x]
  IN  Exists(x) =>
        /\ v \in [data_ : Bases \cup {nullptr}, size_ : Nat, capacity_ : Nat]
        /\ v.size_ <= v.capacity_
        /\ v.data_ # nullptr => v.capacity_ > 0
        /\ "lost" \notin seen /\ v.data_ = nullptr => v.capacity_ = 0

-----------------------------------------------------------------------------
\* The call has released the block its vector still points to.
Released(r, q) ==
  LET s == First(q)
  IN  \/ s \in {"untrack", "adopt", "keep"} \cup Backs
      \/ r.op \in Replacing /\ s \in {"malloc", "track"}
      \/ r.op = "destroy" /\ s = "return"

\* The block a vector holds, the one a thread has yet to untrack.
Owned(x) ==
  LET t == Owner[x]
      released == Running(t) /\ request[t].x = x /\ Released(request[t], todo[t])
  IN  IF Exists(x) /\ ~released THEN vec[x].data_ ELSE nullptr
Untracking(t) ==
  IF Running(t) /\ Step(t) = "untrack" THEN vec[request[t].x].data_ ELSE nullptr

Tracked(b) ==
  /\ b \in DOMAIN allocations_
  /\ allocations_[b] = [size_ |-> heap[b].size, device |-> heap[b].device]

\* Every block that is held is live and tracked, but for a new one before "track".
Held ==
  /\ \A x \in Vectors : Owned(x) # nullptr =>
       Live(Owned(x)) /\ Tracked(Owned(x)) /\ heap[Owned(x)].size = vec[x].capacity_
  /\ \A t \in Threads : new_data[t] # nullptr =>
       /\ Live(new_data[t]) /\ heap[new_data[t]].size = new_capacity(t)
       /\ IF Step(t) = "track"
            THEN heap[new_data[t]].device = get_thread_local_device(t)
            ELSE Tracked(new_data[t])
  /\ \A t \in Threads : Untracking(t) # nullptr => Untracking(t) \in DOMAIN allocations_

\* And by one holder; only a new block may be one that is still to be untracked.
Apart ==
  /\ \A x, y \in Vectors : x # y /\ Owned(x) # nullptr => Owned(x) # Owned(y)
  /\ \A t, u \in Threads : t # u /\ new_data[t] # nullptr => new_data[t] # new_data[u]
  /\ \A x \in Vectors, t \in Threads : Owned(x) # nullptr =>
       Owned(x) # new_data[t] /\ Owned(x) # Untracking(t)
  /\ \A t, u \in Threads : Untracking(t) # nullptr =>
       /\ t # u => Untracking(t) # Untracking(u)
       /\ Step(u) # "track" => Untracking(t) # new_data[u]

\* Nothing else is live or tracked, while nothing unprovided has happened.
NothingElse ==
  seen = {} =>
    /\ \A b \in DOMAIN heap :
         (\E x \in Vectors : Owned(x) = b) \/ (\E t \in Threads : new_data[t] = b)
    /\ \A b \in DOMAIN allocations_ :
         \/ \E x \in Vectors : Owned(x) = b
         \/ \E t \in Threads : Untracking(t) = b
         \/ \E t \in Threads : new_data[t] = b /\ Step(t) # "track"

\* A call works on the device its thread is on, while nothing unprovided has happened,
\* and releases a block on the device the block is on.
OnDevice(t) ==
  Running(t) =>
    /\ seen = {} =>
         /\ \A x \in {request[t].x, request[t].y} : Owned(x) # nullptr =>
              heap[Owned(x)].device = get_thread_local_device(t)
         /\ new_data[t] # nullptr =>
              heap[new_data[t]].device = get_thread_local_device(t)
    /\ Step(t) = "free" /\ todo[t] # Cons("free", AfterFree(request[t])) =>
         heap[Buffer(request[t].x)].device = get_thread_local_device(t)

Shapes ==
  /\ DOMAIN heap \subseteq Bases /\ DOMAIN allocations_ \subseteq Bases
  /\ \A b \in DOMAIN heap : heap[b].device \in Devices
  /\ sCurDevice \in [Threads -> Devices \cup {NoDevice}] /\ m_default_device \in Devices
  /\ vec \in [Vectors -> [data_ : Bases \cup {nullptr}, size_ : Nat, capacity_ : Nat]
                           \cup {Gone}]
  /\ DOMAIN request = Threads /\ DOMAIN todo = Threads
  /\ new_data \in [Threads -> Bases \cup {nullptr}]
  /\ seen \subseteq Unprovided
  /\ outcome \in {"running", "undefined"} /\ (outcome = "undefined" => seen # {})

Good ==
  /\ Shapes
  /\ \A t \in Threads : Local(t) /\ OnDevice(t)
  /\ \A x \in Vectors : Sound(x)
  /\ Held /\ Apart /\ NothingElse

IndInv == "entry kept" \notin seen => Good

-----------------------------------------------------------------------------
(* A sequence that begins with a given step.                                *)
LEMMA One ==
  ASSUME NEW S, NEW e \in S
  PROVE  <<e>> \in Seq(S) /\ Len(<<e>>) = 1 /\ <<e>>[1] = e /\ <<e>> # <<>>
OBVIOUS

(* Its first step and the rest are what it was made of.                     *)
LEMMA ConsFacts ==
  ASSUME NEW S, NEW e \in S, NEW s \in Seq(S)
  PROVE  /\ Cons(e, s) \in Seq(S) /\ Cons(e, s) # <<>>
         /\ Head(Cons(e, s)) = e /\ Tail(Cons(e, s)) = s
         /\ s # <<>> => Len(Cons(e, s)) > 1 /\ Cons(e, s)[2] = Head(s)
         /\ s = <<>> => Len(Cons(e, s)) = 1
<1> DEFINE c == Cons(e, s)
<1>1. <<e>> \in Seq(S) /\ Len(<<e>>) = 1 /\ <<e>>[1] = e
  BY One
<1>2. /\ c \in Seq(S) /\ Len(c) = 1 + Len(s)
      /\ \A i \in 1 .. 1 + Len(s) : c[i] = IF i <= 1 THEN <<e>>[i] ELSE s[i - 1]
  BY <1>1, ConcatProperties DEF Cons
<1> HIDE DEF c
<1>3. Len(s) \in Nat /\ (s = <<>> <=> Len(s) = 0)
  BY LenProperties, EmptySeq
<1>4. c # <<>> /\ c[1] = e
  <2>1. 1 \in 1 .. 1 + Len(s)
    BY <1>3
  <2>2. c[1] = <<e>>[1]
    BY <2>1, <1>2
  <2>3. Len(<<>>) = 0
    OBVIOUS
  <2> QED BY <2>2, <2>3, <1>1, <1>2, <1>3
<1>5. /\ Tail(c) \in Seq(S) /\ Len(Tail(c)) = Len(s)
      /\ \A i \in 1 .. Len(s) : Tail(c)[i] = s[i]
  <2>1. /\ Tail(c) \in Seq(S) /\ Len(Tail(c)) = Len(s)
        /\ \A i \in 1 .. Len(s) : Tail(c)[i] = c[i + 1]
    BY <1>2, <1>3, <1>4, HeadTailProperties
  <2>2. \A i \in 1 .. Len(s) : c[i + 1] = s[i]
    <3>1. \A i \in 1 .. Len(s) : i + 1 \in 1 .. 1 + Len(s) /\ i + 1 > 1 /\ (i + 1) - 1 = i
      BY <1>3
    <3> QED BY <3>1, <1>2
  <2> QED BY <2>1, <2>2
<1>6. Tail(c) = s
  BY <1>2, <1>5, SeqEqual
<1>7. Head(c) = c[1]
  BY <1>2, <1>4
<1>8. s # <<>> => c[2] = s[1] /\ s[1] = Head(s)
  <2> SUFFICES ASSUME s # <<>> PROVE c[2] = s[1] /\ s[1] = Head(s)
    OBVIOUS
  <2>1. 2 \in 1 .. 1 + Len(s) /\ 2 - 1 = 1
    BY <1>3
  <2>2. c[2] = s[1]
    BY <2>1, <1>2
  <2> QED BY <2>2
<1> QED BY <1>2, <1>3, <1>4, <1>6, <1>7, <1>8 DEF c

(* Steps put in front of a sequence are put there one by one.               *)
LEMMA Conses ==
  \A S : \A a, b \in S : \A s \in Seq(S) : <<a, b>> \o s = Cons(a, Cons(b, s))
<1> SUFFICES ASSUME NEW S, NEW a \in S, NEW b \in S, NEW s \in Seq(S)
             PROVE  <<a, b>> \o s = Cons(a, Cons(b, s))
  OBVIOUS
<1>1. <<a, b>> = <<a>> \o <<b>>
  <2>1. /\ <<a>> \o <<b>> \in Seq(S) /\ Len(<<a>> \o <<b>>) = 2
        /\ (<<a>> \o <<b>>)[1] = a /\ (<<a>> \o <<b>>)[2] = b
    BY One, ConcatProperties
  <2>2. <<a, b>> \in Seq(S) /\ Len(<<a, b>>) = 2 /\ <<a, b>>[1] = a /\ <<a, b>>[2] = b
    OBVIOUS
  <2>3. \A i \in 1 .. 2 : i = 1 \/ i = 2
    OBVIOUS
  <2> QED BY <2>1, <2>2, <2>3, SeqEqual
<1>2. (<<a>> \o <<b>>) \o s = <<a>> \o (<<b>> \o s)
  BY One, ConcatAssociative
<1> QED BY <1>1, <1>2 DEF Cons

(* Three steps are two and one.                                             *)
LEMMA Triple ==
  ASSUME NEW S, NEW a \in S, NEW b \in S, NEW c \in S
  PROVE  <<a, b, c>> = <<a, b>> \o <<c>>
<1>1. /\ <<a, b>> \in Seq(S) /\ Len(<<a, b>>) = 2 /\ <<a, b>>[1] = a /\ <<a, b>>[2] = b
      /\ <<c>> \in Seq(S) /\ Len(<<c>>) = 1 /\ <<c>>[1] = c
  OBVIOUS
<1> DEFINE q == <<a, b>> \o <<c>>
<1>2. q \in Seq(S) /\ Len(q) = 3 /\ q[1] = a /\ q[2] = b /\ q[3] = c
  BY <1>1, ConcatProperties
<1>3. /\ <<a, b, c>> \in Seq(S) /\ Len(<<a, b, c>>) = 3
      /\ <<a, b, c>>[1] = a /\ <<a, b, c>>[2] = b /\ <<a, b, c>>[3] = c
  OBVIOUS
<1>4. \A i \in 1 .. 3 : i = 1 \/ i = 2 \/ i = 3
  OBVIOUS
<1> HIDE DEF q
<1>5. \A i \in 1 .. 3 : <<a, b, c>>[i] = q[i]
  BY <1>2, <1>3, <1>4
<1>6. <<a, b, c>> = q
  BY <1>2, <1>3, <1>5, SeqEqual
<1> QED BY <1>6 DEF q

(* Short sequences and concatenation, where only their rules matter.        *)
Single(a) == <<a>>
Pair(a, b) == <<a, b>>
Threesome(a, b, c) == <<a, b, c>>
Join(x, y) == x \o y

(* Its rules.                                                               *)
LEMMA JoinRules ==
  \A S : \A x, y, z \in Seq(S) :
    Join(Join(x, y), z) = Join(x, Join(y, z)) /\ Join(x, y) \in Seq(S)
BY ConcatAssociative, ConcatProperties DEF Join

(* The shapes in which calls put their steps together.                      *)
LEMMA Chains ==
  \A S : \A a, b, c \in S : \A f, g, q \in Seq(S) :
    /\ Join(Threesome(a, b, c), q) = Cons(a, Cons(b, Cons(c, q)))
    /\ Join(Join(f, Threesome(a, b, c)), q) = Join(f, Cons(a, Cons(b, Cons(c, q))))
    /\ Join(Join(Join(Join(Pair(a, b), f), g), Single(c)), q)
         = Cons(a, Cons(b, Join(f, Join(g, Cons(c, q)))))
<1> SUFFICES ASSUME NEW S, NEW a \in S, NEW b \in S, NEW c \in S,
                    NEW f \in Seq(S), NEW g \in Seq(S), NEW q \in Seq(S)
             PROVE  /\ Join(Threesome(a, b, c), q) = Cons(a, Cons(b, Cons(c, q)))
                    /\ Join(Join(f, Threesome(a, b, c)), q) = Join(f, Cons(a, Cons(b, Cons(c, q))))
                    /\ Join(Join(Join(Join(Pair(a, b), f), g), Single(c)), q)
                         = Cons(a, Cons(b, Join(f, Join(g, Cons(c, q)))))
  OBVIOUS
<1>1. Pair(a, b) \in Seq(S) /\ Single(c) \in Seq(S) /\ Threesome(a, b, c) = Join(Pair(a, b), Single(c))
  <2>1. Pair(a, b) \in Seq(S) /\ Single(c) \in Seq(S)
    BY DEF Pair, Single
  <2>2. Threesome(a, b, c) = Join(Pair(a, b), Single(c))
    BY Triple DEF Join, Pair, Single, Threesome
  <2> QED BY <2>1, <2>2
<1>2. \A s \in Seq(S) : Join(Pair(a, b), s) = Cons(a, Cons(b, s))
  BY Conses DEF Join, Pair, Single, Threesome
<1>3. Join(Single(c), q) = Cons(c, q)
  BY DEF Join, Cons, Single
<1>4. \A x, y, z \in Seq(S) :
        Join(Join(x, y), z) = Join(x, Join(y, z)) /\ Join(x, y) \in Seq(S)
  BY JoinRules
<1>5. Cons(c, q) \in Seq(S)
  BY <1>1, <1>3, <1>4
<1>6. Join(Join(Pair(a, b), Single(c)), q) = Cons(a, Cons(b, Cons(c, q)))
  BY <1>1, <1>2, <1>3, <1>4, <1>5
<1>7. Join(Join(f, Join(Pair(a, b), Single(c))), q) = Join(f, Cons(a, Cons(b, Cons(c, q))))
  BY <1>1, <1>4, <1>6
<1>8. Join(Join(Join(Join(Pair(a, b), f), g), Single(c)), q) = Join(Pair(a, b), Join(f, Join(g, Join(Single(c), q))))
  <2>1. Join(Pair(a, b), f) \in Seq(S) /\ Join(Join(Pair(a, b), f), g) \in Seq(S) /\ Join(g, Join(Single(c), q)) \in Seq(S)
    BY <1>1, <1>4
  <2>2. Join(Join(Join(Join(Pair(a, b), f), g), Single(c)), q) = Join(Join(Join(Pair(a, b), f), g), Join(Single(c), q))
    BY <1>1, <1>4, <2>1
  <2>3. Join(Join(Join(Pair(a, b), f), g), Join(Single(c), q)) = Join(Join(Pair(a, b), f), Join(g, Join(Single(c), q)))
    BY <1>1, <1>4, <2>1
  <2>4. Join(Join(Pair(a, b), f), Join(g, Join(Single(c), q))) = Join(Pair(a, b), Join(f, Join(g, Join(Single(c), q))))
    BY <1>1, <1>4, <2>1
  <2> QED BY <2>2, <2>3, <2>4
<1>9. Join(f, Join(g, Cons(c, q))) \in Seq(S)
  BY <1>4, <1>5
<1> QED BY <1>1, <1>2, <1>3, <1>6, <1>7, <1>8, <1>9 

(* The sequences a call is made of.                                         *)
LEMMA CallSequences ==
  ASSUME NEW r, r.op \in Operations
  PROVE  /\ Finish \in Seq(AllSteps) /\ Finish # <<>> /\ Head(Finish) = "return"
         /\ AfterFree(r) \in Seq(AllSteps) /\ AfterFree(r) # <<>>
         /\ Head(AfterFree(r)) = IF r.op \in Growing THEN "adopt"
                                 ELSE IF r.op \in Replacing THEN "malloc" ELSE "return"
         /\ AfterCopy(r) \in Seq(AllSteps) /\ AfterCopy(r) # <<>>
         /\ Head(AfterCopy(r)) = IF Buffer(r.x) # nullptr THEN "free" ELSE Head(AfterFree(r))
         /\ AfterTrack(r) \in Seq(AllSteps) /\ AfterTrack(r) # <<>>
         /\ Head(AfterTrack(r)) =
              IF r.op \in Creating THEN FillOf(r)
              ELSE IF r.op \in Replacing THEN "keep"
              ELSE IF Buffer(r.x) # nullptr /\ vec[r.x].size_ > 0 THEN "copy old"
              ELSE Head(AfterCopy(r))
         /\ \A e \in Endings(r) :
              /\ e \in Seq(AllSteps) /\ e # <<>>
              /\ Head(e) = Head(AfterFree(r)) \/ (Head(e) \in Backs /\ seen # {})
<1>1. \A e \in AllSteps, s \in Seq(AllSteps) :
        Cons(e, s) \in Seq(AllSteps) /\ Cons(e, s) # <<>> /\ Head(Cons(e, s)) = e
  BY ConsFacts
<1>2. /\ "return" \in AllSteps /\ "adopt" \in AllSteps /\ "keep" \in AllSteps
      /\ "track" \in AllSteps /\ "malloc" \in AllSteps /\ "free" \in AllSteps
      /\ "copy old" \in AllSteps /\ FillOf(r) \in AllSteps /\ Backs \subseteq AllSteps
  BY DEF AllSteps, Fills, Backs, FillOf
<1>3. Finish \in Seq(AllSteps) /\ Finish # <<>> /\ Head(Finish) = "return"
  <2>1. Finish \in Seq(AllSteps) /\ Finish # <<>> /\ Finish[1] = "return"
    BY <1>2, One DEF Finish
  <2> QED BY <2>1
<1>4. /\ AfterFree(r) \in Seq(AllSteps) /\ AfterFree(r) # <<>>
      /\ Head(AfterFree(r)) = IF r.op \in Growing THEN "adopt"
                              ELSE IF r.op \in Replacing THEN "malloc" ELSE "return"
  BY <1>1, <1>2, <1>3 DEF AfterFree
<1>5. /\ AfterCopy(r) \in Seq(AllSteps) /\ AfterCopy(r) # <<>>
      /\ Head(AfterCopy(r)) = IF Buffer(r.x) # nullptr THEN "free" ELSE Head(AfterFree(r))
  BY <1>1, <1>2, <1>4 DEF AfterCopy
<1>6. /\ AfterTrack(r) \in Seq(AllSteps) /\ AfterTrack(r) # <<>>
      /\ Head(AfterTrack(r)) =
           IF r.op \in Creating THEN FillOf(r)
           ELSE IF r.op \in Replacing THEN "keep"
           ELSE IF Buffer(r.x) # nullptr /\ vec[r.x].size_ > 0 THEN "copy old"
           ELSE Head(AfterCopy(r))
  BY <1>1, <1>2, <1>3, <1>5 DEF AfterTrack
<1>7. ASSUME NEW e \in Endings(r)
      PROVE  /\ e \in Seq(AllSteps) /\ e # <<>>
             /\ Head(e) = Head(AfterFree(r)) \/ (Head(e) \in Backs /\ seen # {})
  <2>1. CASE e = AfterFree(r)
    BY <2>1, <1>4
  <2>2. CASE seen # {} /\ \E b \in Backs : e = Cons(b, AfterFree(r))
    <3>1. PICK b \in Backs : e = Cons(b, AfterFree(r))
      BY <2>2
    <3>2. b \in AllSteps
      BY <1>2
    <3>3. e \in Seq(AllSteps) /\ e # <<>> /\ Head(e) = b
      BY <1>1, <1>4, <3>1, <3>2
    <3> QED BY <2>2, <3>3
  <2> QED BY <2>1, <2>2 DEF Endings
<1> QED BY <1>3, <1>4, <1>5, <1>6, <1>7

(* At each step of a call, what is left behind it.                          *)
LEMMA Moves ==
  ASSUME NEW r, NEW q, r.op \in Operations, Rest(r, q)
  PROVE  LET s == First(q)
         IN  /\ q # <<>> /\ Head(q) = s
             /\ s = "malloc" => Tail(q) = Cons("track", AfterTrack(r))
             /\ s = "track" => Tail(q) = AfterTrack(r)
             /\ s \in Fills \cup {"adopt", "keep"} => Tail(q) = Finish
             /\ s = "copy old" => Tail(q) = AfterCopy(r)
             /\ s = "free" => Tail(q) \in Endings(r)
             /\ s = "free memory" => \E e \in Endings(r) : Tail(q) = Cons("untrack", e)
             /\ s = "untrack" => Tail(q) \in Endings(r)
             /\ s \in Backs => Tail(q) = AfterFree(r)
<1> DEFINE s == First(q)
<1>1. \A e \in AllSteps, z \in Seq(AllSteps) :
        Cons(e, z) \in Seq(AllSteps) /\ Tail(Cons(e, z)) = z
  BY ConsFacts
<1>2. /\ \A e \in Fills \cup Backs : e \in AllSteps
      /\ "adopt" \in AllSteps /\ "keep" \in AllSteps /\ "untrack" \in AllSteps
      /\ "track" \in AllSteps /\ "malloc" \in AllSteps /\ "free" \in AllSteps
      /\ "copy old" \in AllSteps /\ "free memory" \in AllSteps /\ "none" \notin AllSteps
  BY DEF AllSteps, Fills, Backs
<1>3. /\ Finish \in Seq(AllSteps) /\ AfterFree(r) \in Seq(AllSteps)
      /\ AfterCopy(r) \in Seq(AllSteps) /\ AfterTrack(r) \in Seq(AllSteps)
      /\ \A e \in Endings(r) : e \in Seq(AllSteps)
  BY CallSequences
<1>4. q # <<>> /\ Head(q) = s
  BY <1>2 DEF Rest, First
<1>5. /\ s = "malloc" => Tail(q) = Cons("track", AfterTrack(r))
      /\ s = "track" => Tail(q) = AfterTrack(r)
  <2>1. /\ s = "malloc" => q = Cons("malloc", Cons("track", AfterTrack(r)))
        /\ s = "track" => q = Cons("track", AfterTrack(r))
    BY DEF Rest
  <2>2. Cons("track", AfterTrack(r)) \in Seq(AllSteps)
        /\ Tail(Cons("track", AfterTrack(r))) = AfterTrack(r)
    BY <1>1, <1>2, <1>3
  <2>3. Tail(Cons("malloc", Cons("track", AfterTrack(r)))) = Cons("track", AfterTrack(r))
    BY <1>1, <1>2, <2>2
  <2> QED BY <2>1, <2>2, <2>3
<1>6. s \in Fills \cup {"adopt", "keep"} => Tail(q) = Finish
  <2>1. s \in Fills \cup {"adopt", "keep"} => q = Cons(s, Finish)
    BY DEF Rest, Fills
  <2>2. s \in Fills \cup {"adopt", "keep"} => s \in AllSteps
    BY <1>2
  <2> HIDE DEF s
  <2> QED BY <1>1, <1>3, <2>1, <2>2
<1>7. s = "copy old" => Tail(q) = AfterCopy(r)
  BY <1>1, <1>2, <1>3 DEF Rest
<1>8. s = "free" => Tail(q) \in Endings(r)
  BY <1>1, <1>2, <1>3 DEF Rest
<1>9. s = "free memory" => \E e \in Endings(r) : Tail(q) = Cons("untrack", e)
  <2> SUFFICES ASSUME s = "free memory"
               PROVE  \E e \in Endings(r) : Tail(q) = Cons("untrack", e)
    OBVIOUS
  <2>1. PICK e \in Endings(r) : q = Cons("free memory", Cons("untrack", e))
    BY DEF Rest
  <2>2. Cons("untrack", e) \in Seq(AllSteps)
    BY <1>1, <1>2, <1>3
  <2>3. Tail(q) = Cons("untrack", e)
    BY <1>1, <1>2, <2>1, <2>2
  <2> QED BY <2>3
<1>10. s = "untrack" => Tail(q) \in Endings(r)
  <2> SUFFICES ASSUME s = "untrack" PROVE Tail(q) \in Endings(r)
    OBVIOUS
  <2>1. PICK e \in Endings(r) : q = Cons("untrack", e)
    BY DEF Rest
  <2>2. e \in Seq(AllSteps) /\ "untrack" \in AllSteps
    BY <1>2, <1>3
  <2>3. Tail(Cons("untrack", e)) = e
    BY <1>1, <2>2
  <2> QED BY <2>1, <2>3
<1>11. s \in Backs => Tail(q) = AfterFree(r)
  BY <1>1, <1>2, <1>3 DEF Rest
<1> QED BY <1>4, <1>5, <1>6, <1>7, <1>8, <1>9, <1>10, <1>11

(* What a call begins with.                                                 *)
LEMMA Begins ==
  ASSUME NEW r, r.op \in Operations
  PROVE  LET v == vec[r.x]
             allocate == Cons("malloc", Cons("track", AfterTrack(r)))
         IN  /\ r.op \in Creating => Steps(r) = IF Asked(r) = 0 THEN Finish ELSE allocate
             /\ r.op \in Growing =>
                  Steps(r) = IF Wanted(r) <= v.capacity_ THEN Finish ELSE allocate
             /\ r.op \in Replacing =>
                  Steps(r) = IF Asked(r) <= v.capacity_ THEN Finish ELSE AfterCopy(r)
             /\ r.op = "destroy" => Steps(r) = AfterCopy(r)
<1>a. \A a, b, c \in AllSteps : \A q \in Seq(AllSteps) :
        Join(Threesome(a, b, c), q) = Cons(a, Cons(b, Cons(c, q)))
  BY Chains
<1>b. \A a, b, c \in AllSteps : \A f, q \in Seq(AllSteps) :
        Join(Join(f, Threesome(a, b, c)), q) = Join(f, Cons(a, Cons(b, Cons(c, q))))
  BY Chains
<1>c. \A a, b, c \in AllSteps : \A f, g, q \in Seq(AllSteps) :
        Join(Join(Join(Join(Pair(a, b), f), g), Single(c)), q)
          = Cons(a, Cons(b, Join(f, Join(g, Cons(c, q)))))
  BY Chains
<1> DEFINE S == AllSteps
           v == vec[r.x]
           Old == IF v.data_ # nullptr /\ v.size_ > 0 THEN <<"copy old">> ELSE <<>>
           Freed == IF v.data_ # nullptr THEN <<"free">> ELSE <<>>
<1>0. /\ "adopt" \in S /\ "keep" \in S /\ "track" \in S /\ "malloc" \in S
      /\ "free" \in S /\ "copy old" \in S /\ FillOf(r) \in S
  BY DEF AllSteps, Fills, FillOf
<1>1. /\ Finish \in Seq(S) /\ AfterFree(r) \in Seq(S) /\ AfterCopy(r) \in Seq(S)
  BY CallSequences
<1>2. <<"free">> \in Seq(S) /\ <<"copy old">> \in Seq(S) /\ <<>> \in Seq(S)
  BY <1>0, One, EmptySeq
<1>3. Old \in Seq(S) /\ Freed \in Seq(S)
  BY <1>2
<1>4. \A q \in Seq(S) : Join(<<>>, q) = q
  BY ConcatEmptySeq DEF Join
<1>5. Join(Freed, AfterFree(r)) = AfterCopy(r)
  <2>1. Join(<<"free">>, AfterFree(r)) = Cons("free", AfterFree(r))
    BY DEF Join, Cons
  <2> QED BY <1>1, <1>4, <2>1 DEF AfterCopy, Buffer
<1>6. ASSUME r.op \in Creating
      PROVE  Steps(r) = IF Asked(r) = 0 THEN Finish ELSE Cons("malloc", Cons("track", AfterTrack(r)))
  <2>1. Steps(r) = Join(new_block(Asked(r), FillOf(r)), Finish)
    BY <1>6 DEF Steps, Creating, Asked, FillOf, Finish, Join
  <2>2. Join(<<>>, Finish) = Finish
    BY <1>1, <1>4
  <2>3. Join(Threesome("malloc", "track", FillOf(r)), Finish)
          = Cons("malloc", Cons("track", Cons(FillOf(r), Finish)))
    <3>1. "malloc" \in AllSteps /\ "track" \in AllSteps /\ FillOf(r) \in AllSteps
      BY <1>0
    <3>2. Finish \in Seq(AllSteps)
      BY <1>1
    <3> HIDE DEF S
    <3> QED BY <3>1, <3>2, <1>a
  <2>4. AfterTrack(r) = Cons(FillOf(r), Finish)
    BY <1>6 DEF AfterTrack
  <2> QED BY <2>1, <2>2, <2>3, <2>4 DEF new_block, Threesome
<1>7. ASSUME r.op \in Growing
      PROVE  Steps(r) = IF Wanted(r) <= v.capacity_ THEN Finish
                        ELSE Cons("malloc", Cons("track", AfterTrack(r)))
  <2>1. Steps(r) = Join(grow(v, Wanted(r)), Finish)
    BY <1>7 DEF Steps, Growing, Finish, Join
  <2>2. Join(<<>>, Finish) = Finish
    BY <1>1, <1>4
  <2>3. Join(Join(Join(Join(Pair("malloc", "track"), Old), Freed), Single("adopt")), Finish)
          = Cons("malloc", Cons("track", Join(Old, Join(Freed, Cons("adopt", Finish)))))
    <3>1. "malloc" \in AllSteps /\ "track" \in AllSteps /\ "adopt" \in AllSteps
      BY <1>0
    <3>2. Finish \in Seq(AllSteps)
      BY <1>1
    <3>3. Old \in Seq(AllSteps) /\ Freed \in Seq(AllSteps)
      BY <1>3
    <3> HIDE DEF S, v, Old, Freed
    <3> QED BY <3>1, <3>2, <3>3, <1>c
  <2>4. Cons("adopt", Finish) = AfterFree(r)
    BY <1>7 DEF AfterFree
  <2>5. Join(Old, AfterCopy(r)) = AfterTrack(r)
    <3>1. r.op \notin Creating /\ r.op \notin Replacing
      BY <1>7 DEF Growing, Creating, Replacing
    <3>2. Join(<<"copy old">>, AfterCopy(r)) = Cons("copy old", AfterCopy(r))
      BY DEF Join, Cons
    <3> QED BY <1>1, <1>4, <3>1, <3>2 DEF AfterTrack, Buffer
  <2>6. Join(Join(Join(Join(Pair("malloc", "track"), Old), Freed), Single("adopt")), Finish)
          = Cons("malloc", Cons("track", AfterTrack(r)))
    <3> HIDE DEF Old, Freed
    <3> QED BY <1>5, <2>3, <2>4, <2>5
  <2>7. grow(v, Wanted(r)) = IF Wanted(r) <= v.capacity_ THEN <<>>
                             ELSE Join(Join(Join(Pair("malloc", "track"), Old), Freed), Single("adopt"))
    BY DEF grow, Join, Pair, Single
  <2> HIDE DEF Old, Freed
  <2> QED BY <2>1, <2>2, <2>6, <2>7
<1>8. ASSUME r.op \in Replacing
      PROVE  Steps(r) = IF Asked(r) <= v.capacity_ THEN Finish ELSE AfterCopy(r)
  <2>1. Steps(r) = Join(replace(v, Asked(r)), Finish)
    BY <1>8 DEF Steps, Replacing, Finish, Asked, Join
  <2>2. Join(<<>>, Finish) = Finish
    BY <1>1, <1>4
  <2>3. Join(Join(Freed, Threesome("malloc", "track", "keep")), Finish)
          = Join(Freed, Cons("malloc", Cons("track", Cons("keep", Finish))))
    <3>1. "malloc" \in AllSteps /\ "track" \in AllSteps /\ "keep" \in AllSteps
      BY <1>0
    <3>2. Finish \in Seq(AllSteps)
      BY <1>1
    <3>3. Freed \in Seq(AllSteps)
      BY <1>3
    <3> HIDE DEF S, v, Old, Freed
    <3> QED BY <3>1, <3>2, <3>3, <1>b
  <2>4. AfterFree(r) = Cons("malloc", Cons("track", Cons("keep", Finish)))
    BY <1>8 DEF AfterFree, Growing, Replacing
  <2>5. Join(Join(Freed, Threesome("malloc", "track", "keep")), Finish) = AfterCopy(r)
    <3> HIDE DEF Freed
    <3> QED BY <1>5, <2>3, <2>4
  <2>6. replace(v, Asked(r)) = IF Asked(r) <= v.capacity_ THEN <<>>
                               ELSE Join(Freed, Threesome("malloc", "track", "keep"))
    BY DEF replace, Join, Threesome
  <2> HIDE DEF Freed
  <2> QED BY <2>1, <2>2, <2>5, <2>6
<1>9. ASSUME r.op = "destroy" PROVE Steps(r) = AfterCopy(r)
  <2>1. Steps(r) = Join(Freed, Finish)
    BY <1>9 DEF Steps, Finish, Buffer, Join
  <2>2. AfterFree(r) = Finish
    BY <1>9 DEF AfterFree, Growing, Replacing
  <2> HIDE DEF Freed
  <2> QED BY <1>5, <2>1, <2>2
<1> QED BY <1>6, <1>7, <1>8, <1>9

(* The sequences that are left are rests of their calls.                    *)
LEMMA Rests ==
  ASSUME NEW r, r.op \in Operations
  PROVE  /\ Rest(r, Finish) /\ First(Finish) = "return"
         /\ r.op \notin Creating /\ Buffer(r.x) # nullptr =>
              \A e \in Endings(r) :
                /\ Rest(r, e)
                /\ First(e) = First(AfterFree(r)) \/ (First(e) \in Backs /\ seen # {})
         /\ AfterFree(r) \in Endings(r)
         /\ First(AfterFree(r)) = IF r.op \in Growing THEN "adopt"
                                  ELSE IF r.op \in Replacing THEN "malloc" ELSE "return"
         /\ r.op \notin Creating => Rest(r, AfterCopy(r)) /\ Rest(r, AfterFree(r))
         /\ First(AfterCopy(r)) = IF Buffer(r.x) # nullptr THEN "free" ELSE First(AfterFree(r))
         /\ r.op # "destroy" =>
              /\ Rest(r, AfterTrack(r)) /\ Rest(r, Cons("track", AfterTrack(r)))
              /\ Rest(r, Cons("malloc", Cons("track", AfterTrack(r))))
         /\ First(AfterTrack(r)) =
              IF r.op \in Creating THEN FillOf(r)
              ELSE IF r.op \in Replacing THEN "keep"
              ELSE IF Buffer(r.x) # nullptr /\ vec[r.x].size_ > 0 THEN "copy old"
              ELSE First(AfterCopy(r))
<1>1. \A e \in AllSteps, z \in Seq(AllSteps) :
        Cons(e, z) \in Seq(AllSteps) /\ First(Cons(e, z)) = e
  BY ConsFacts DEF First
<1>2. /\ "return" \in AllSteps /\ "adopt" \in AllSteps /\ "keep" \in AllSteps
      /\ "track" \in AllSteps /\ "malloc" \in AllSteps /\ "free" \in AllSteps
      /\ "copy old" \in AllSteps /\ FillOf(r) \in AllSteps /\ Backs \subseteq AllSteps
      /\ FillOf(r) \in Fills
  BY DEF AllSteps, Fills, Backs, FillOf
<1>3. /\ Finish \in Seq(AllSteps) /\ First(Finish) = "return"
      /\ AfterFree(r) \in Seq(AllSteps)
      /\ First(AfterFree(r)) = IF r.op \in Growing THEN "adopt"
                               ELSE IF r.op \in Replacing THEN "malloc" ELSE "return"
      /\ AfterCopy(r) \in Seq(AllSteps)
      /\ First(AfterCopy(r)) = IF Buffer(r.x) # nullptr THEN "free" ELSE First(AfterFree(r))
      /\ AfterTrack(r) \in Seq(AllSteps)
      /\ First(AfterTrack(r)) =
              IF r.op \in Creating THEN FillOf(r)
              ELSE IF r.op \in Replacing THEN "keep"
              ELSE IF Buffer(r.x) # nullptr /\ vec[r.x].size_ > 0 THEN "copy old"
              ELSE First(AfterCopy(r))
      /\ \A e \in Endings(r) :
           /\ e \in Seq(AllSteps)
           /\ First(e) = First(AfterFree(r)) \/ (First(e) \in Backs /\ seen # {})
  BY CallSequences DEF First
<1>4. Rest(r, Finish)
  BY <1>2, <1>3 DEF Rest, Fills, Backs
<1>5. AfterFree(r) \in Endings(r)
  BY DEF Endings
<1>6. r.op \in Growing => r.op \notin Replacing /\ r.op \notin Creating /\ r.op # "destroy"
  BY DEF Growing, Replacing, Creating
<1>7. r.op \in Replacing => r.op \notin Creating /\ r.op # "destroy"
  BY DEF Replacing, Creating
<1>8. ASSUME r.op \in Replacing PROVE Rest(r, Cons("keep", Finish)) /\ AfterTrack(r) = Cons("keep", Finish)
  <2>1. First(Cons("keep", Finish)) = "keep"
    BY <1>1, <1>2, <1>3
  <2> QED BY <1>2, <1>7, <1>8, <2>1 DEF Rest, AfterTrack, Fills, Backs
<1>9. ASSUME r.op # "destroy"
      PROVE  /\ Rest(r, Cons("track", AfterTrack(r)))
             /\ Rest(r, Cons("malloc", Cons("track", AfterTrack(r))))
  <2>1. /\ First(Cons("track", AfterTrack(r))) = "track"
        /\ First(Cons("malloc", Cons("track", AfterTrack(r)))) = "malloc"
    BY <1>1, <1>2, <1>3
  <2> QED BY <1>2, <1>9, <2>1 DEF Rest, Fills, Backs
<1>10. ASSUME r.op \notin Creating PROVE Rest(r, AfterFree(r))
  <2>1. CASE r.op \in Growing
    <3>1. First(Cons("adopt", Finish)) = "adopt" /\ AfterFree(r) = Cons("adopt", Finish)
      BY <1>1, <1>2, <1>3, <2>1 DEF AfterFree
    <3> QED BY <1>2, <2>1, <3>1 DEF Rest, Fills, Backs
  <2>2. CASE r.op \in Replacing
    BY <1>6, <1>7, <1>8, <1>9, <2>2 DEF AfterFree
  <2>3. CASE r.op \notin Growing /\ r.op \notin Replacing
    BY <1>4, <2>3 DEF AfterFree
  <2> QED BY <2>1, <2>2, <2>3
<1>11. ASSUME r.op \notin Creating, Buffer(r.x) # nullptr, NEW e \in Endings(r)
       PROVE  Rest(r, e) /\ Rest(r, Cons("free", e)) 
  <2>1. First(Cons("free", e)) = "free"
    BY <1>1, <1>2, <1>3
  <2>2. Rest(r, Cons("free", e))
    BY <1>2, <1>11, <2>1 DEF Rest, Fills, Backs
  <2>3. CASE e = AfterFree(r)
    BY <1>10, <1>11, <2>2, <2>3
  <2>4. CASE seen # {} /\ \E b \in Backs : e = Cons(b, AfterFree(r))
    <3>1. PICK b \in Backs : e = Cons(b, AfterFree(r))
      BY <2>4
    <3>2. First(e) = b /\ b \in AllSteps
      BY <1>1, <1>2, <1>3, <3>1
    <3>3. b = "back" \/ b = "back to default"
      BY DEF Backs
    <3>4. Rest(r, e)
      BY <1>11, <2>4, <3>1, <3>2, <3>3 DEF Rest, Fills, Backs
    <3> QED BY <2>2, <3>4
  <2> QED BY <2>3, <2>4 DEF Endings
<1>12. ASSUME r.op \notin Creating PROVE Rest(r, AfterCopy(r))
  BY <1>5, <1>10, <1>11, <1>12 DEF AfterCopy
<1>13. ASSUME r.op # "destroy" PROVE Rest(r, AfterTrack(r))
  <2>1. CASE r.op \in Creating
    <3>1. First(Cons(FillOf(r), Finish)) = FillOf(r) /\ AfterTrack(r) = Cons(FillOf(r), Finish)
      BY <1>1, <1>2, <1>3, <2>1 DEF AfterTrack
    <3>2. FillOf(r) \notin {"malloc", "track", "copy old", "free", "free memory", "untrack",
                            "adopt", "keep", "return"} \cup Backs
      BY DEF FillOf, Backs
    <3> QED BY <1>2, <2>1, <3>1, <3>2 DEF Rest
  <2>2. CASE r.op \in Replacing
    BY <1>8, <2>2
  <2>3. CASE r.op \in Growing /\ Buffer(r.x) # nullptr /\ vec[r.x].size_ > 0
    <3>1. /\ First(Cons("copy old", AfterCopy(r))) = "copy old"
          /\ AfterTrack(r) = Cons("copy old", AfterCopy(r))
      BY <1>1, <1>2, <1>3, <1>6, <2>3 DEF AfterTrack
    <3> QED BY <1>2, <1>6, <2>3, <3>1 DEF Rest, Fills, Backs
  <2>4. CASE r.op \in Growing /\ ~(Buffer(r.x) # nullptr /\ vec[r.x].size_ > 0)
    BY <1>6, <1>12, <2>4 DEF AfterTrack
  <2> QED BY <1>13, <2>1, <2>2, <2>3, <2>4 DEF Operations
<1> QED BY <1>3, <1>4, <1>5, <1>9, <1>10, <1>11, <1>12, <1>13

(* What comes after each step of a call is a rest of it, and begins thus.   *)
LEMMA Follows ==
  ASSUME NEW r, NEW q, r.op \in Operations, Rest(r, q)
  PROVE  LET s == First(q)
             n == Tail(q)
             freed == First(AfterFree(r))
         IN  /\ s = "malloc" => Rest(r, n) /\ First(n) = "track"
             /\ s = "track" => Rest(r, n) /\ First(n) = First(AfterTrack(r))
             /\ s = "copy old" => Rest(r, n) /\ First(n) = "free"
             /\ s = "free memory" => Rest(r, n) /\ First(n) = "untrack"
             /\ s \in {"untrack"} \cup Backs =>
                  Rest(r, n) /\ (First(n) = freed \/ (First(n) \in Backs /\ seen # {}))
             /\ s \in Fills \cup {"adopt", "keep"} => n = Finish
<1> DEFINE s == First(q)
           n == Tail(q)
<1>a. \A e \in AllSteps, z \in Seq(AllSteps) : First(Cons(e, z)) = e
  BY ConsFacts DEF First
<1>b. /\ AfterTrack(r) \in Seq(AllSteps)
      /\ \A e \in Endings(r) : e \in Seq(AllSteps)
  BY CallSequences
<1>c. "track" \in AllSteps /\ "untrack" \in AllSteps
  BY DEF AllSteps
<1>d. /\ s = "malloc" => n = Cons("track", AfterTrack(r))
      /\ s = "track" => n = AfterTrack(r)
      /\ s \in Fills \cup {"adopt", "keep"} => n = Finish
      /\ s = "copy old" => n = AfterCopy(r)
      /\ s = "free memory" => \E e \in Endings(r) : n = Cons("untrack", e)
      /\ s = "untrack" => n \in Endings(r)
      /\ s \in Backs => n = AfterFree(r)
  BY Moves
<1>e. /\ s \in {"malloc", "track"} => r.op # "destroy"
      /\ s = "copy old" => r.op \in Growing
      /\ s \in {"copy old", "free memory", "untrack"} \cup Backs =>
           r.op \notin Creating /\ Buffer(r.x) # nullptr
  BY DEF Rest, Backs
<1>1. CASE s = "malloc"
  <2>1. n = Cons("track", AfterTrack(r)) /\ r.op # "destroy"
    BY <1>1, <1>d, <1>e
  <2>2. Rest(r, n)
    BY <2>1, Rests
  <2>3. First(n) = "track"
    BY <2>1, <1>a, <1>b, <1>c
  <2> QED BY <1>1, <2>2, <2>3 DEF Fills, Backs
<1>2. CASE s = "track"
  <2>1. n = AfterTrack(r) /\ Rest(r, n)
    BY <1>2, <1>d, <1>e, Rests
  <2> QED BY <1>2, <2>1 DEF Fills, Backs
<1>3. CASE s = "copy old"
  <2>1. n = AfterCopy(r) /\ Rest(r, n) /\ First(n) = "free"
    BY <1>3, <1>d, <1>e, Rests
  <2> QED BY <1>3, <2>1 DEF Fills, Backs
<1>4. CASE s = "free memory"
  <2>1. PICK e \in Endings(r) : n = Cons("untrack", e)
    BY <1>4, <1>d
  <2>2. First(n) = "untrack"
    BY <2>1, <1>a, <1>b, <1>c
  <2>3. Rest(r, n)
    BY <1>c, <1>e, <1>4, <2>1, <2>2 DEF Rest, Fills, Backs
  <2> QED BY <1>4, <2>2, <2>3 DEF Fills, Backs
<1>5. CASE s \in {"untrack"} \cup Backs
  <2>1. r.op \notin Creating /\ Buffer(r.x) # nullptr
    BY <1>5, <1>e
  <2>2. AfterFree(r) \in Endings(r)
    BY DEF Endings
  <2>3. n \in Endings(r)
    BY <1>5, <1>d, <2>2
  <2>4. Rest(r, n) /\ (First(n) = First(AfterFree(r)) \/ (First(n) \in Backs /\ seen # {}))
    BY <2>1, <2>3, Rests
  <2>5. s \notin {"malloc", "track", "copy old", "free memory", "adopt", "keep"} \cup Fills
    BY <1>5 DEF Fills, Backs
  <2> QED BY <2>4, <2>5
<1>6. CASE s \in Fills \cup {"adopt", "keep"}
  BY <1>6, <1>d DEF Fills, Backs
<1> QED BY <1>1, <1>2, <1>3, <1>4, <1>5, <1>6

(* And what icicle_free does in the place of "free".                        *)
LEMMA FollowsFree ==
  ASSUME NEW r, NEW q, r.op \in Operations, Rest(r, q), First(q) = "free"
  PROVE  LET here == <<"free memory", "untrack">> \o Tail(q)
             there(b) == <<"free", b>> \o Tail(q)
         IN  /\ r.op \notin Creating /\ Buffer(r.x) # nullptr
             /\ Rest(r, here) /\ First(here) = "free memory"
             /\ q = Cons("free", Tail(q)) /\ Tail(q) \in Endings(r)
             /\ q = Cons("free", AfterFree(r)) /\ seen # {} =>
                  \A b \in Backs : Rest(r, there(b)) /\ First(there(b)) = "free"
             /\ Len(q) > 1
             /\ q[2] \in {"back", "back to default"} => q # Cons("free", AfterFree(r))
<1> DEFINE n == Tail(q)
<1>1. n \in Endings(r) /\ q = Cons("free", n) /\ r.op \notin Creating /\ Buffer(r.x) # nullptr
  <2>1. PICK e \in Endings(r) : q = Cons("free", e)
    BY DEF Rest
  <2>2. e \in Seq(AllSteps) /\ "free" \in AllSteps
    BY CallSequences DEF AllSteps
  <2>3. Tail(Cons("free", e)) = e
    BY <2>2, ConsFacts
  <2> QED BY <2>1, <2>3 DEF Rest
<1>2. /\ n \in Seq(AllSteps) /\ n # <<>>
      /\ AfterFree(r) \in Seq(AllSteps) /\ AfterFree(r) # <<>>
      /\ Head(AfterFree(r)) \notin Backs
  BY <1>1, CallSequences DEF Backs
<1>3. /\ "free" \in AllSteps /\ "free memory" \in AllSteps /\ "untrack" \in AllSteps
      /\ \A b \in Backs : b \in AllSteps
  BY DEF AllSteps, Backs
<1> HIDE DEF n
<1>4. /\ <<"free memory", "untrack">> \o n = Cons("free memory", Cons("untrack", n))
      /\ \A b \in Backs : <<"free", b>> \o n = Cons("free", Cons(b, n))
  <2>1. \A a, b \in AllSteps : \A z \in Seq(AllSteps) : <<a, b>> \o z = Cons(a, Cons(b, z))
    BY Conses
  <2> QED BY <1>2, <1>3, <2>1
<1>5. \A e \in AllSteps, z \in Seq(AllSteps) :
        /\ Cons(e, z) \in Seq(AllSteps) /\ First(Cons(e, z)) = e
        /\ z # <<>> => Len(Cons(e, z)) > 1 /\ Cons(e, z)[2] = Head(z)
  BY ConsFacts DEF First
<1>6. /\ First(Cons("free memory", Cons("untrack", n))) = "free memory"
      /\ Rest(r, Cons("free memory", Cons("untrack", n)))
  <2>1. First(Cons("free memory", Cons("untrack", n))) = "free memory"
    BY <1>2, <1>3, <1>5
  <2> QED BY <1>1, <1>3, <2>1 DEF Rest, Fills, Backs
<1>7. ASSUME q = Cons("free", AfterFree(r)), seen # {}, NEW b \in Backs
      PROVE  /\ Rest(r, Cons("free", Cons(b, n))) /\ First(Cons("free", Cons(b, n))) = "free"
  <2>1. First(Cons("free", Cons(b, n))) = "free"
    BY <1>2, <1>3, <1>5
  <2>2. n = AfterFree(r)
    <3>1. \A e \in AllSteps, z \in Seq(AllSteps) : Tail(Cons(e, z)) = z
      BY ConsFacts
    <3>2. Tail(Cons("free", AfterFree(r))) = AfterFree(r)
      BY <1>2, <1>3, <3>1
    <3> QED BY <1>7, <3>2 DEF n
  <2>3. Cons(b, n) \in Endings(r)
    BY <1>7, <2>2 DEF Endings
  <2> QED BY <1>1, <1>3, <2>1, <2>3 DEF Rest, Fills, Backs
<1>8. Len(q) > 1 /\ q[2] = Head(n)
  BY <1>1, <1>2, <1>3, <1>5
<1>9. q[2] \in Backs => q # Cons("free", AfterFree(r))
  <2>1. Cons("free", AfterFree(r))[2] = Head(AfterFree(r))
    BY <1>2, <1>3, <1>5
  <2> QED BY <1>2, <2>1
<1> QED BY <1>1, <1>4, <1>6, <1>7, <1>8, <1>9 DEF n, Backs

-----------------------------------------------------------------------------
(* A call stays where it is while its vectors do.                           *)
LEMMA RestStays ==
  ASSUME NEW r, NEW q, Rest(r, q), seen \subseteq seen',
         vec'[r.x] = vec[r.x], vec'[r.y] = vec[r.y]
  PROVE  Rest(r, q)' /\ AfterFree(r)' = AfterFree(r)
<1>1. Buffer(r.x)' = Buffer(r.x)
  BY DEF Buffer
<1>2. AfterFree(r)' = AfterFree(r)
  BY DEF AfterFree, Finish, Cons
<1>3. AfterCopy(r)' = AfterCopy(r)
  BY <1>1, <1>2 DEF AfterCopy
<1>4. AfterTrack(r)' = AfterTrack(r)
  BY <1>1, <1>3 DEF AfterTrack
<1>5. Endings(r) \subseteq Endings(r)'
  BY <1>2 DEF Endings
<1>6. seen # {} => seen' # {}
  OBVIOUS
<1>7. ASSUME First(q) = "free" PROVE \E e \in Endings(r)' : q = Cons("free", e)
  BY <1>5, <1>7 DEF Rest
<1>8. ASSUME First(q) = "free memory"
      PROVE  \E e \in Endings(r)' : q = Cons("free memory", Cons("untrack", e))
  BY <1>5, <1>8 DEF Rest
<1>9. ASSUME First(q) = "untrack" PROVE \E e \in Endings(r)' : q = Cons("untrack", e)
  BY <1>5, <1>9 DEF Rest
<1>10. Rest(r, q)'
  BY <1>1, <1>2, <1>3, <1>4, <1>6, <1>7, <1>8, <1>9 DEF Rest
<1> QED BY <1>2, <1>10

(* And what it asks for.                                                    *)
LEMMA AskedStays ==
  ASSUME NEW r, vec'[r.x] = vec[r.x], vec'[r.y] = vec[r.y]
  PROVE  Asked(r)' = Asked(r) /\ Wanted(r)' = Wanted(r) /\ Need(r)' = Need(r)
BY DEF Asked, Wanted, Need

(* So what has been said of it stays true.                                  *)
LEMMA WithinStays ==
  ASSUME NEW t, NEW r, NEW q, NEW new, Within(t, r, q, new), seen \subseteq seen',
         vec'[r.x] = vec[r.x], vec'[r.y] = vec[r.y]
  PROVE  Within(t, r, q, new)'
<1>1. Asks(t, r)'
  BY DEF Within, Asks, Exists
<1>2. Rest(r, q)'
  BY RestStays DEF Within
<1>3. Room(r, q)'
  BY AskedStays DEF Within, Room
<1>4. HoldsNew(r, q)' <=> HoldsNew(r, q)
  BY AskedStays DEF HoldsNew
<1> QED BY <1>1, <1>2, <1>3, <1>4 DEF Within

(* How much a call allocates, by the kind of call.                          *)
LEMMA Allocates ==
  ASSUME NEW t, NEW r, r = request[t], r.op \in Operations
  PROVE  new_capacity(t) =
           IF r.op \in Creating \cup Replacing THEN Asked(r)
           ELSE LET double == IF vec[r.x].capacity_ = 0 THEN 1 ELSE 2 * vec[r.x].capacity_
                IN  IF double < Wanted(r) THEN Wanted(r) ELSE double
<1>1. CASE r.op \in Creating \cup Replacing
  BY <1>1 DEF new_capacity, Creating, Replacing, Asked
<1>2. CASE r.op \notin Creating \cup Replacing
  BY <1>2 DEF new_capacity, Creating, Replacing
<1> QED BY <1>1, <1>2

-----------------------------------------------------------------------------
(* How the blocks change hands.                                             *)

\* A step that leaves alone what a thread, and what a vector holds.
Undisturbed(u) ==
  /\ new_data'[u] = new_data[u] /\ Untracking(u)' = Untracking(u)
  /\ new_data[u] # nullptr =>
       /\ new_capacity(u)' = new_capacity(u)
       /\ Step(u)' = "track" <=> Step(u) = "track"
       /\ Step(u) = "track" => get_thread_local_device(u)' = get_thread_local_device(u)
Keeps(x) ==
  /\ Owned(x)' = Owned(x)
  /\ Owned(x) # nullptr => vec'[x].capacity_ = vec[x].capacity_

(* Without a step that moves a block, everything stays in order.            *)
LEMMA NothingMoves ==
  ASSUME Held, Apart, NothingElse, seen \subseteq seen', DOMAIN heap \subseteq Bases,
         DOMAIN allocations_ \subseteq Bases, nullptr \notin Bases,
         heap' = heap, allocations_' = allocations_,
         \A u \in Threads : Undisturbed(u), \A x \in Vectors : Keeps(x)
  PROVE  Held' /\ Apart' /\ NothingElse'
<1>1. \A b : Live(b)' = Live(b) /\ Tracked(b)' = Tracked(b)
  BY DEF Live, Tracked
<1>2. Held'
  BY <1>1 DEF Held, Undisturbed, Keeps
<1>3. Apart'
  BY DEF Apart, Undisturbed, Keeps
<1>4. NothingElse'
  BY DEF NothingElse, Undisturbed, Keeps
<1> QED BY <1>2, <1>3, <1>4

(* The backend hands out a block.                                           *)
LEMMA NewBlock ==
  ASSUME Held, Apart, NothingElse, seen' = seen, DOMAIN heap \subseteq Bases,
         DOMAIN allocations_ \subseteq Bases, nullptr \notin Bases,
         NEW t \in Threads, NEW b \in Bases \ DOMAIN heap, NEW d, NEW n,
         heap' = Set(heap, b, [size |-> n, device |-> d]),
         allocations_' = allocations_,
         new_data[t] = nullptr, new_data'[t] = b, Step(t)' = "track",
         n = new_capacity(t)', d = get_thread_local_device(t)',
         Untracking(t) = nullptr, Untracking(t)' = nullptr,
         \A u \in Threads \ {t} : Undisturbed(u), \A x \in Vectors : Keeps(x)
  PROVE  Held' /\ Apart' /\ NothingElse'
<1>1. /\ DOMAIN heap' = DOMAIN heap \cup {b}
      /\ heap'[b] = [size |-> n, device |-> d]
      /\ \A c \in DOMAIN heap : heap'[c] = heap[c]
  BY DEF Set
<1>2. \A c \in DOMAIN heap : c # b /\ Live(c)' /\ Tracked(c)' = Tracked(c)
  BY <1>1 DEF Live, Tracked
<1>3. \A x \in Vectors : Owned(x) # nullptr => Owned(x) \in DOMAIN heap
  BY DEF Held, Live
<1>4. \A u \in Threads : new_data[u] # nullptr => new_data[u] \in DOMAIN heap
  BY DEF Held, Live
<1>5. b # nullptr /\ Live(b)'
  BY <1>1 DEF Live
<1>6. Held'
  <2>1. ASSUME NEW x \in Vectors, Owned(x)' # nullptr
        PROVE  (/\ Live(Owned(x)) /\ Tracked(Owned(x)) /\ heap[Owned(x)].size = vec[x].capacity_)'
    BY <1>1, <1>2, <1>3, <2>1 DEF Held, Keeps, Tracked, Live
  <2>2. ASSUME NEW u \in Threads, new_data'[u] # nullptr, u # t
        PROVE  (/\ Live(new_data[u]) /\ heap[new_data[u]].size = new_capacity(u)
                /\ IF Step(u) = "track"
                     THEN heap[new_data[u]].device = get_thread_local_device(u)
                     ELSE Tracked(new_data[u]))'
    BY <1>1, <1>2, <1>4, <2>2 DEF Held, Undisturbed, Tracked, Live
  <2>3. (/\ Live(new_data[t]) /\ heap[new_data[t]].size = new_capacity(t)
         /\ Step(t) = "track" /\ heap[new_data[t]].device = get_thread_local_device(t))'
    BY <1>1, <1>5 DEF Live
  <2>4. ASSUME NEW u \in Threads, Untracking(u)' # nullptr
        PROVE  (Untracking(u) \in DOMAIN allocations_)'
    BY <2>4 DEF Held, Undisturbed
  <2> QED BY <2>1, <2>2, <2>3, <2>4 DEF Held
<1>7. Apart'
  BY <1>3, <1>4, <1>5 DEF Apart, Undisturbed, Keeps
<1>8. NothingElse'
  BY <1>1 DEF NothingElse, Undisturbed, Keeps
<1> QED BY <1>6, <1>7, <1>8

(* The tracker is told of it.                                               *)
LEMMA NewEntry ==
  ASSUME Held, Apart, NothingElse, seen' = seen,
         DOMAIN allocations_ \subseteq Bases, nullptr \notin Bases,
         NEW t \in Threads, NEW b, NEW e,
         allocations_' = Set(allocations_, b, e), heap' = heap,
         b = new_data[t], b # nullptr, new_data'[t] = b, b \notin DOMAIN allocations_,
         e = [size_ |-> heap[b].size, device |-> heap[b].device],
         Step(t) = "track", Step(t)' # "track", new_capacity(t)' = new_capacity(t),
         Untracking(t) = nullptr, Untracking(t)' = nullptr,
         \A u \in Threads \ {t} : Undisturbed(u), \A x \in Vectors : Keeps(x)
  PROVE  Held' /\ Apart' /\ NothingElse'
<1>1. /\ DOMAIN allocations_' = DOMAIN allocations_ \cup {b}
      /\ allocations_'[b] = e
      /\ \A c \in DOMAIN allocations_ : allocations_'[c] = allocations_[c]
  BY DEF Set
<1>2. \A c : (Tracked(c) => Tracked(c)') /\ Live(c)' = Live(c)
  BY <1>1 DEF Tracked, Live
<1>3. Tracked(b)'
  BY <1>1 DEF Tracked
<1>4. Held'
  <2>1. ASSUME NEW x \in Vectors, Owned(x)' # nullptr
        PROVE  (/\ Live(Owned(x)) /\ Tracked(Owned(x)) /\ heap[Owned(x)].size = vec[x].capacity_)'
    BY <1>2, <2>1 DEF Held, Keeps
  <2>2. ASSUME NEW u \in Threads, new_data'[u] # nullptr, u # t
        PROVE  (/\ Live(new_data[u]) /\ heap[new_data[u]].size = new_capacity(u)
                /\ IF Step(u) = "track"
                     THEN heap[new_data[u]].device = get_thread_local_device(u)
                     ELSE Tracked(new_data[u]))'
    BY <1>2, <2>2 DEF Held, Undisturbed
  <2>3. (/\ Live(new_data[t]) /\ heap[new_data[t]].size = new_capacity(t)
         /\ Step(t) # "track" /\ Tracked(new_data[t]))'
    BY <1>2, <1>3 DEF Held
  <2>4. ASSUME NEW u \in Threads, Untracking(u)' # nullptr
        PROVE  (Untracking(u) \in DOMAIN allocations_)'
    BY <1>1, <2>4 DEF Held, Undisturbed
  <2> QED BY <2>1, <2>2, <2>3, <2>4 DEF Held
<1>5. Apart'
  <2>1. \A u \in Threads : Untracking(u) # b
    BY DEF Held
  <2> QED BY <2>1 DEF Apart, Undisturbed, Keeps
<1>6. NothingElse'
  BY <1>1 DEF NothingElse, Undisturbed, Keeps
<1> QED BY <1>4, <1>5, <1>6

(* The block of a vector goes back to the backend.                          *)
LEMMA BlockGone ==
  ASSUME Held, Apart, NothingElse, seen' = seen,
         DOMAIN allocations_ \subseteq Bases, nullptr \notin Bases,
         NEW t \in Threads, NEW x \in Vectors, NEW b,
         heap' = Drop(heap, b), allocations_' = allocations_,
         b = Owned(x), b # nullptr, Owned(x)' = nullptr,
         Untracking(t) = nullptr, Untracking(t)' = b,
         new_data'[t] = new_data[t],
         new_data[t] # nullptr => /\ new_capacity(t)' = new_capacity(t)
                                  /\ Step(t) # "track" /\ Step(t)' # "track",
         \A u \in Threads \ {t} : Undisturbed(u),
         \A y \in Vectors \ {x} : Keeps(y)
  PROVE  Held' /\ Apart' /\ NothingElse'
<1>1. /\ DOMAIN heap' = DOMAIN heap \ {b}
      /\ \A c \in DOMAIN heap \ {b} : heap'[c] = heap[c]
  BY DEF Drop
<1>2. \A c : Live(c) /\ c # b => Live(c)' /\ Tracked(c)' = Tracked(c)
  BY <1>1 DEF Tracked, Live
<1>3. Held'
  <2>1. ASSUME NEW y \in Vectors, Owned(y)' # nullptr
        PROVE  (/\ Live(Owned(y)) /\ Tracked(Owned(y)) /\ heap[Owned(y)].size = vec[y].capacity_)'
    <3>1. y # x /\ Owned(y)' = Owned(y) /\ Owned(y) # b /\ Live(Owned(y))
      BY <2>1 DEF Held, Keeps, Apart
    <3> QED BY <1>1, <1>2, <2>1, <3>1 DEF Held, Keeps, Live
  <2>2. ASSUME NEW u \in Threads, new_data'[u] # nullptr
        PROVE  (/\ Live(new_data[u]) /\ heap[new_data[u]].size = new_capacity(u)
                /\ IF Step(u) = "track"
                     THEN heap[new_data[u]].device = get_thread_local_device(u)
                     ELSE Tracked(new_data[u]))'
    <3>1. new_data'[u] = new_data[u] /\ new_data[u] # b /\ Live(new_data[u])
      BY <2>2 DEF Held, Undisturbed, Apart
    <3> QED BY <1>1, <1>2, <2>2, <3>1 DEF Held, Undisturbed, Live
  <2>3. ASSUME NEW u \in Threads, Untracking(u)' # nullptr
        PROVE  (Untracking(u) \in DOMAIN allocations_)'
    <3>1. CASE u = t
      <4>1. Tracked(b)
        BY DEF Held
      <4> QED BY <3>1, <4>1 DEF Tracked
    <3>2. CASE u # t
      BY <2>3, <3>2 DEF Held, Undisturbed
    <3> QED BY <3>1, <3>2
  <2> QED BY <2>1, <2>2, <2>3 DEF Held
<1>4. Apart'
  BY DEF Apart, Undisturbed, Keeps
<1>5. NothingElse'
  BY <1>1 DEF NothingElse, Undisturbed, Keeps
<1> QED BY <1>3, <1>4, <1>5

(* And out of the tracker.                                                  *)
LEMMA EntryGone ==
  ASSUME Held, Apart, NothingElse, seen' = seen,
         DOMAIN allocations_ \subseteq Bases, nullptr \notin Bases,
         NEW t \in Threads, NEW b,
         allocations_' = Drop(allocations_, b), heap' = heap,
         b = Untracking(t), b # nullptr, Untracking(t)' = nullptr,
         new_data'[t] = new_data[t],
         new_data[t] # nullptr => /\ new_capacity(t)' = new_capacity(t)
                                  /\ Step(t) # "track" /\ Step(t)' # "track",
         \A u \in Threads \ {t} : Undisturbed(u), \A x \in Vectors : Keeps(x)
  PROVE  Held' /\ Apart' /\ NothingElse'
<1>1. /\ DOMAIN allocations_' = DOMAIN allocations_ \ {b}
      /\ \A c \in DOMAIN allocations_ \ {b} : allocations_'[c] = allocations_[c]
  BY DEF Drop
<1>2. \A c : (Tracked(c) /\ c # b => Tracked(c)') /\ Live(c)' = Live(c)
  BY <1>1 DEF Tracked, Live
<1>3. Held'
  <2>1. ASSUME NEW y \in Vectors, Owned(y)' # nullptr
        PROVE  (/\ Live(Owned(y)) /\ Tracked(Owned(y)) /\ heap[Owned(y)].size = vec[y].capacity_)'
    BY <1>2, <2>1 DEF Held, Keeps, Apart
  <2>2. ASSUME NEW u \in Threads, new_data'[u] # nullptr
        PROVE  (/\ Live(new_data[u]) /\ heap[new_data[u]].size = new_capacity(u)
                /\ IF Step(u) = "track"
                     THEN heap[new_data[u]].device = get_thread_local_device(u)
                     ELSE Tracked(new_data[u]))'
    BY <1>2, <2>2 DEF Held, Undisturbed, Apart
  <2>3. ASSUME NEW u \in Threads, Untracking(u)' # nullptr
        PROVE  (Untracking(u) \in DOMAIN allocations_)'
    BY <1>1, <2>3 DEF Held, Undisturbed, Apart
  <2> QED BY <2>1, <2>2, <2>3 DEF Held
<1>4. Apart'
  BY DEF Apart, Undisturbed, Keeps
<1>5. NothingElse'
  BY <1>1 DEF NothingElse, Undisturbed, Keeps
<1> QED BY <1>3, <1>4, <1>5

(* A vector takes the block its call has allocated, if it has allocated one. *)
LEMMA Adopted ==
  ASSUME Held, Apart, NothingElse, seen \subseteq seen', DOMAIN heap \subseteq Bases,
         DOMAIN allocations_ \subseteq Bases, nullptr \notin Bases,
         NEW t \in Threads, NEW x \in Vectors,
         heap' = heap, allocations_' = allocations_,
         Owned(x) = nullptr, Owned(x)' = new_data[t], new_data'[t] = nullptr,
         new_data[t] # nullptr => /\ Step(t) # "track"
                                  /\ vec'[x].capacity_ = new_capacity(t),
         Untracking(t) = nullptr, Untracking(t)' = nullptr,
         \A u \in Threads \ {t} : Undisturbed(u),
         \A y \in Vectors \ {x} : Keeps(y)
  PROVE  Held' /\ Apart' /\ NothingElse'
<1>1. \A b : Live(b)' = Live(b) /\ Tracked(b)' = Tracked(b)
  BY DEF Live, Tracked
<1>2. Held'
  BY <1>1 DEF Held, Undisturbed, Keeps
<1>3. Apart'
  BY DEF Apart, Undisturbed, Keeps
<1>4. NothingElse'
  BY DEF NothingElse, Undisturbed, Keeps
<1> QED BY <1>2, <1>3, <1>4

(* A block that no vector has got is lost, which must not happen otherwise.  *)
LEMMA Leaked ==
  ASSUME Held, Apart, seen' # {}, heap' = heap, allocations_' = allocations_,
         NEW t \in Threads, new_data'[t] = nullptr, Untracking(t)' = Untracking(t),
         \A u \in Threads \ {t} : Undisturbed(u), \A y \in Vectors : Keeps(y)
  PROVE  Held' /\ Apart' /\ NothingElse'
<1>1. \A b : Live(b)' = Live(b) /\ Tracked(b)' = Tracked(b)
  BY DEF Live, Tracked
<1>2. Held'
  BY <1>1 DEF Held, Undisturbed, Keeps
<1>3. Apart'
  BY DEF Apart, Undisturbed, Keeps
<1>4. NothingElse'
  BY DEF NothingElse
<1> QED BY <1>2, <1>3, <1>4

-----------------------------------------------------------------------------
(* No block is where the null pointer points.                               *)
LEMMA BlocksAreSomewhere == nullptr \notin Bases /\ Bases \subseteq Nat
<1>1. ASSUME NEW p \in Bases PROVE p \in Nat /\ p # 0
  <2>1. PICK b \in 1 .. Blocks : p = b * Stride
    BY DEF Bases
  <2>2. Stride \in Nat /\ Stride >= 1 /\ b \in Nat /\ b >= 1
    BY RuntimeAssumption DEF Stride
  <2>3. \A c, s \in Nat : c >= 1 /\ s >= 1 => c * s \in Nat /\ c * s # 0
    OBVIOUS
  <2> QED BY <2>1, <2>2, <2>3
<1> QED BY <1>1 DEF nullptr

(* The kinds of calls.                                                      *)
LEMMA Kinds ==
  ASSUME NEW r, r.op \in Operations
  PROVE  /\ r.op \in Creating \/ r.op \in Growing \/ r.op \in Replacing \/ r.op = "destroy"
         /\ r.op \in Growing => r.op \notin Creating \cup Replacing \cup {"destroy"}
         /\ r.op \in Replacing => r.op \notin Creating \cup {"destroy"}
         /\ r.op \in Creating => r.op # "destroy"
BY DEF Operations, Growing, Replacing, Creating

(* What a thread asks for is a request.                                     *)
LEMMA AskedFor ==
  ASSUME NEW t \in Threads, NEW r, Asks(t, r)
  PROVE  /\ r \in [op : Operations, x : Vectors, y : Vectors, n : Nat]
         /\ r # NoRequest /\ r.op \in Operations /\ r.x \in Vectors /\ r.y \in Vectors
         /\ r.n \in Nat
<1>1. r \in [op : Operations, x : Vectors, y : Vectors, n : Nat] /\ r # NoRequest
  BY VectorAssumption DEF Asks
<1> QED BY <1>1

\* A step of one thread leaves the others, their vectors and their device alone.
OnlyThread(t) ==
  /\ seen \subseteq seen'
  /\ \A u \in Threads \ {t} :
       /\ request'[u] = request[u] /\ todo'[u] = todo[u]
       /\ new_data'[u] = new_data[u] /\ sCurDevice'[u] = sCurDevice[u]
  /\ m_default_device' = m_default_device
  /\ \A x \in Vectors : Owner[x] # t => vec'[x] = vec[x]

\* And all blocks but those of its own vectors.
HeapKept(t) ==
  \A p \in DOMAIN heap :
    heap'[p] = heap[p] \/ \E x \in Vectors : Owner[x] = t /\ p = Owned(x)

(* So what concerns the others is as it was.                                *)
LEMMA Elsewhere ==
  ASSUME NEW t \in Threads, OnlyThread(t), NEW u \in Threads \ {t}, Local(u)
  PROVE  /\ Local(u)' /\ Undisturbed(u)
         /\ Step(u)' = Step(u) /\ (Running(u)' <=> Running(u))
         /\ get_thread_local_device(u)' = get_thread_local_device(u)
         /\ \A x \in Vectors : Owner[x] = u => Keeps(x)
<1>1. /\ request'[u] = request[u] /\ todo'[u] = todo[u] /\ new_data'[u] = new_data[u]
      /\ sCurDevice'[u] = sCurDevice[u] /\ m_default_device' = m_default_device
      /\ seen \subseteq seen'
      /\ \A x \in Vectors : Owner[x] = u => vec'[x] = vec[x]
  BY DEF OnlyThread
<1>2. Step(u)' = Step(u) /\ (Running(u)' <=> Running(u))
  BY <1>1 DEF Step, Running
<1>3. get_thread_local_device(u)' = get_thread_local_device(u)
  BY <1>1 DEF get_thread_local_device
<1>4. \A x \in Vectors : Owner[x] = u => Keeps(x)
  BY <1>1 DEF Keeps, Owned, Running, Exists
<1>5. CASE ~Running(u)
  <2>1. new_data[u] = nullptr /\ todo[u] = <<>>
    BY <1>5 DEF Local
  <2>2. Local(u)' /\ Untracking(u) = nullptr /\ Untracking(u)' = nullptr
    BY <1>1, <1>2, <1>5, <2>1 DEF Local, Untracking
  <2> QED BY <1>1, <1>2, <1>3, <1>4, <2>1, <2>2 DEF Undisturbed
<1>6. CASE Running(u)
  <2> DEFINE r == request[u]
  <2>1. Within(u, r, todo[u], new_data[u])
    BY <1>6 DEF Local
  <2>2. r.x \in Vectors /\ r.y \in Vectors /\ Owner[r.x] = u /\ Owner[r.y] = u
    BY <2>1, AskedFor DEF Within, Asks
  <2>3. vec'[r.x] = vec[r.x] /\ vec'[r.y] = vec[r.y]
    BY <1>1, <2>2
  <2>4. Local(u)'
    <3> DEFINE q == todo[u]
               new == new_data[u]
    <3>1. request'[u] = r /\ todo'[u] = q /\ new_data'[u] = new
      BY <1>1
    <3>2. PICK rr, qq, nn : rr = r /\ qq = q /\ nn = new
      OBVIOUS
    <3>3. Within(u, rr, qq, nn)'
      BY <1>1, <2>1, <2>3, <3>2, WithinStays
    <3> QED BY <1>2, <1>6, <3>1, <3>2, <3>3 DEF Local
  <2>5. Untracking(u)' = Untracking(u)
    BY <1>1, <1>2, <2>3 DEF Untracking
  <2>6. new_capacity(u)' = new_capacity(u)
    BY <1>1, <2>3 DEF new_capacity, Wanted
  <2> QED BY <1>1, <1>2, <1>3, <1>4, <2>4, <2>5, <2>6 DEF Undisturbed
<1> QED BY <1>5, <1>6

(* A vector holds the block it points to until the block is released, and    *)
(* a vector whose thread is in no call on it holds its block.                *)
LEMMA Holding ==
  ASSUME NEW x \in Vectors, Exists(x)
  PROVE  /\ ~(Running(Owner[x]) /\ request[Owner[x]].x = x) => Owned(x) = Buffer(x)
         /\ ~Released(request[Owner[x]], todo[Owner[x]]) => Owned(x) = Buffer(x)
BY DEF Owned, Buffer

(* The devices of the others' blocks stay the active ones.                  *)
LEMMA OnDeviceElsewhere ==
  ASSUME NEW t \in Threads, OnlyThread(t), HeapKept(t), Held, Apart,
         NEW u \in Threads \ {t}, Local(u), OnDevice(u)
  PROVE  OnDevice(u)'
<1>1. /\ request'[u] = request[u] /\ todo'[u] = todo[u] /\ new_data'[u] = new_data[u]
      /\ seen \subseteq seen'
      /\ \A x \in Vectors : Owner[x] = u => vec'[x] = vec[x]
  BY DEF OnlyThread
<1>2. /\ Step(u)' = Step(u) /\ (Running(u)' <=> Running(u))
      /\ get_thread_local_device(u)' = get_thread_local_device(u)
      /\ \A x \in Vectors : Owner[x] = u => Owned(x)' = Owned(x)
  <2>1. /\ Step(u)' = Step(u) /\ (Running(u)' <=> Running(u))
        /\ get_thread_local_device(u)' = get_thread_local_device(u)
        /\ \A x \in Vectors : Owner[x] = u => Keeps(x)
    BY Elsewhere
  <2> QED BY <2>1 DEF Keeps
<1>3. ASSUME NEW x \in Vectors, Owner[x] = u, Owned(x) # nullptr
      PROVE  heap'[Owned(x)] = heap[Owned(x)]
  BY <1>3 DEF HeapKept, Held, Apart, Live
<1>4. new_data[u] # nullptr => heap'[new_data[u]] = heap[new_data[u]]
  BY DEF HeapKept, Held, Apart, Live
<1>5. CASE Running(u)
  <2> DEFINE r == request[u]
             d == get_thread_local_device(u)
  <2>1. Within(u, r, todo[u], new_data[u])
    BY <1>5 DEF Local
  <2>2. /\ r.x \in Vectors /\ r.y \in Vectors /\ Owner[r.x] = u /\ Owner[r.y] = u
        /\ r.op \in Operations
    BY <2>1, AskedFor DEF Within, Asks
  <2>3. request'[u] = r /\ AfterFree(r)' = AfterFree(r)
    BY <1>1, <2>1, <2>2, RestStays DEF Within
  <2>4. ASSUME seen' = {}
        PROVE  /\ \A x \in {r.x, r.y} : Owned(x)' # nullptr => heap'[Owned(x)'].device = d
               /\ new_data'[u] # nullptr => heap'[new_data'[u]].device = d
    <3>1. seen = {}
      BY <1>1, <2>4
    <3>2. /\ \A x \in {r.x, r.y} : Owned(x) # nullptr => heap[Owned(x)].device = d
          /\ new_data[u] # nullptr => heap[new_data[u]].device = d
      BY <1>5, <3>1 DEF OnDevice
    <3> QED BY <1>1, <1>2, <1>3, <1>4, <2>2, <3>2
  <2>5. ASSUME Step(u) = "free", todo[u] # Cons("free", AfterFree(r))
        PROVE  heap'[Buffer(r.x)].device = d
    <3>1. heap[Buffer(r.x)].device = d
      BY <1>5, <2>5 DEF OnDevice
    <3>2. r.op \notin Creating /\ Buffer(r.x) # nullptr
      BY <2>1, <2>5 DEF Within, Rest, Step
    <3>3. Exists(r.x) /\ ~Released(r, todo[u])
      BY <2>1, <2>5, <3>2 DEF Within, Asks, Released, Step, Backs
    <3>4. Owned(r.x) = Buffer(r.x)
      BY <2>2, <3>3, Holding
    <3> QED BY <1>3, <2>2, <3>1, <3>2, <3>4
  <2>6. Buffer(r.x)' = Buffer(r.x)
    BY <1>1, <2>2 DEF Buffer
  <2> QED BY <1>1, <1>2, <2>3, <2>4, <2>5, <2>6 DEF OnDevice
<1>6. CASE ~Running(u)
  BY <1>2, <1>6 DEF OnDevice
<1> QED BY <1>5, <1>6

(* So a step is in order when what concerns its own thread is.              *)
LEMMA Composed ==
  ASSUME Good, NEW t \in Threads, OnlyThread(t), HeapKept(t), Shapes',
         Local(t)', OnDevice(t)', \A x \in Vectors : Owner[x] = t => Sound(x)',
         Held' /\ Apart' /\ NothingElse'
  PROVE  Good'
<1>1. \A u \in Threads : Local(u)'
  BY Elsewhere DEF Good
<1>2. \A u \in Threads : OnDevice(u)'
  BY OnDeviceElsewhere DEF Good
<1>3. ASSUME NEW x \in Vectors, Owner[x] # t PROVE Sound(x)'
  <2>1. Sound(x) /\ vec'[x] = vec[x] /\ seen \subseteq seen'
    BY <1>3 DEF Good, OnlyThread
  <2> QED BY <2>1 DEF Sound, Exists
<1> QED BY <1>1, <1>2, <1>3 DEF Good

-----------------------------------------------------------------------------
(* The thread's own call, in a step that leaves its vectors as they are.    *)
LEMMA OwnVectors ==
  ASSUME NEW t \in Threads, Running(t), Asks(t, request[t]),
         request'[t] = request[t], vec' = vec,
         NEW x \in Vectors, Owner[x] = t
  PROVE  /\ x # request[t].x => Keeps(x)
         /\ (Released(request[t], todo[t])' <=> Released(request[t], todo[t])) => Keeps(x)
         /\ x = request[t].x /\ Released(request[t], todo[t])' => Owned(x)' = nullptr
         /\ x = request[t].x /\ Released(request[t], todo[t]) => Owned(x) = nullptr
         /\ x = request[t].x /\ Exists(x) /\ ~Released(request[t], todo[t]) =>
              Owned(x) = Buffer(x)
         /\ new_capacity(t)' = new_capacity(t)
<1>1. /\ (Running(t)' <=> Running(t)) /\ (Exists(x)' <=> Exists(x))
      /\ Buffer(x)' = Buffer(x)
  BY DEF Running, Exists, Buffer
<1>2. /\ Owned(x) = IF Exists(x) /\ ~(request[t].x = x /\ Released(request[t], todo[t]))
                      THEN vec[x].data_ ELSE nullptr
      /\ Owned(x)' = IF Exists(x) /\ ~(request[t].x = x /\ Released(request[t], todo[t])')
                       THEN vec[x].data_ ELSE nullptr
  BY <1>1 DEF Owned
<1>3. new_capacity(t)' = new_capacity(t)
  BY DEF new_capacity, Wanted
<1> QED BY <1>2, <1>3 DEF Keeps, Buffer

(* And in one that ends it.                                                 *)
LEMMA OwnEnd ==
  ASSUME NEW t \in Threads, request'[t] = NoRequest, NEW x \in Vectors, Owner[x] = t,
         vec'[x] = vec[x],
         Running(t) /\ x = request[t].x => ~Released(request[t], todo[t])
  PROVE  Keeps(x)
BY DEF Keeps, Owned, Running, Exists

(* A thread that has a step to make is in a call.                           *)
LEMMA InCall ==
  ASSUME Good, NEW t \in Threads, NEW s, At(t, s)
  PROVE  /\ Running(t) /\ Step(t) = s /\ First(todo[t]) = s /\ Head(todo[t]) = s
         /\ outcome = "running"
         /\ Within(t, request[t], todo[t], new_data[t])
         /\ Asks(t, request[t]) /\ Rest(request[t], todo[t]) /\ Room(request[t], todo[t])
         /\ new_data[t] # nullptr <=> HoldsNew(request[t], todo[t])
         /\ request[t].op \in Operations
         /\ request[t].x \in Vectors /\ request[t].y \in Vectors
         /\ Owner[request[t].x] = t /\ Owner[request[t].y] = t
<1>1. /\ First(todo[t]) = s /\ Step(t) = s /\ Head(todo[t]) = s /\ outcome = "running"
      /\ todo[t] # <<>>
  BY DEF At, First, Step
<1>2. Local(t)
  BY DEF Good
<1>3. Running(t) /\ Within(t, request[t], todo[t], new_data[t])
  BY <1>1, <1>2 DEF Local
<1>4. /\ Asks(t, request[t]) /\ Rest(request[t], todo[t]) /\ Room(request[t], todo[t])
      /\ new_data[t] # nullptr <=> HoldsNew(request[t], todo[t])
  BY <1>3 DEF Within
<1>5. Owner[request[t].x] = t /\ Owner[request[t].y] = t
  BY <1>4 DEF Asks
<1> QED BY <1>1, <1>3, <1>4, <1>5, AskedFor

(* Its call after a step that leaves its vectors as they are.               *)
LEMMA OwnLocal ==
  ASSUME NEW t \in Threads, Running(t), Asks(t, request[t]),
         vec' = vec, seen \subseteq seen', request'[t] = request[t],
         NEW q, NEW new, todo'[t] = q, new_data'[t] = new,
         Rest(request[t], q), Room(request[t], q), new # nullptr <=> HoldsNew(request[t], q)
  PROVE  Local(t)'
<1>1. PICK r : r = request[t]
  OBVIOUS
<1>2. Within(t, r, q, new)
  BY <1>1 DEF Within
<1>3. Within(t, r, q, new)'
  BY <1>2, WithinStays
<1>4. Running(t)' /\ request'[t] = r
  BY <1>1 DEF Running
<1> QED BY <1>3, <1>4 DEF Local

(* And the devices of its blocks.                                           *)
LEMMA OwnDevice ==
  ASSUME NEW t \in Threads, Running(t), OnDevice(t),
         request[t].x \in Vectors, request[t].y \in Vectors,
         Owner[request[t].x] = t, Owner[request[t].y] = t,
         seen \subseteq seen', request'[t] = request[t],
         get_thread_local_device(t)' = get_thread_local_device(t),
         \A x \in Vectors : Owner[x] = t =>
           \/ Owned(x)' = nullptr
           \/ Owned(x) # nullptr => Owned(x)' = Owned(x) /\ heap'[Owned(x)] = heap[Owned(x)],
         \A x \in Vectors : Owner[x] = t /\ Owned(x) = nullptr => Owned(x)' = nullptr,
         \/ new_data'[t] = nullptr
         \/ heap'[new_data'[t]].device = get_thread_local_device(t)
         \/ new_data'[t] = new_data[t] /\ heap'[new_data[t]] = heap[new_data[t]],
         Step(t)' = "free" => todo'[t] = Cons("free", AfterFree(request[t]))
  PROVE  OnDevice(t)'
<1> DEFINE d == get_thread_local_device(t)
           r == request[t]
<1>1. ASSUME seen' = {}
      PROVE  /\ \A x \in {r.x, r.y} : Owned(x)' # nullptr => heap'[Owned(x)'].device = d
             /\ new_data'[t] # nullptr => heap'[new_data'[t]].device = d
  <2>1. /\ \A x \in {r.x, r.y} : Owned(x) # nullptr => heap[Owned(x)].device = d
        /\ new_data[t] # nullptr => heap[new_data[t]].device = d
    BY <1>1 DEF OnDevice
  <2>2. \A x \in {r.x, r.y} : Owned(x)' # nullptr =>
          Owned(x) # nullptr /\ Owned(x)' = Owned(x) /\ heap'[Owned(x)] = heap[Owned(x)]
    OBVIOUS
  <2> QED BY <2>1, <2>2
<1>2. AfterFree(request[t])' = AfterFree(request[t])
  BY DEF AfterFree, Finish, Cons
<1> QED BY <1>1, <1>2 DEF OnDevice

(* Room is what a call has or lacks, whichever of its steps it is at.       *)
LEMMA RoomStays ==
  ASSUME NEW r, NEW q, NEW n, Room(r, q), First(q) # "return", r.op \in Operations,
         First(n) # "return" \/ r.op \in Creating \cup {"destroy"}
  PROVE  Room(r, n)
BY Kinds DEF Room

(* icicle_malloc puts the block it got where nobody has one.                *)
LEMMA MallocKeeps ==
  ASSUME Good, NEW t \in Threads, Malloc(t)
  PROVE  Good'
<1> DEFINE r == request[t]
           q == todo[t]
           n == Tail(q)
           d == get_thread_local_device(t)
<1>1. At(t, "malloc")
  BY DEF Malloc
<1>2. PICK b \in Bases :
        allocate_memory(t, b, new_capacity(t)) /\ new_data' = [new_data EXCEPT ![t] = b]
  BY DEF Malloc
<1>3. /\ b \notin DOMAIN heap /\ heap' = Set(heap, b, [size |-> new_capacity(t), device |-> d])
      /\ todo' = [todo EXCEPT ![t] = n]
      /\ UNCHANGED <<allocations_, sCurDevice, m_default_device, vec, request, outcome, seen>>
  BY <1>2 DEF Malloc, allocate_memory, Continue
<1>4. Shapes /\ Held /\ Apart /\ NothingElse /\ OnDevice(t) /\ Local(t)
      /\ \A x \in Vectors : Sound(x)
  BY DEF Good
<1>5. todo'[t] = n /\ new_data'[t] = b /\ OnlyThread(t)
  BY <1>3, <1>2, <1>4 DEF OnlyThread, Shapes
<1>6. /\ b # nullptr /\ nullptr \notin Bases
      /\ DOMAIN heap \subseteq Bases /\ DOMAIN allocations_ \subseteq Bases
  BY <1>4, BlocksAreSomewhere DEF Shapes
<1>7. /\ DOMAIN heap' = DOMAIN heap \cup {b}
      /\ heap'[b] = [size |-> new_capacity(t), device |-> d]
      /\ \A p \in DOMAIN heap : heap'[p] = heap[p]
  BY <1>3 DEF Set
<1>8. Step(t) = "malloc" /\ Running(t) /\ First(q) = "malloc"
  BY <1>1, InCall
<1>9. new_data[t] = nullptr
  BY <1>1, <1>8, InCall DEF HoldsNew, Fills, Backs
<1>10. Rest(r, n) /\ First(n) = "track"
  BY <1>1, <1>8, InCall, Follows
<1>11. Room(r, n)
  BY <1>1, <1>8, <1>10, InCall, RoomStays
<1>12. Local(t)'
  <2>1. HoldsNew(r, n)
    BY <1>10 DEF HoldsNew
  <2> HIDE DEF n
  <2> QED BY <1>1, <1>3, <1>5, <1>6, <1>10, <1>11, <2>1, InCall, OwnLocal
<1>13. \A x \in Vectors : Keeps(x)
  <2>1. Released(r, todo[t])' <=> Released(r, todo[t])
    BY <1>3, <1>5, <1>8, <1>10 DEF Released, Backs
  <2>2. \A x \in Vectors : Owner[x] = t => Keeps(x)
    BY <1>1, <1>3, <2>1, InCall, OwnVectors
  <2>3. \A x \in Vectors : Owner[x] # t => Keeps(x)
    BY <1>5, Elsewhere, VectorAssumption DEF Good
  <2> QED BY <2>2, <2>3
<1>14. /\ Step(t)' = "track" /\ Untracking(t) = nullptr /\ Untracking(t)' = nullptr
       /\ new_capacity(t)' = new_capacity(t) /\ get_thread_local_device(t)' = d
  BY <1>3, <1>5, <1>8, <1>10
     DEF Step, Untracking, new_capacity, Wanted, get_thread_local_device
<1>15. \A u \in Threads \ {t} : Undisturbed(u)
  BY <1>5, Elsewhere DEF Good
<1>16. Held' /\ Apart' /\ NothingElse'
  BY <1>3, <1>4, <1>5, <1>6, <1>9, <1>13, <1>14, <1>15, NewBlock
<1>17. HeapKept(t)
  BY <1>7 DEF HeapKept
<1>18. OnDevice(t)'
  <2>1. \A x \in Vectors : Owned(x)' = Owned(x)
          /\ (Owned(x) # nullptr => heap'[Owned(x)] = heap[Owned(x)])
    BY <1>4, <1>7, <1>13 DEF Keeps, Held, Live
  <2> QED BY <1>1, <1>3, <1>4, <1>5, <1>7, <1>14, <2>1, InCall, OwnDevice
<1>19. \A x \in Vectors : Sound(x)'
  BY <1>3, <1>4 DEF Sound, Exists
<1>20. Shapes'
  <2>1. new_data' \in [Threads -> Bases \cup {nullptr}]
    BY <1>2, <1>4 DEF Shapes
  <2>2. \A p \in DOMAIN heap' : heap'[p].device \in Devices
    <3>1. d \in Devices
      BY <1>4 DEF Shapes, get_thread_local_device
    <3> QED BY <1>4, <1>7, <3>1 DEF Shapes
  <2>3. DOMAIN todo' = Threads /\ DOMAIN heap' \subseteq Bases
    BY <1>3, <1>4, <1>6, <1>7 DEF Shapes
  <2> QED BY <1>3, <1>4, <2>1, <2>2, <2>3 DEF Shapes
<1> QED BY <1>5, <1>12, <1>16, <1>17, <1>18, <1>19, <1>20, Composed

\* A step of a call that leaves the vectors alone, and the steps n behind it.
Inner(t, s, n) ==
  /\ At(t, s) /\ s # "return"
  /\ UNCHANGED <<vec, request, new_data, outcome, seen, m_default_device>>
  /\ todo' = [todo EXCEPT ![t] = n]
  /\ sCurDevice' \in [Threads -> Devices \cup {NoDevice}]
  /\ \A u \in Threads \ {t} : sCurDevice'[u] = sCurDevice[u]
  /\ DOMAIN heap' \subseteq Bases /\ DOMAIN allocations_' \subseteq Bases
  /\ \A b \in DOMAIN heap' : heap'[b].device \in Devices
  /\ Rest(request[t], n)
  /\ First(n) # "return" \/ request[t].op \in Creating \cup {"destroy"}
  /\ HoldsNew(request[t], todo[t]) <=> HoldsNew(request[t], n)

(* What such steps have in common.                                          *)
LEMMA InnerStep ==
  ASSUME Good, NEW t \in Threads, NEW s, NEW n, Inner(t, s, n)
  PROVE  /\ OnlyThread(t) /\ Shapes' /\ Local(t)' /\ todo'[t] = n
         /\ \A x \in Vectors : Sound(x)'
         /\ \A u \in Threads \ {t} : Undisturbed(u)
         /\ \A x \in Vectors : x # request[t].x => Keeps(x)
         /\ (Released(request[t], todo[t]) <=> Released(request[t], n)) => Keeps(request[t].x)
         /\ Released(request[t], n) => Owned(request[t].x)' = nullptr
         /\ new_capacity(t)' = new_capacity(t)
         /\ Step(t)' = First(n)
         /\ Untracking(t)' = IF First(n) = "untrack" THEN Buffer(request[t].x) ELSE nullptr
         /\ Untracking(t) = IF s = "untrack" THEN Buffer(request[t].x) ELSE nullptr
<1> DEFINE r == request[t]
           q == todo[t]
<1>0. /\ At(t, s) /\ s # "return"
      /\ UNCHANGED <<vec, request, new_data, outcome, seen, m_default_device>>
      /\ todo' = [todo EXCEPT ![t] = n]
      /\ sCurDevice' \in [Threads -> Devices \cup {NoDevice}]
      /\ \A u \in Threads \ {t} : sCurDevice'[u] = sCurDevice[u]
      /\ DOMAIN heap' \subseteq Bases /\ DOMAIN allocations_' \subseteq Bases
      /\ \A b \in DOMAIN heap' : heap'[b].device \in Devices
      /\ Rest(r, n) /\ (First(n) # "return" \/ r.op \in Creating \cup {"destroy"})
      /\ HoldsNew(r, q) <=> HoldsNew(r, n)
  BY DEF Inner
<1>1. Shapes /\ \A x \in Vectors : Sound(x)
  BY DEF Good
<1>2. todo'[t] = n /\ OnlyThread(t)
  BY <1>0, <1>1 DEF OnlyThread, Shapes
<1>3. Shapes'
  BY <1>0, <1>1 DEF Shapes
<1>4. Running(t) /\ Step(t) = s /\ First(q) = s
  BY <1>0, InCall
<1>5. Local(t)'
  <2>1. Room(r, n)
    BY <1>0, <1>4, InCall, RoomStays
  <2> QED BY <1>0, <1>2, <1>4, <2>1, InCall, OwnLocal
<1>6. \A x \in Vectors : Sound(x)'
  BY <1>0, <1>1 DEF Sound, Exists
<1>7. \A u \in Threads \ {t} : Undisturbed(u)
  BY <1>0, <1>2, Elsewhere DEF Good
<1>8. ASSUME NEW x \in Vectors, x # r.x PROVE Keeps(x)
  <2>1. CASE Owner[x] = t
    BY <1>0, <1>4, <1>8, <2>1, InCall, OwnVectors
  <2>2. CASE Owner[x] # t
    BY <1>0, <1>2, <2>2, Elsewhere, VectorAssumption DEF Good
  <2> QED BY <2>1, <2>2
<1>9. Released(r, todo[t])' <=> Released(r, n)
  BY <1>0, <1>2 DEF Released
<1>10. /\ (Released(r, q) <=> Released(r, n)) => Keeps(r.x)
       /\ Released(r, n) => Owned(r.x)' = nullptr
       /\ new_capacity(t)' = new_capacity(t)
  <2>1. /\ (Released(r, q)' <=> Released(r, q)) => Keeps(r.x)
        /\ Released(r, q)' => Owned(r.x)' = nullptr
        /\ new_capacity(t)' = new_capacity(t)
    BY <1>0, <1>4, InCall, OwnVectors
  <2> QED BY <1>9, <2>1
<1>11. /\ Step(t)' = First(n)
       /\ Untracking(t)' = IF First(n) = "untrack" THEN Buffer(r.x) ELSE nullptr
       /\ Untracking(t) = IF s = "untrack" THEN Buffer(r.x) ELSE nullptr
  BY <1>0, <1>2, <1>4 DEF Step, Untracking, Running, Buffer
<1> QED BY <1>2, <1>3, <1>5, <1>6, <1>7, <1>8, <1>10, <1>11

(* The tracker takes the entry of the new block: none of its own was left.  *)
LEMMA TrackKeeps ==
  ASSUME Good, NEW t \in Threads, Track(t), "entry kept" \notin seen'
  PROVE  Good'
<1> DEFINE r == request[t]
           q == todo[t]
           n == Tail(q)
           b == new_data[t]
           d == get_thread_local_device(t)
           e == [size_ |-> new_capacity(t), device |-> d]
<1>1. At(t, "track")
  BY DEF Track
<1>2. /\ b \notin DOMAIN allocations_ /\ seen' = seen /\ allocations_' = Set(allocations_, b, e)
      /\ todo' = [todo EXCEPT ![t] = n]
      /\ UNCHANGED <<heap, mem, sCurDevice, m_default_device, vec, request, new_data, outcome>>
  BY DEF Track, add_allocation, Continue
<1>3. Shapes /\ Held /\ Apart /\ NothingElse /\ OnDevice(t)
  BY DEF Good
<1>4. /\ Step(t) = "track" /\ Running(t) /\ First(q) = "track"
      /\ Rest(r, q) /\ r.op \in Operations /\ Asks(t, r)
      /\ b # nullptr <=> HoldsNew(r, q)
  BY <1>1, InCall
<1>5. b # nullptr /\ b \in Bases /\ r.op # "destroy"
  BY <1>3, <1>4 DEF HoldsNew, Rest, Shapes
<1>6. Rest(r, n) /\ First(n) = First(AfterTrack(r)) /\ n = AfterTrack(r)
  BY <1>4, Follows, Moves
<1>7. /\ r.op \in Creating => First(n) \in Fills
      /\ r.op \in Replacing => First(n) = "keep"
      /\ r.op \in Growing =>
           \/ First(n) \in {"copy old", "free"}
           \/ First(n) = "adopt" /\ Buffer(r.x) = nullptr
  <2>1. FillOf(r) \in Fills
    BY DEF FillOf, Fills
  <2> QED BY <1>4, <1>6, <2>1, Rests, Kinds
<1>8. HoldsNew(r, n)
  BY <1>4, <1>5, <1>7, Kinds DEF HoldsNew
<1>9. First(n) \notin {"return", "track", "untrack"}
  BY <1>4, <1>5, <1>7, Kinds DEF Fills
<1>10. DOMAIN allocations_' \subseteq Bases
  BY <1>2, <1>3, <1>5 DEF Set, Shapes
<1>11. /\ OnlyThread(t) /\ Shapes' /\ Local(t)' /\ todo'[t] = n
       /\ \A x \in Vectors : Sound(x)'
       /\ \A u \in Threads \ {t} : Undisturbed(u)
       /\ \A x \in Vectors : x # r.x => Keeps(x)
       /\ (Released(r, q) <=> Released(r, n)) => Keeps(r.x)
       /\ Released(r, n) => Owned(r.x)' = nullptr
       /\ new_capacity(t)' = new_capacity(t) /\ Step(t)' = First(n)
       /\ Untracking(t) = nullptr /\ Untracking(t)' = nullptr
  <2>1. /\ DOMAIN heap' \subseteq Bases /\ \A p \in DOMAIN heap' : heap'[p].device \in Devices
        /\ sCurDevice' \in [Threads -> Devices \cup {NoDevice}]
    BY <1>2, <1>3 DEF Shapes
  <2>2. HoldsNew(r, q) <=> HoldsNew(r, n)
    BY <1>4, <1>5, <1>8
  <2>3. First(n) # "return" \/ r.op \in Creating \cup {"destroy"}
    BY <1>9
  <2>4. Inner(t, "track", n)
    <3> HIDE DEF n
    <3> QED BY <1>1, <1>2, <1>6, <1>10, <2>1, <2>2, <2>3 DEF Inner
  <2> HIDE DEF n
  <2>5. First(n) # "untrack"
    BY <1>9
  <2>6. /\ OnlyThread(t) /\ Shapes' /\ Local(t)' /\ todo'[t] = n
        /\ \A x \in Vectors : Sound(x)'
        /\ \A u \in Threads \ {t} : Undisturbed(u)
    BY <2>4, InnerStep
  <2>7. /\ \A x \in Vectors : x # r.x => Keeps(x)
        /\ (Released(r, q) <=> Released(r, n)) => Keeps(r.x)
        /\ Released(r, n) => Owned(r.x)' = nullptr
    BY <2>4, InnerStep
  <2>8. /\ new_capacity(t)' = new_capacity(t) /\ Step(t)' = First(n)
    BY <2>4, InnerStep
  <2>9. Untracking(t)' = IF First(n) = "untrack" THEN Buffer(r.x) ELSE nullptr
    BY <2>4, InnerStep
  <2>10. Untracking(t) = nullptr
    BY <1>4 DEF Untracking
  <2> QED BY <2>5, <2>6, <2>7, <2>8, <2>9, <2>10
<1>12. \A x \in Vectors : Keeps(x)
  <2>1. CASE First(n) = "adopt" /\ Buffer(r.x) = nullptr
    <3>1. Owned(r.x) = nullptr
      BY <2>1 DEF Owned, Buffer
    <3>2. Released(r, n)
      BY <2>1 DEF Released
    <3>3. Owned(r.x)' = nullptr
      BY <1>11, <3>2
    <3>4. Keeps(r.x)
      BY <3>1, <3>3 DEF Keeps
    <3> QED BY <1>11, <3>4
  <2>2. CASE ~(First(n) = "adopt" /\ Buffer(r.x) = nullptr)
    <3>1. Released(r, q) <=> Released(r, n)
      BY <1>4, <1>5, <1>7, <2>2, Kinds DEF Released, Backs, Fills
    <3> QED BY <1>11, <3>1
  <2> QED BY <2>1, <2>2
<1>13. heap[b].size = new_capacity(t) /\ heap[b].device = d
  BY <1>3, <1>4, <1>5 DEF Held
<1>14. Held' /\ Apart' /\ NothingElse'
  <2>1. e = [size_ |-> heap[b].size, device |-> heap[b].device]
    BY <1>13
  <2>2. DOMAIN allocations_ \subseteq Bases /\ nullptr \notin Bases
    BY <1>3, BlocksAreSomewhere DEF Shapes
  <2> HIDE DEF e
  <2> QED BY <1>2, <1>3, <1>4, <1>5, <1>9, <1>11, <1>12, <2>1, <2>2, NewEntry
<1>15. HeapKept(t)
  BY <1>2 DEF HeapKept
<1>16. OnDevice(t)'
  <2>1. \A x \in Vectors : Owned(x)' = Owned(x)
    BY <1>12 DEF Keeps
  <2>2. get_thread_local_device(t)' = d
    BY <1>2 DEF get_thread_local_device
  <2>3. Step(t)' = "free" => todo'[t] = Cons("free", AfterFree(r))
    <3> SUFFICES ASSUME First(n) = "free" PROVE n = Cons("free", AfterFree(r))
      BY <1>11
    <3>1. r.op \in Growing
      BY <1>4, <1>5, <1>7, Kinds DEF Fills
    <3>2. ~(Buffer(r.x) # nullptr /\ vec[r.x].size_ > 0)
      <4>1. First(AfterTrack(r)) = "free"
        BY <1>6
      <4>2. r.op \notin Creating /\ r.op \notin Replacing
        BY <3>1, <1>4, Kinds
      <4> QED BY <1>4, <4>1, <4>2, Rests
    <3>3. AfterTrack(r) = AfterCopy(r)
      BY <3>1, <3>2, <1>4, Kinds DEF AfterTrack
    <3>4. Buffer(r.x) # nullptr
      <4>1. First(AfterCopy(r)) = "free"
        BY <1>6, <3>3
      <4> QED BY <1>4, <3>1, <4>1, Rests
    <3> QED BY <1>6, <3>3, <3>4 DEF AfterCopy
  <2> QED BY <1>1, <1>2, <1>3, <1>11, <2>1, <2>2, <2>3, InCall, OwnDevice
<1> QED BY <1>11, <1>14, <1>15, <1>16, Composed

(* The tracker knows a block by its first element.                          *)
LEMMA Identified ==
  ASSUME DOMAIN allocations_ \subseteq Bases, NEW b \in DOMAIN allocations_,
         allocations_[b].size_ \in Int, allocations_[b].size_ > 0
  PROVE  identify(b) = b
<1> DEFINE below == {c \in DOMAIN allocations_ : c <= b}
<1>1. b \in below /\ \A c \in below : c \in Nat /\ c <= b
  <2>1. \A c \in DOMAIN allocations_ : c \in Nat
    BY BlocksAreSomewhere
  <2>2. b <= b
    BY <2>1
  <2> QED BY <2>1, <2>2
<1>2. Max(below) = b
  <2>1. b \in below /\ \A y \in below : b >= y
    BY <1>1
  <2>2. \A x \in below : (\A y \in below : x >= y) => x = b
    BY <1>1
  <2>3. Max(below) = CHOOSE x \in below : \A y \in below : x >= y
    BY DEF Max
  <2> HIDE DEF below
  <2> QED BY <2>1, <2>2, <2>3
<1>3. below # {} /\ b < b + allocations_[b].size_
  BY <1>1
<1> QED BY <1>2, <1>3 DEF identify

(* And the block of a vector whose call has not released it.                *)
LEMMA IdentifiedOwned ==
  ASSUME Good, NEW x \in Vectors, Owned(x) # nullptr
  PROVE  /\ Owned(x) = Buffer(x) /\ identify(Buffer(x)) = Buffer(x)
         /\ Buffer(x) \in DOMAIN heap
         /\ Buffer(x) \in DOMAIN allocations_
         /\ allocations_[Buffer(x)].device = heap[Buffer(x)].device
         /\ heap[Buffer(x)].size = vec[x].capacity_
<1>1. Owned(x) = Buffer(x) /\ Exists(x)
  BY DEF Owned, Buffer
<1>2. /\ Live(Buffer(x)) /\ Tracked(Buffer(x)) /\ heap[Buffer(x)].size = vec[x].capacity_
  BY <1>1 DEF Good, Held
<1>3. vec[x].capacity_ \in Nat /\ vec[x].capacity_ > 0
  <2>1. Sound(x)
    BY DEF Good
  <2>2. vec[x].data_ # nullptr
    BY <1>1 DEF Buffer
  <2> QED BY <1>1, <2>1, <2>2 DEF Sound
<1>4. /\ Buffer(x) \in DOMAIN allocations_
      /\ allocations_[Buffer(x)].size_ = heap[Buffer(x)].size
      /\ allocations_[Buffer(x)].device = heap[Buffer(x)].device
  BY <1>2 DEF Tracked
<1>5. DOMAIN allocations_ \subseteq Bases
  BY DEF Good, Shapes
<1>6. identify(Buffer(x)) = Buffer(x)
  BY <1>2, <1>3, <1>4, <1>5, Identified
<1> QED BY <1>1, <1>2, <1>4, <1>6 DEF Live

(* A step of a call that moves no block.                                    *)
LEMMA InnerStill ==
  ASSUME Good, NEW t \in Threads, NEW s, NEW n, Inner(t, s, n),
         heap' = heap, allocations_' = allocations_,
         Released(request[t], todo[t]) <=> Released(request[t], n),
         s \notin {"track", "untrack"}, First(n) \notin {"track", "untrack"},
         OnDevice(t)'
  PROVE  Good'
<1>1. /\ OnlyThread(t) /\ Shapes' /\ Local(t)' /\ todo'[t] = n
      /\ \A x \in Vectors : Sound(x)'
      /\ \A u \in Threads \ {t} : Undisturbed(u)
  BY InnerStep
<1>2. \A x \in Vectors : Keeps(x)
  BY InnerStep
<1>3. /\ new_capacity(t)' = new_capacity(t) /\ Step(t)' = First(n)
      /\ Untracking(t)' = nullptr
  BY InnerStep
<1>4. Step(t) = s /\ Untracking(t) = nullptr /\ new_data' = new_data /\ seen' = seen
  <2>1. At(t, s) /\ new_data' = new_data /\ seen' = seen
    BY DEF Inner
  <2>2. Step(t) = s
    BY <2>1, InCall
  <2> QED BY <2>1, <2>2 DEF Untracking
<1>5. \A u \in Threads : Undisturbed(u)
  BY <1>1, <1>3, <1>4 DEF Undisturbed
<1>6. /\ Held /\ Apart /\ NothingElse /\ DOMAIN heap \subseteq Bases
      /\ DOMAIN allocations_ \subseteq Bases /\ nullptr \notin Bases
  BY BlocksAreSomewhere DEF Good, Shapes
<1>7. Held' /\ Apart' /\ NothingElse'
  BY <1>2, <1>4, <1>5, <1>6, NothingMoves
<1>8. HeapKept(t)
  BY DEF HeapKept
<1> QED BY <1>1, <1>7, <1>8, Composed

(* icicle_free finds the block, and goes to its device if it is elsewhere.  *)
LEMMA FreeKeeps ==
  ASSUME Good, NEW t \in Threads, Free(t)
  PROVE  Good'
<1> DEFINE r == request[t]
           q == todo[t]
           p == Buffer(r.x)
           b == identify(Buffer(request[t].x))
           here == b # nullptr /\ allocations_[b].device = get_thread_local_device(t)
           back == IF sCurDevice[t] # NoDevice THEN "back" ELSE "back to default"
           first == <<"free memory", "untrack">> \o Tail(q)
           second == <<"free", back>> \o Tail(q)
<1>1. At(t, "free")
  BY DEF Free
<1>2. /\ Step(t) = "free" /\ Running(t) /\ First(q) = "free"
      /\ Rest(r, q) /\ r.op \in Operations /\ Asks(t, r) /\ r.x \in Vectors
      /\ Owner[r.x] = t
  BY <1>1, InCall
<1>3. /\ r.op \notin Creating /\ p # nullptr
      /\ Rest(r, first) /\ First(first) = "free memory"
      /\ q = Cons("free", AfterFree(r)) /\ seen # {} =>
           \A c \in Backs : /\ Rest(r, <<"free", c>> \o Tail(q))
                            /\ First(<<"free", c>> \o Tail(q)) = "free"
  BY <1>2, FollowsFree
<1>4. ~Released(r, q) /\ Exists(r.x)
  BY <1>2, <1>3, Kinds DEF Released, Asks, Backs
<1>5. Owned(r.x) = p
  BY <1>2, <1>4, Holding
<1>6. /\ b = p /\ p \in DOMAIN heap /\ allocations_[p].device = heap[p].device
  BY <1>2, <1>3, <1>5, IdentifiedOwned
<1>7. Shapes /\ OnDevice(t)
  BY DEF Good
<1>8. /\ DOMAIN heap \subseteq Bases /\ DOMAIN allocations_ \subseteq Bases
      /\ \A c \in DOMAIN heap : heap[c].device \in Devices
      /\ sCurDevice \in [Threads -> Devices \cup {NoDevice}]
  BY <1>7 DEF Shapes
<1>9. CASE here /\ todo' = [todo EXCEPT ![t] = first]
           /\ UNCHANGED <<runtime, vec, request, new_data, outcome, was, seen>>
  <2>1. UNCHANGED <<heap, allocations_, sCurDevice, m_default_device, vec, request, new_data,
                    outcome, seen>>
    BY <1>9 DEF runtime, memory
  <2>2. HoldsNew(r, q) <=> HoldsNew(r, first)
    BY <1>2, <1>3 DEF HoldsNew, Fills, Backs
  <2>3. Inner(t, "free", first)
    <3> HIDE DEF first
    <3> QED BY <1>1, <1>3, <1>8, <1>9, <2>1, <2>2 DEF Inner
  <2>4. Released(r, q) <=> Released(r, first)
    BY <1>2, <1>3 DEF Released, Backs
  <2>5. OnDevice(t)'
    <3>1. Step(t)' = "free memory" /\ todo'[t] = first
      BY <2>3, <1>3, InnerStep
    <3>2. (Running(t)' <=> Running(t)) /\ Owned(r.x)' = Owned(r.x)
          /\ Owned(r.y)' = Owned(r.y) /\ get_thread_local_device(t)' = get_thread_local_device(t)
      <4>1. \A x \in Vectors : Keeps(x)
        <5> HIDE DEF first
        <5> QED BY <2>3, <2>4, InnerStep
      <4>2. r.y \in Vectors
        BY <1>1, InCall
      <4> QED BY <1>2, <2>1, <4>1, <4>2 DEF Keeps, Running, get_thread_local_device
    <3> QED BY <1>7, <2>1, <3>1, <3>2 DEF OnDevice
  <2>6. First(first) \notin {"track", "untrack"}
    BY <1>3
  <2> HIDE DEF first
  <2> QED BY <2>1, <2>3, <2>4, <2>5, <2>6, InnerStill
<1>10. CASE /\ b # nullptr /\ ~here
            /\ set_thread_local_device(t, allocations_[b].device)
            /\ todo' = [todo EXCEPT ![t] = second]
            /\ UNCHANGED <<memory, m_default_device, vec, request, new_data, outcome, was, seen>>
  <2>1. /\ UNCHANGED <<heap, allocations_, m_default_device, vec, request, new_data,
                       outcome, seen>>
        /\ sCurDevice' = [sCurDevice EXCEPT ![t] = heap[p].device]
    BY <1>6, <1>10 DEF memory, set_thread_local_device
  <2>2. heap[p].device # get_thread_local_device(t)
    BY <1>6, <1>10
  <2>3. q = Cons("free", AfterFree(r)) /\ seen # {}
    BY <1>2, <1>3, <1>5, <1>7, <2>2 DEF OnDevice
  <2>4. back \in Backs
    BY DEF Backs
  <2>5. Rest(r, second) /\ First(second) = "free"
    <3> HIDE DEF back
    <3> QED BY <1>3, <2>3, <2>4
  <2>6. HoldsNew(r, q) <=> HoldsNew(r, second)
    BY <1>2, <2>5 DEF HoldsNew
  <2>7. heap[p].device \in Devices
    BY <1>6, <1>8
  <2>8. Inner(t, "free", second)
    <3>1. sCurDevice' \in [Threads -> Devices \cup {NoDevice}]
          /\ \A u \in Threads \ {t} : sCurDevice'[u] = sCurDevice[u]
      BY <1>8, <2>1, <2>7
    <3>2. First(second) # "return"
      BY <2>5
    <3> HIDE DEF second
    <3> QED BY <1>1, <1>8, <1>10, <2>1, <2>5, <2>6, <3>1, <3>2 DEF Inner
  <2>9. Released(r, q) <=> Released(r, second)
    BY <1>2, <2>5 DEF Released
  <2>10. OnDevice(t)'
    <3>1. get_thread_local_device(t)' = heap[p].device
      <4>1. heap[p].device # NoDevice
        BY <2>7, RuntimeAssumption
      <4> QED BY <1>8, <2>1, <4>1 DEF get_thread_local_device
    <3>2. Buffer(r.x)' = p
      BY <2>1 DEF Buffer
    <3> QED BY <2>1, <2>3, <3>1, <3>2 DEF OnDevice
  <2>11. First(second) \notin {"track", "untrack"}
    BY <2>5
  <2> HIDE DEF second
  <2> QED BY <2>1, <2>8, <2>9, <2>10, <2>11, InnerStill
<1> QED BY <1>3, <1>6, <1>9, <1>10 DEF Free

(* Switching back only happens where something unprovided has.              *)
LEMMA SwitchBackKeeps ==
  ASSUME Good, NEW t \in Threads, SwitchBack(t)
  PROVE  Good'
<1> DEFINE r == request[t]
           q == todo[t]
           n == Tail(q)
           s == Head(q)
<1>1. /\ s \in Backs /\ At(t, s)
      /\ s # "return" /\ s \notin {"track", "untrack"}
  BY DEF SwitchBack, At, Backs
<1>2. /\ Step(t) = s /\ First(q) = s /\ Rest(r, q) /\ r.op \in Operations
  BY <1>1, InCall
<1>3. /\ UNCHANGED <<heap, allocations_, m_default_device, vec, request, new_data,
                     outcome, seen>>
      /\ todo' = [todo EXCEPT ![t] = n]
      /\ sCurDevice' = [sCurDevice EXCEPT ![t] = IF s = "back" THEN sCurDevice[t]
                                                 ELSE m_default_device]
  BY DEF SwitchBack, switch_back, set_thread_local_device, Continue, memory
<1>4. Shapes
  BY DEF Good
<1>5. seen # {} /\ r.op \notin Creating
  BY <1>1, <1>2 DEF Rest
<1>6. Rest(r, n) /\ (First(n) = First(AfterFree(r)) \/ First(n) \in Backs)
  <2>1. First(q) \in {"untrack"} \cup Backs
    BY <1>1, <1>2
  <2>2. First(q) \in {"untrack"} \cup Backs =>
          /\ Rest(r, Tail(q))
          /\ \/ First(Tail(q)) = First(AfterFree(r))
             \/ First(Tail(q)) \in Backs /\ seen # {}
    BY <1>2, Follows
  <2> QED BY <2>1, <2>2
<1>7. First(AfterFree(r)) = IF r.op \in Growing THEN "adopt"
                            ELSE IF r.op \in Replacing THEN "malloc" ELSE "return"
  BY <1>2, Rests
<1> HIDE DEF s, n
<1>8. HoldsNew(r, q) <=> HoldsNew(r, n)
  BY <1>1, <1>2, <1>5, <1>6, <1>7, Kinds DEF HoldsNew, Fills, Backs
<1>9. Released(r, q) <=> Released(r, n)
  BY <1>1, <1>2, <1>5, <1>6, <1>7, Kinds DEF Released, Backs
<1>10. /\ First(n) # "return" \/ r.op \in Creating \cup {"destroy"}
       /\ First(n) \notin {"track", "untrack", "free"}
  BY <1>2, <1>5, <1>6, <1>7, Kinds DEF Backs
<1>11. Inner(t, s, n)
  <2>1. /\ sCurDevice' \in [Threads -> Devices \cup {NoDevice}]
        /\ \A u \in Threads \ {t} : sCurDevice'[u] = sCurDevice[u]
    BY <1>3, <1>4 DEF Shapes
  <2>2. /\ DOMAIN heap' \subseteq Bases /\ DOMAIN allocations_' \subseteq Bases
        /\ \A b \in DOMAIN heap' : heap'[b].device \in Devices
    BY <1>3, <1>4 DEF Shapes
  <2> QED BY <1>1, <1>3, <1>6, <1>8, <1>10, <2>1, <2>2 DEF Inner
<1>12. OnDevice(t)'
  <2>1. Step(t)' = First(n)
    BY <1>11, InnerStep
  <2> QED BY <1>3, <1>5, <1>10, <2>1 DEF OnDevice
<1> QED BY <1>1, <1>3, <1>9, <1>10, <1>11, <1>12, InnerStill

(* What is released is live, and nobody else's.                             *)
LEMMA FreeMemoryKeeps ==
  ASSUME Good, NEW t \in Threads, FreeMemory(t)
  PROVE  Good'
<1> DEFINE r == request[t]
           q == todo[t]
           n == Tail(q)
           b == Buffer(r.x)
<1>1. At(t, "free memory")
  BY DEF FreeMemory
<1>2. /\ Step(t) = "free memory" /\ Running(t) /\ First(q) = "free memory"
      /\ Rest(r, q) /\ r.op \in Operations /\ Asks(t, r) /\ r.x \in Vectors /\ r.y \in Vectors
      /\ Owner[r.x] = t /\ Owner[r.y] = t
  BY <1>1, InCall
<1>3. r.op \notin Creating /\ b # nullptr
  BY <1>2 DEF Rest
<1>4. ~Released(r, q) /\ Exists(r.x)
  BY <1>2, <1>3, Kinds DEF Released, Asks, Backs
<1>5. Owned(r.x) = b
  BY <1>2, <1>4, Holding
<1>6. b \in DOMAIN heap
  BY <1>2, <1>3, <1>5, IdentifiedOwned
<1>7. /\ heap' = Drop(heap, b) /\ todo' = [todo EXCEPT ![t] = n]
      /\ UNCHANGED <<allocations_, sCurDevice, m_default_device, vec, request, new_data,
                     outcome, seen>>
  BY <1>6 DEF FreeMemory, Live, free_memory, Continue
<1>8. Rest(r, n) /\ First(n) = "untrack"
  BY <1>2, Follows
<1>9. Shapes /\ Held /\ Apart /\ NothingElse /\ OnDevice(t)
  BY DEF Good
<1>10. /\ DOMAIN heap' = DOMAIN heap \ {b}
       /\ \A c \in DOMAIN heap \ {b} : heap'[c] = heap[c]
  BY <1>7 DEF Drop
<1>11. Inner(t, "free memory", n)
  <2>1. /\ DOMAIN heap' \subseteq Bases /\ DOMAIN allocations_' \subseteq Bases
        /\ \A c \in DOMAIN heap' : heap'[c].device \in Devices
        /\ sCurDevice' \in [Threads -> Devices \cup {NoDevice}]
    BY <1>7, <1>9, <1>10 DEF Shapes
  <2>2. HoldsNew(r, q) <=> HoldsNew(r, n)
    BY <1>2, <1>3, <1>8 DEF HoldsNew, Fills, Backs
  <2> HIDE DEF n
  <2> QED BY <1>1, <1>7, <1>8, <2>1, <2>2 DEF Inner
<1>12. /\ OnlyThread(t) /\ Shapes' /\ Local(t)' /\ todo'[t] = n
       /\ \A x \in Vectors : Sound(x)'
       /\ \A u \in Threads \ {t} : Undisturbed(u)
  BY <1>11, InnerStep
<1>13. \A x \in Vectors \ {r.x} : Keeps(x)
  BY <1>11, InnerStep
<1>14. Owned(r.x)' = nullptr
  <2>1. Released(r, n)
    BY <1>8 DEF Released
  <2> QED BY <1>11, <2>1, InnerStep
<1>15. /\ new_capacity(t)' = new_capacity(t) /\ Step(t)' = "untrack"
       /\ Untracking(t)' = b
  BY <1>8, <1>11, InnerStep
<1>16. Untracking(t) = nullptr
  BY <1>2 DEF Untracking
<1>17. Held' /\ Apart' /\ NothingElse'
  <2>1. DOMAIN allocations_ \subseteq Bases /\ nullptr \notin Bases
    BY <1>9, BlocksAreSomewhere DEF Shapes
  <2>2. Step(t) # "track" /\ Step(t)' # "track" /\ new_data' = new_data /\ seen' = seen
    BY <1>2, <1>7, <1>15
  <2>3. PICK x \in Vectors : x = r.x
    BY <1>2
  <2>4. b = Owned(x) /\ Owned(x)' = nullptr /\ \A y \in Vectors \ {x} : Keeps(y)
    BY <1>5, <1>7, <1>13, <1>14, <2>3
  <2>5. PICK c : c = b
    OBVIOUS
  <2>6. /\ heap' = Drop(heap, c) /\ allocations_' = allocations_
        /\ c = Owned(x) /\ c # nullptr /\ Untracking(t)' = c
    BY <1>3, <1>7, <1>15, <2>4, <2>5
  <2> QED BY <1>9, <1>12, <1>15, <1>16, <2>1, <2>2, <2>4, <2>6, BlockGone
<1>18. HeapKept(t)
  BY <1>2, <1>5, <1>10 DEF HeapKept
<1>19. OnDevice(t)'
  <2>1. \A x \in Vectors : Owned(x) # nullptr /\ x # r.x => heap'[Owned(x)] = heap[Owned(x)]
    <3> SUFFICES ASSUME NEW x \in Vectors, Owned(x) # nullptr, x # r.x
                 PROVE  heap'[Owned(x)] = heap[Owned(x)]
      OBVIOUS
    <3>1. Owned(x) \in DOMAIN heap
      BY <1>9 DEF Held, Live
    <3>2. Owned(x) # Owned(r.x)
      BY <1>2, <1>9 DEF Apart
    <3> QED BY <1>5, <1>10, <3>1, <3>2
  <2>2. new_data[t] # nullptr => heap'[new_data[t]] = heap[new_data[t]]
    <3> SUFFICES ASSUME new_data[t] # nullptr
                 PROVE  heap'[new_data[t]] = heap[new_data[t]]
      OBVIOUS
    <3>1. new_data[t] \in DOMAIN heap
      BY <1>9 DEF Held, Live
    <3>2. Owned(r.x) # new_data[t]
      BY <1>2, <1>3, <1>5, <1>9 DEF Apart
    <3> QED BY <1>5, <1>10, <3>1, <3>2
  <2>3. get_thread_local_device(t)' = get_thread_local_device(t)
    BY <1>7 DEF get_thread_local_device
  <2>4. \A x \in Vectors : x # r.x => Owned(x)' = Owned(x)
    BY <1>13 DEF Keeps
  <2>5. Step(t)' # "free"
    BY <1>15
  <2> QED BY <1>2, <1>7, <1>9, <1>14, <2>1, <2>2, <2>3, <2>4, <2>5, OwnDevice
<1> QED BY <1>12, <1>17, <1>18, <1>19, Composed

(* An entry goes when its block has gone.                                   *)
LEMMA UntrackKeeps ==
  ASSUME Good, NEW t \in Threads, Untrack(t)
  PROVE  Good'
<1> DEFINE r == request[t]
           q == todo[t]
           n == Tail(q)
           b == Buffer(r.x)
<1>1. At(t, "untrack")
  BY DEF Untrack
<1>2. /\ Step(t) = "untrack" /\ Running(t) /\ First(q) = "untrack"
      /\ Rest(r, q) /\ r.op \in Operations /\ r.x \in Vectors /\ r.y \in Vectors
      /\ Owner[r.x] = t /\ Owner[r.y] = t
  BY <1>1, InCall
<1>3. r.op \notin Creating /\ b # nullptr
  BY <1>2 DEF Rest
<1>4. /\ allocations_' = Drop(allocations_, b) /\ todo' = [todo EXCEPT ![t] = n]
      /\ UNCHANGED <<heap, sCurDevice, m_default_device, vec, request, new_data,
                     outcome, seen>>
  BY DEF Untrack, remove_allocation, Continue
<1>5. Rest(r, n) /\ (First(n) = First(AfterFree(r)) \/ First(n) \in Backs)
  BY <1>2, Follows
<1>6. First(AfterFree(r)) = IF r.op \in Growing THEN "adopt"
                            ELSE IF r.op \in Replacing THEN "malloc" ELSE "return"
  BY <1>2, Rests
<1>7. Shapes /\ Held /\ Apart /\ NothingElse /\ OnDevice(t)
  BY DEF Good
<1>8. /\ First(n) # "return" \/ r.op \in Creating \cup {"destroy"}
      /\ First(n) \notin {"track", "untrack", "free"}
  BY <1>2, <1>3, <1>5, <1>6, Kinds DEF Backs
<1>9. HoldsNew(r, q) <=> HoldsNew(r, n)
  BY <1>2, <1>3, <1>5, <1>6, Kinds DEF HoldsNew, Fills, Backs
<1>10. Released(r, q) <=> Released(r, n)
  BY <1>2, <1>3, <1>5, <1>6, Kinds DEF Released, Backs
<1>11. Inner(t, "untrack", n)
  <2>1. /\ DOMAIN heap' \subseteq Bases /\ DOMAIN allocations_' \subseteq Bases
        /\ \A c \in DOMAIN heap' : heap'[c].device \in Devices
        /\ sCurDevice' \in [Threads -> Devices \cup {NoDevice}]
    BY <1>4, <1>7 DEF Shapes, Drop
  <2> HIDE DEF n
  <2> QED BY <1>1, <1>4, <1>5, <1>8, <1>9, <2>1 DEF Inner
<1>12. /\ OnlyThread(t) /\ Shapes' /\ Local(t)' /\ todo'[t] = n
       /\ \A x \in Vectors : Sound(x)'
       /\ \A u \in Threads \ {t} : Undisturbed(u)
  BY <1>11, InnerStep
<1>13. \A x \in Vectors : Keeps(x)
  BY <1>10, <1>11, InnerStep
<1>14. /\ new_capacity(t)' = new_capacity(t) /\ Step(t)' = First(n)
       /\ Untracking(t)' = nullptr
  BY <1>8, <1>11, InnerStep
<1>15. Untracking(t) = b
  BY <1>2 DEF Untracking, Buffer
<1>16. Held' /\ Apart' /\ NothingElse'
  <2>1. DOMAIN allocations_ \subseteq Bases /\ nullptr \notin Bases
    BY <1>7, BlocksAreSomewhere DEF Shapes
  <2>2. Step(t) # "track" /\ Step(t)' # "track" /\ new_data' = new_data /\ seen' = seen
    BY <1>2, <1>4, <1>8, <1>14
  <2>3. PICK c : c = b
    OBVIOUS
  <2>4. allocations_' = Drop(allocations_, c) /\ heap' = heap /\ c = Untracking(t) /\ c # nullptr
    BY <1>3, <1>4, <1>15, <2>3
  <2> QED BY <1>7, <1>12, <1>13, <1>14, <2>1, <2>2, <2>4, EntryGone
<1>17. HeapKept(t)
  BY <1>4 DEF HeapKept
<1>18. OnDevice(t)'
  <2>1. get_thread_local_device(t)' = get_thread_local_device(t)
    BY <1>4 DEF get_thread_local_device
  <2>2. \A x \in Vectors : Owned(x)' = Owned(x)
    BY <1>13 DEF Keeps
  <2>3. Step(t)' # "free"
    BY <1>8, <1>14
  <2> QED BY <1>2, <1>4, <1>7, <2>1, <2>2, <2>3, OwnDevice
<1> QED BY <1>12, <1>16, <1>17, <1>18, Composed

-----------------------------------------------------------------------------
(* How much a call needs is a number, also if it is a vector's size.        *)
LEMMA Needs ==
  ASSUME NEW t \in Threads, NEW r, Asks(t, r), \A x \in Vectors : Sound(x),
         r.op # "destroy"
  PROVE  /\ Need(r) \in Nat
         /\ r.op \in Growing => Wanted(r) \in Nat
         /\ r.op \in Creating \cup Replacing => Asked(r) \in Nat /\ Need(r) = Asked(r)
<1>1. /\ r.n \in Nat /\ r.x \in Vectors /\ r.y \in Vectors /\ r.op \in Operations
  BY AskedFor
<1>2. /\ r.op \notin Creating => vec[r.x].size_ \in Nat
      /\ r.op \in {"copy", "push_vector", "assign"} => vec[r.y].size_ \in Nat
  BY <1>1 DEF Asks, Sound
<1>3. r.op \in Creating \cup Replacing =>
        r.op \in {"construct", "from_host", "copy_from_host", "copy", "assign"}
  BY DEF Creating, Replacing
<1>4. r.op \in Creating \cup Replacing => Asked(r) \in Nat
  BY <1>1, <1>2, <1>3 DEF Asked
<1>5. r.op \in Growing => Wanted(r) \in Nat
  <2> SUFFICES ASSUME r.op \in Growing PROVE Wanted(r) \in Nat
    OBVIOUS
  <2>1. r.op \notin Creating
    BY <1>1, Kinds
  <2>2. vec[r.x].size_ \in Nat
    BY <1>2, <2>1
  <2>3. CASE r.op \in {"push_back", "push_host"}
    <3>1. Wanted(r) = IF r.n = 0 THEN 0 ELSE vec[r.x].size_ + r.n
      BY <2>3 DEF Wanted
    <3> QED BY <1>1, <2>2, <3>1
  <2>4. CASE r.op = "push_vector"
    <3>1. Wanted(r) = IF vec[r.y].size_ = 0 THEN 0 ELSE vec[r.x].size_ + vec[r.y].size_
      BY <2>4 DEF Wanted
    <3> QED BY <1>2, <2>2, <2>4, <3>1
  <2>5. CASE r.op \in {"reserve", "resize"}
    BY <1>1, <2>5 DEF Wanted
  <2>6. CASE r.op \notin {"push_back", "push_host", "push_vector", "reserve", "resize"}
    BY <2>6 DEF Wanted
  <2> QED BY <2>3, <2>4, <2>5, <2>6
<1>6. r.op \in Creating \cup Replacing => Need(r) = Asked(r)
  BY <1>1, Kinds DEF Need
<1> QED BY <1>1, <1>4, <1>5, <1>6, Kinds DEF Need

(* A call that allocates gets what it needs, more than there was.           *)
LEMMA Enough ==
  ASSUME NEW t \in Threads, Asks(t, request[t]), Room(request[t], todo[t]),
         \A x \in Vectors : Sound(x),
         request[t].op # "destroy", First(todo[t]) # "return"
  PROVE  /\ new_capacity(t) \in Nat /\ new_capacity(t) > 0
         /\ new_capacity(t) >= Need(request[t])
         /\ request[t].op \notin Creating => vec[request[t].x].capacity_ \in Nat
         /\ request[t].op \in Creating \cup Replacing =>
              new_capacity(t) = Asked(request[t])
<1> DEFINE r == request[t]
<1>1. r.op \in Operations /\ r.x \in Vectors
  BY AskedFor
<1>2. Need(r) \in Nat /\ (r.op \in Creating \cup Replacing => Need(r) = Asked(r))
  BY Needs
<1>3. r.op \notin Creating => vec[r.x].capacity_ \in Nat
  BY <1>1 DEF Sound, Asks
<1>4. Need(r) > IF r.op \in Creating THEN 0 ELSE vec[r.x].capacity_
  BY DEF Room
<1>5. CASE r.op \in Creating \cup Replacing
  <2>1. new_capacity(t) = Asked(r)
    BY <1>1, <1>5, Allocates
  <2> QED BY <1>2, <1>3, <1>4, <1>5, <2>1
<1>6. CASE r.op \notin Creating \cup Replacing
  <2>1. r.op \in Growing
    BY <1>1, <1>6, Kinds
  <2>2. Need(r) = Wanted(r)
    BY <2>1 DEF Need
  <2>3. new_capacity(t) =
          LET double == IF vec[r.x].capacity_ = 0 THEN 1 ELSE 2 * vec[r.x].capacity_
          IN  IF double < Wanted(r) THEN Wanted(r) ELSE double
    BY <1>1, <1>6, Allocates
  <2> QED BY <1>2, <1>3, <1>4, <1>6, <2>2, <2>3
<1> QED BY <1>5, <1>6

(* While nothing unprovided has happened, a call reaches the blocks it       *)
(* works on, and the runtime lets it.                                       *)
LEMMA Reached ==
  ASSUME Good, seen = {}, NEW t \in Threads, Running(t),
         NEW x \in Vectors, x \in {request[t].x, request[t].y}, Owned(x) # nullptr
  PROVE  MemoryType(t, Buffer(x)) = "ActiveDevice" /\ Accessible(t, Buffer(x))
<1>1. /\ Owned(x) = Buffer(x) /\ identify(Buffer(x)) = Buffer(x)
      /\ Buffer(x) \in DOMAIN heap
      /\ allocations_[Buffer(x)].device = heap[Buffer(x)].device
  BY IdentifiedOwned
<1>2. heap[Buffer(x)].device = get_thread_local_device(t)
  BY <1>1 DEF Good, OnDevice
<1> QED BY <1>1, <1>2 DEF MemoryType, Accessible, Live

(* And the block it has allocated.                                          *)
LEMMA ReachedNew ==
  ASSUME Good, seen = {}, NEW t \in Threads, Running(t), new_data[t] # nullptr,
         Step(t) # "track", new_capacity(t) \in Nat, new_capacity(t) > 0
  PROVE  MemoryType(t, new_data[t]) = "ActiveDevice"
<1> DEFINE b == new_data[t]
<1>1. heap[b].size = new_capacity(t) /\ Tracked(b)
  BY DEF Good, Held
<1>2. heap[b].device = get_thread_local_device(t)
  BY DEF Good, OnDevice
<1>3. /\ b \in DOMAIN allocations_
      /\ allocations_[b].size_ = new_capacity(t)
      /\ allocations_[b].device = get_thread_local_device(t)
  BY <1>1, <1>2 DEF Tracked
<1>4. DOMAIN allocations_ \subseteq Bases
  BY DEF Good, Shapes
<1>5. identify(b) = b
  BY <1>3, <1>4, Identified
<1> QED BY <1>3, <1>5 DEF MemoryType

(* Nothing moves when the program goes wrong, only it does not go on.       *)
LEMMA UndefinedKeeps ==
  ASSUME Good, NEW t \in Threads, NEW s, At(t, s), seen # {}, Undefined
  PROVE  Good'
<1>1. /\ UNCHANGED <<heap, allocations_, sCurDevice, m_default_device,
                     vec, request, todo, new_data, seen>>
      /\ outcome' = "undefined"
  BY DEF Undefined, runtime, memory
<1>2. Shapes /\ Held /\ Apart /\ NothingElse /\ OnDevice(t) /\ \A x \in Vectors : Sound(x)
  BY DEF Good
<1>3. OnlyThread(t) /\ HeapKept(t)
  BY <1>1 DEF OnlyThread, HeapKept
<1>4. Shapes'
  BY <1>1, <1>2 DEF Shapes
<1>5. Running(t) /\ Asks(t, request[t])
  BY InCall
<1>6. Local(t)'
  BY <1>1, InCall, OwnLocal
<1>7. /\ Step(t)' = Step(t) /\ Untracking(t)' = Untracking(t)
      /\ get_thread_local_device(t)' = get_thread_local_device(t)
      /\ (Running(t)' <=> Running(t))
  BY <1>1 DEF Step, Untracking, Running, get_thread_local_device
<1>8. Released(request[t], todo[t])' <=> Released(request[t], todo[t])
  BY <1>1 DEF Released
<1>9. /\ \A x \in Vectors : Owner[x] = t => Keeps(x)
      /\ new_capacity(t)' = new_capacity(t)
  <2>1. \A x \in Vectors : Owner[x] = t => Keeps(x)
    BY <1>1, <1>5, <1>8, OwnVectors
  <2>2. new_capacity(t)' = new_capacity(t)
    BY <1>1 DEF new_capacity, Wanted
  <2> QED BY <2>1, <2>2
<1>10. \A x \in Vectors : Keeps(x)
  BY <1>3, <1>9, Elsewhere, VectorAssumption DEF Good
<1>11. \A u \in Threads : Undisturbed(u)
  <2>1. Undisturbed(t)
    BY <1>1, <1>7, <1>9 DEF Undisturbed
  <2> QED BY <1>3, <2>1, Elsewhere DEF Good
<1>12. Held' /\ Apart' /\ NothingElse'
  <2>1. DOMAIN heap \subseteq Bases /\ DOMAIN allocations_ \subseteq Bases /\ nullptr \notin Bases
    BY <1>2, BlocksAreSomewhere DEF Shapes
  <2> QED BY <1>1, <1>2, <1>10, <1>11, <2>1, NothingMoves
<1>13. OnDevice(t)'
  <2>1. AfterFree(request[t])' = AfterFree(request[t]) /\ Buffer(request[t].x)' = Buffer(request[t].x)
    BY <1>1 DEF AfterFree, Cons, Finish, Buffer
  <2>2. Owned(request[t].x)' = Owned(request[t].x) /\ Owned(request[t].y)' = Owned(request[t].y)
    BY <1>1, <1>10, InCall DEF Keeps
  <2> QED BY <1>1, <1>2, <1>7, <2>1, <2>2 DEF OnDevice
<1>14. \A x \in Vectors : Sound(x)'
  BY <1>1, <1>2 DEF Sound, Exists
<1> QED BY <1>3, <1>4, <1>6, <1>12, <1>13, <1>14, Composed

(* What is left of a call that is over.                                     *)
LEMMA Ended ==
  ASSUME Good, NEW t \in Threads, End(t), seen \subseteq seen',
         UNCHANGED <<sCurDevice, m_default_device>>,
         \A x \in Vectors : Owner[x] # t => vec'[x] = vec[x]
  PROVE  /\ OnlyThread(t) /\ Local(t)' /\ OnDevice(t)'
         /\ request'[t] = NoRequest /\ new_data'[t] = nullptr /\ Untracking(t)' = nullptr
         /\ DOMAIN request' = Threads /\ DOMAIN todo' = Threads
         /\ new_data' \in [Threads -> Bases \cup {nullptr}]
         /\ Step(t)' = "none"
         /\ \A u \in Threads \ {t} : Undisturbed(u)
         /\ \A x \in Vectors : Owner[x] # t => Keeps(x)
<1>1. /\ DOMAIN request = Threads /\ DOMAIN todo = Threads
      /\ new_data \in [Threads -> Bases \cup {nullptr}]
  BY DEF Good, Shapes
<1>2. /\ request' = [request EXCEPT ![t] = NoRequest] /\ todo' = [todo EXCEPT ![t] = <<>>]
      /\ new_data' = [new_data EXCEPT ![t] = nullptr]
  BY DEF End
<1>3. request'[t] = NoRequest /\ todo'[t] = <<>> /\ new_data'[t] = nullptr
  BY <1>1, <1>2
<1>4. OnlyThread(t)
  BY <1>1, <1>2 DEF OnlyThread
<1>5. /\ Local(t)' /\ OnDevice(t)' /\ Untracking(t)' = nullptr /\ Step(t)' = "none"
  BY <1>3 DEF Local, OnDevice, Running, Untracking, Step, First
<1>6. /\ \A u \in Threads \ {t} : Undisturbed(u)
      /\ \A x \in Vectors : Owner[x] # t => Keeps(x)
  BY <1>4, Elsewhere, VectorAssumption DEF Good
<1>7. DOMAIN request' = Threads /\ DOMAIN todo' = Threads
      /\ new_data' \in [Threads -> Bases \cup {nullptr}]
  BY <1>1, <1>2
<1> QED BY <1>3, <1>4, <1>5, <1>6, <1>7

(* A new block is filled, or the runtime refuses to, or memory is touched    *)
(* that is not there: these two only after something unprovided.            *)
LEMMA FillNewKeeps ==
  ASSUME Good, NEW t \in Threads, FillNew(t)
  PROVE  Good'
<1> DEFINE r == request[t]
           q == todo[t]
           n == Tail(q)
           s == Head(q)
           new == new_data[t]
           copies == s \in {"copy old", "copy other"}
           from == IF s = "copy old" THEN r.x ELSE r.y
           allowed == CASE s = "zero"      -> is_active_device_memory(t, new)
                        [] s = "copy host" -> TRUE
                        [] OTHER           -> copy_allowed(t, new, Buffer(from))
<1>1. /\ s \in {"zero", "copy host", "copy old", "copy other"} /\ At(t, s)
      /\ s # "return" /\ s \notin {"track", "untrack"}
  BY DEF FillNew, At
<1>2. /\ Step(t) = s /\ First(q) = s /\ Rest(r, q) /\ r.op \in Operations /\ Running(t)
      /\ Asks(t, r) /\ Room(r, q) /\ r.x \in Vectors /\ r.y \in Vectors
      /\ Owner[r.x] = t /\ Owner[r.y] = t
      /\ new # nullptr <=> HoldsNew(r, q)
  BY <1>1, InCall
<1>3. Shapes /\ Held /\ Apart /\ NothingElse /\ OnDevice(t) /\ \A x \in Vectors : Sound(x)
  BY DEF Good
<1>4. \/ s = "copy old" /\ r.op \in Growing /\ Buffer(r.x) # nullptr
      \/ s \in Fills /\ s = FillOf(r) /\ r.op \in Creating
  <2>1. s = "copy old" \/ s \in Fills
    BY <1>1 DEF Fills
  <2> QED BY <1>2, <2>1 DEF Rest
<1>5. new # nullptr /\ r.op # "destroy" /\ ~Released(r, q)
  <2>1. HoldsNew(r, q)
    BY <1>1, <1>2 DEF HoldsNew, Fills
  <2>2. r.op # "destroy"
    BY <1>2, <1>4, Kinds
  <2>3. ~Released(r, q)
    BY <1>1, <1>2, <2>2 DEF Released, Backs
  <2> QED BY <1>2, <2>1, <2>2, <2>3
<1>6. new_capacity(t) \in Nat /\ new_capacity(t) > 0
      /\ (r.op \in Creating => Asked(r) > 0)
  BY <1>1, <1>2, <1>3, <1>5, Enough
<1>7. seen = {} => allowed /\ (copies => Accessible(t, Buffer(from)))
  <2> SUFFICES ASSUME seen = {} PROVE allowed /\ (copies => Accessible(t, Buffer(from)))
    OBVIOUS
  <2>1. MemoryType(t, new) = "ActiveDevice"
    BY <1>1, <1>2, <1>5, <1>6, ReachedNew
  <2>2. copies => MemoryType(t, Buffer(from)) = "ActiveDevice" /\ Accessible(t, Buffer(from))
    <3>1. CASE s = "copy old"
      <4>1. r.op \in Growing /\ Buffer(r.x) # nullptr
        BY <1>4, <3>1 DEF Fills
      <4>2. Exists(r.x)
        BY <1>2, <4>1, Kinds DEF Asks
      <4>3. Owned(r.x) = Buffer(r.x)
        BY <1>2, <1>5, <4>2, Holding
      <4>4. MemoryType(t, Buffer(r.x)) = "ActiveDevice" /\ Accessible(t, Buffer(r.x))
        BY <1>2, <4>1, <4>3, Reached
      <4> QED BY <3>1, <4>4
    <3>2. CASE s = "copy other"
      <4>1. r.op = "copy"
        BY <1>4, <3>2 DEF Fills, FillOf, Creating
      <4>2. Exists(r.y) /\ ~Exists(r.x)
        BY <1>2, <4>1 DEF Asks, Creating
      <4>3. Owned(r.y) = Buffer(r.y)
        <5>1. r.x # r.y
          BY <4>2
        <5> QED BY <1>2, <4>2, <5>1, Holding
      <4>4. Asked(r) = vec[r.y].size_ /\ Asked(r) > 0
        BY <1>6, <4>1 DEF Asked, Creating
      <4>5. Buffer(r.y) # nullptr
        <5>1. Sound(r.y) /\ "lost" \notin seen
          BY <1>2, <1>3
        <5>2. /\ vec[r.y].size_ \in Nat /\ vec[r.y].capacity_ \in Nat
              /\ vec[r.y].size_ <= vec[r.y].capacity_
          BY <4>2, <5>1 DEF Sound
        <5>3. vec[r.y].capacity_ # 0
          BY <4>4, <5>2
        <5> QED BY <4>2, <5>1, <5>3 DEF Sound, Buffer
      <4>6. MemoryType(t, Buffer(r.y)) = "ActiveDevice" /\ Accessible(t, Buffer(r.y))
        BY <1>2, <4>3, <4>5, Reached
      <4> QED BY <3>2, <4>6
    <3> QED BY <3>1, <3>2
  <2> HIDE DEF from
  <2>3. CASE s = "zero"
    BY <2>1, <2>3 DEF is_active_device_memory
  <2>4. CASE s = "copy host"
    BY <2>4
  <2>5. CASE copies
    <3>1. copy_allowed(t, new, Buffer(from))
      BY <2>1, <2>2, <2>5 DEF copy_allowed
    <3> QED BY <2>2, <2>5, <3>1
  <2> QED BY <1>1, <2>3, <2>4, <2>5
<1>8. CASE ~allowed /\ Throws(t)
  <2>1. seen # {}
    BY <1>7, <1>8
  <2>2. /\ End(t) /\ outcome' = outcome
        /\ UNCHANGED <<heap, allocations_, sCurDevice, m_default_device, vec, seen>>
    BY <1>5, <1>8 DEF Throws, runtime, memory
  <2>3. /\ OnlyThread(t) /\ Local(t)' /\ OnDevice(t)'
        /\ request'[t] = NoRequest /\ new_data'[t] = nullptr /\ Untracking(t)' = nullptr
        /\ DOMAIN request' = Threads /\ DOMAIN todo' = Threads
        /\ new_data' \in [Threads -> Bases \cup {nullptr}]
        /\ \A u \in Threads \ {t} : Undisturbed(u)
        /\ \A x \in Vectors : Owner[x] # t => Keeps(x)
    BY <2>2, Ended
  <2>4. \A x \in Vectors : Keeps(x)
    BY <1>5, <2>2, <2>3, OwnEnd
  <2>5. Untracking(t) = nullptr
    BY <1>1, <1>2 DEF Untracking
  <2>6. Held' /\ Apart' /\ NothingElse'
    BY <1>3, <2>1, <2>2, <2>3, <2>4, <2>5, Leaked
  <2>7. Shapes' /\ HeapKept(t) /\ \A x \in Vectors : Sound(x)'
    BY <1>3, <2>2, <2>3 DEF Shapes, HeapKept, Sound, Exists
  <2> QED BY <2>3, <2>6, <2>7, Composed
<1>9. CASE copies /\ ~Accessible(t, Buffer(from)) /\ Undefined
  <2>1. seen # {}
    BY <1>7, <1>9
  <2> QED BY <1>1, <1>9, <2>1, UndefinedKeeps
<1>10. CASE /\ Continue(t)
            /\ UNCHANGED <<heap, allocations_, sCurDevice, m_default_device,
                           vec, request, new_data, outcome, was, seen>>
  <2>1. todo' = [todo EXCEPT ![t] = n]
    BY <1>10 DEF Continue
  <2>2. /\ Rest(r, n) /\ HoldsNew(r, n) /\ ~Released(r, n)
        /\ First(n) # "return" \/ r.op \in Creating \cup {"destroy"}
        /\ First(n) \notin {"track", "untrack"}
        /\ First(n) = "free" => n = Cons("free", AfterFree(r))
    <3>1. CASE s = "copy old" /\ r.op \in Growing /\ Buffer(r.x) # nullptr
      <4>1. Rest(r, n) /\ First(n) = "free"
        BY <1>2, <3>1, Follows
      <4>2. n = AfterCopy(r)
        BY <1>2, <3>1, Moves
      <4>3. n = Cons("free", AfterFree(r))
        BY <3>1, <4>2 DEF AfterCopy
      <4>4. HoldsNew(r, n) /\ ~Released(r, n)
        BY <1>2, <3>1, <4>1, Kinds DEF HoldsNew, Released, Backs
      <4> QED BY <4>1, <4>3, <4>4
    <3>2. CASE s \in Fills /\ r.op \in Creating
      <4>1. n = Finish
        BY <1>2, <3>2, Follows
      <4>2. Rest(r, Finish) /\ First(Finish) = "return"
        BY <1>2, Rests
      <4>3. HoldsNew(r, n) /\ ~Released(r, n)
        BY <1>2, <1>5, <1>6, <3>2, <4>1, <4>2, Kinds DEF HoldsNew, Released, Backs
      <4> QED BY <3>2, <4>1, <4>2, <4>3
    <3> QED BY <1>4, <3>1, <3>2
  <2>3. Inner(t, s, n)
    <3>1. /\ DOMAIN heap' \subseteq Bases /\ DOMAIN allocations_' \subseteq Bases
          /\ \A c \in DOMAIN heap' : heap'[c].device \in Devices
          /\ sCurDevice' \in [Threads -> Devices \cup {NoDevice}]
      BY <1>3, <1>10 DEF Shapes
    <3>2. HoldsNew(r, q) <=> HoldsNew(r, n)
      BY <1>2, <1>5, <2>2
    <3> HIDE DEF n, s
    <3> QED BY <1>1, <1>10, <2>1, <2>2, <3>1, <3>2 DEF Inner
  <2>4. Released(r, q) <=> Released(r, n)
    BY <1>5, <2>2
  <2>5. OnDevice(t)'
    <3>1. Step(t)' = First(n) /\ todo'[t] = n /\ seen' = seen
      BY <1>10, <2>3, InnerStep
    <3>2. \A x \in Vectors : Keeps(x)
      BY <2>3, <2>4, InnerStep
    <3>3. get_thread_local_device(t)' = get_thread_local_device(t)
      BY <1>10 DEF get_thread_local_device
    <3>4. \A x \in Vectors : Owned(x)' = Owned(x)
      BY <3>2 DEF Keeps
    <3>5. Step(t)' = "free" => todo'[t] = Cons("free", AfterFree(r))
      BY <2>2, <3>1
    <3> QED BY <1>2, <1>3, <1>10, <3>1, <3>3, <3>4, <3>5, OwnDevice
  <2> HIDE DEF n, s
  <2> QED BY <1>1, <1>10, <2>2, <2>3, <2>4, <2>5, InnerStill
<1> QED BY <1>8, <1>9, <1>10 DEF FillNew

\* What a vector may be.
VectorStates == [data_ : Bases \cup {nullptr}, size_ : Nat, capacity_ : Nat] \cup {Gone}

(* The end of a call that leaves the block of its vector where it is, or     *)
(* gives the vector the one the call has allocated.                         *)
LEMMA EndStep ==
  ASSUME Good, NEW t \in Threads, NEW s, At(t, s), s \notin {"track", "untrack"}, End(t),
         UNCHANGED <<heap, allocations_, sCurDevice, m_default_device, outcome>>,
         seen \subseteq seen', seen' \subseteq Unprovided,
         NEW x \in Vectors, x = request[t].x,
         vec' \in [Vectors -> VectorStates],
         \A y \in Vectors \ {x} : vec'[y] = vec[y],
         Sound(x)',
         \/ Keeps(x) /\ new_data[t] = nullptr
         \/ /\ Owned(x) = nullptr /\ Owned(x)' = new_data[t]
            /\ new_data[t] # nullptr => vec'[x].capacity_ = new_capacity(t)
  PROVE  Good'
<1>1. Shapes /\ Held /\ Apart /\ NothingElse /\ \A y \in Vectors : Sound(y)
  BY DEF Good
<1>2. Step(t) = s /\ Running(t) /\ Owner[x] = t
  BY InCall
<1>3. /\ OnlyThread(t) /\ Local(t)' /\ OnDevice(t)'
      /\ request'[t] = NoRequest /\ new_data'[t] = nullptr /\ Untracking(t)' = nullptr
      /\ DOMAIN request' = Threads /\ DOMAIN todo' = Threads
      /\ new_data' \in [Threads -> Bases \cup {nullptr}]
      /\ Step(t)' = "none"
      /\ \A u \in Threads \ {t} : Undisturbed(u)
      /\ \A y \in Vectors : Owner[y] # t => Keeps(y)
  BY <1>2, Ended
<1>4. Untracking(t) = nullptr
  BY <1>2 DEF Untracking
<1>5. \A y \in Vectors \ {x} : Keeps(y)
  <2>1. \A y \in Vectors \ {x} : Owner[y] = t => Keeps(y)
    BY <1>3, OwnEnd
  <2> QED BY <1>3, <2>1
<1>6. Shapes'
  BY <1>1, <1>3 DEF Shapes, VectorStates
<1>7. ASSUME NEW y \in Vectors PROVE Sound(y)'
  <2>1. CASE y = x
    BY <2>1
  <2>2. CASE y # x
    BY <1>1, <2>2 DEF Sound, Exists
  <2> QED BY <2>1, <2>2
<1>8. DOMAIN heap \subseteq Bases /\ DOMAIN allocations_ \subseteq Bases /\ nullptr \notin Bases
  BY <1>1, BlocksAreSomewhere DEF Shapes
<1>9. Held' /\ Apart' /\ NothingElse'
  <2>1. CASE Keeps(x) /\ new_data[t] = nullptr
    <3>1. \A u \in Threads : Undisturbed(u)
      BY <1>3, <1>4, <2>1 DEF Undisturbed
    <3>2. \A y \in Vectors : Keeps(y)
      BY <1>5, <2>1
    <3> QED BY <1>1, <1>8, <3>1, <3>2, NothingMoves
  <2>2. CASE /\ Owned(x) = nullptr /\ Owned(x)' = new_data[t]
             /\ new_data[t] # nullptr => vec'[x].capacity_ = new_capacity(t)
    <3>1. Step(t) # "track"
      BY <1>2
    <3> QED BY <1>1, <1>3, <1>4, <1>5, <1>8, <2>2, <3>1, Adopted
  <2> QED BY <2>1, <2>2
<1>10. HeapKept(t)
  BY DEF HeapKept
<1> QED BY <1>3, <1>6, <1>7, <1>9, <1>10, Composed

(* No memory: nothing has been taken, and what was released is forgotten.    *)
LEMMA MallocFailsKeeps ==
  ASSUME Good, NEW t \in Threads, MallocFails(t)
  PROVE  Good'
<1> DEFINE r == request[t]
           q == todo[t]
<1>1. At(t, "malloc") /\ End(t)
      /\ UNCHANGED <<heap, allocations_, sCurDevice, m_default_device, outcome>>
  BY DEF MallocFails, runtime, memory
<1>2. /\ Step(t) = "malloc" /\ First(q) = "malloc" /\ Rest(r, q) /\ r.op \in Operations
      /\ Running(t) /\ Asks(t, r) /\ r.x \in Vectors /\ Owner[r.x] = t
      /\ new_data[t] # nullptr <=> HoldsNew(r, q)
  BY <1>1, InCall
<1>3. new_data[t] = nullptr
  BY <1>2 DEF HoldsNew, Fills, Backs
<1>4. Shapes /\ \A y \in Vectors : Sound(y)
  BY DEF Good
<1>5. PICK x \in Vectors : x = r.x
  BY <1>2
<1>6. Owner[x] = t
  BY <1>2, <1>5
<1>7. request'[t] = NoRequest
  BY <1>1, <1>4 DEF End, Shapes
<1>8. CASE r.op \in Replacing
  <2>1. /\ vec' = [vec EXCEPT ![x].data_ = nullptr]
        /\ seen' = IF vec[x].capacity_ > 0 THEN seen \cup {"lost"} ELSE seen
    BY <1>5, <1>8 DEF MallocFails
  <2>2. Exists(x)
    BY <1>2, <1>5, <1>8, Kinds DEF Asks
  <2>3. vec[x] \in [data_ : Bases \cup {nullptr}, size_ : Nat, capacity_ : Nat]
    BY <1>4, <2>2 DEF Sound
  <2>4. /\ vec'[x] = [data_ |-> nullptr, size_ |-> vec[x].size_, capacity_ |-> vec[x].capacity_]
        /\ vec' \in [Vectors -> VectorStates] /\ \A y \in Vectors \ {x} : vec'[y] = vec[y]
    BY <1>4, <2>1, <2>3 DEF Shapes, VectorStates
  <2>5. vec'[x] # Gone
    <3>1. vec'[x] \in [data_ : Bases \cup {nullptr}, size_ : Nat, capacity_ : Nat]
      BY <2>3, <2>4
    <3> QED BY <3>1, VectorAssumption
  <2>6. Owned(x) = nullptr
    BY <1>2, <1>5, <1>6, <1>8 DEF Owned, Released
  <2>7. Owned(x)' = nullptr
    BY <1>6, <1>7, <2>4 DEF Owned, Running
  <2>8. Sound(x)'
    <3>1. vec[x].size_ <= vec[x].capacity_ /\ vec[x].capacity_ \in Nat
      BY <1>4, <2>2 DEF Sound
    <3>2. "lost" \notin seen' => vec[x].capacity_ = 0
      BY <2>1, <3>1
    <3> QED BY <2>3, <2>4, <3>1, <3>2 DEF Sound
  <2>9. seen \subseteq seen' /\ seen' \subseteq Unprovided
    BY <1>4, <2>1 DEF Shapes, Unprovided
  <2> QED BY <1>1, <1>3, <1>5, <2>4, <2>6, <2>7, <2>8, <2>9, EndStep
<1>9. CASE r.op \notin Replacing
  <2>1. vec' = vec /\ seen' = seen
    BY <1>9 DEF MallocFails
  <2>2. ~Released(r, q)
    BY <1>2, <1>9 DEF Released, Backs
  <2>3. Keeps(x)
    BY <1>6, <1>7, <2>1, <2>2, OwnEnd
  <2>4. /\ vec' \in [Vectors -> VectorStates] /\ seen' \subseteq Unprovided
        /\ Sound(x)'
    BY <1>4, <2>1 DEF Shapes, VectorStates, Sound, Exists
  <2> QED BY <1>1, <1>3, <1>5, <2>1, <2>3, <2>4, EndStep
<1> QED BY <1>8, <1>9

(* A constructor gives its block away, a destructor has none left.          *)
LEMMA ReturnLifetimeKeeps ==
  ASSUME Good, NEW t \in Threads, ReturnLifetime(t)
  PROVE  Good'
<1> DEFINE r == request[t]
           q == todo[t]
           new == new_data[t]
           n == new_capacity(t)
<1>1. /\ At(t, "return") /\ End(t) /\ r.op \in Creating \cup {"destroy"}
      /\ UNCHANGED <<heap, allocations_, sCurDevice, m_default_device, outcome, seen>>
      /\ vec' = [vec EXCEPT ![r.x] =
                   IF r.op = "destroy" THEN Gone
                   ELSE [data_ |-> new, size_ |-> n, capacity_ |-> n]]
  BY DEF ReturnLifetime, runtime, memory
<1>2. /\ Step(t) = "return" /\ First(q) = "return" /\ r.op \in Operations
      /\ Running(t) /\ Asks(t, r) /\ r.x \in Vectors /\ Owner[r.x] = t
      /\ new_data[t] # nullptr <=> HoldsNew(r, q)
  BY <1>1, InCall
<1>3. Shapes /\ \A y \in Vectors : Sound(y)
  BY DEF Good
<1>4. PICK x \in Vectors : x = r.x
  BY <1>2
<1>5. Owner[x] = t
  BY <1>2, <1>4
<1>6. request'[t] = NoRequest
  BY <1>1, <1>3 DEF End, Shapes
<1>7. /\ vec'[x] = IF r.op = "destroy" THEN Gone
                   ELSE [data_ |-> new, size_ |-> n, capacity_ |-> n]
      /\ \A y \in Vectors \ {x} : vec'[y] = vec[y]
      /\ DOMAIN vec' = Vectors
  BY <1>1, <1>3, <1>4 DEF Shapes
<1>8. CASE r.op = "destroy"
  <2>1. new = nullptr
    BY <1>2, <1>8 DEF HoldsNew, Fills, Backs, Growing, Creating
  <2>2. Owned(x) = nullptr
    BY <1>2, <1>4, <1>5, <1>8 DEF Owned, Released
  <2>3. Owned(x)' = nullptr /\ Sound(x)'
    BY <1>7, <1>8 DEF Owned, Exists, Sound
  <2>4. vec' \in [Vectors -> VectorStates]
    BY <1>1, <1>3, <1>8 DEF Shapes, VectorStates
  <2>5. seen' \subseteq Unprovided
    BY <1>1, <1>3 DEF Shapes
  <2> QED BY <1>1, <1>4, <1>7, <2>1, <2>2, <2>3, <2>4, <2>5, EndStep
<1>9. CASE r.op \in Creating
  <2>1. r.op # "destroy"
    BY <1>2, <1>9, Kinds
  <2>2. n = Asked(r) /\ n \in Nat
    BY <1>2, <1>3, <1>9, <2>1, Allocates, Needs
  <2>3. new # nullptr <=> n > 0
    BY <1>2, <1>9, <2>2, Kinds DEF HoldsNew, Fills, Backs
  <2>4. /\ vec'[x] = [data_ |-> new, size_ |-> n, capacity_ |-> n]
        /\ new \in Bases \cup {nullptr}
    BY <1>3, <1>7, <2>1 DEF Shapes
  <2>5. vec'[x] \in [data_ : Bases \cup {nullptr}, size_ : Nat, capacity_ : Nat]
    BY <2>2, <2>4
  <2>6. vec' \in [Vectors -> VectorStates] /\ vec'[x] # Gone
    <3>1. vec'[x] # Gone
      BY <2>5, VectorAssumption
    <3>2. PICK v : v = vec'[x] /\ v \in VectorStates
      BY <2>5 DEF VectorStates
    <3>3. vec' = [vec EXCEPT ![x] = v]
      BY <1>1, <1>4, <1>7, <3>2
    <3>4. vec \in [Vectors -> VectorStates]
      BY <1>3 DEF Shapes, VectorStates
    <3> QED BY <3>1, <3>2, <3>3, <3>4
  <2>7. Owned(x) = nullptr
    BY <1>2, <1>4, <1>9 DEF Owned, Asks
  <2>8. Owned(x)' = new
    BY <1>5, <1>6, <2>4, <2>6 DEF Owned, Exists, Running
  <2>9. Sound(x)'
    BY <2>2, <2>3, <2>4, <2>5 DEF Sound
  <2>10. seen' \subseteq Unprovided
    BY <1>1, <1>3 DEF Shapes
  <2> QED BY <1>1, <1>4, <1>7, <2>4, <2>6, <2>7, <2>8, <2>9, <2>10, EndStep
<1> QED BY <1>1, <1>8, <1>9

(* A vector takes its new block, and its call then has room.                *)
LEMMA AdoptKeeps ==
  ASSUME Good, NEW t \in Threads, Adopt(t)
  PROVE  Good'
<1> DEFINE r == request[t]
           q == todo[t]
           new == new_data[t]
           n == new_capacity(t)
<1>1. PICK s \in {"adopt", "keep"} : At(t, s)
  BY DEF Adopt
<1>2. /\ Step(t) = s /\ First(q) = s /\ Rest(r, q) /\ r.op \in Operations
      /\ Running(t) /\ Asks(t, r) /\ Room(r, q) /\ r.x \in Vectors /\ r.y \in Vectors
      /\ Owner[r.x] = t /\ Owner[r.y] = t
      /\ new_data[t] # nullptr <=> HoldsNew(r, q)
  BY <1>1, InCall
<1>3. /\ UNCHANGED <<heap, allocations_, sCurDevice, m_default_device, request, outcome, seen>>
      /\ todo' = [todo EXCEPT ![t] = Tail(q)]
      /\ new_data' = [new_data EXCEPT ![t] = nullptr]
      /\ vec' = [vec EXCEPT ![r.x].data_ = new, ![r.x].capacity_ = n]
  BY DEF Adopt, runtime, memory, Continue
<1>4. Shapes /\ Held /\ Apart /\ NothingElse /\ OnDevice(t) /\ \A x \in Vectors : Sound(x)
  BY DEF Good
<1>5. r.op \in Growing \cup Replacing /\ r.op \notin Creating \cup {"destroy"}
  BY <1>2, Kinds DEF Rest
<1>6. /\ n \in Nat /\ n > 0 /\ n >= Need(r) /\ vec[r.x].capacity_ \in Nat
      /\ Need(r) \in Nat /\ Need(r) > vec[r.x].capacity_
  <2>1. First(q) # "return"
    BY <1>2
  <2>2. n \in Nat /\ n > 0 /\ n >= Need(r) /\ vec[r.x].capacity_ \in Nat
    BY <1>2, <1>4, <1>5, <2>1, Enough
  <2>3. Need(r) \in Nat
    BY <1>2, <1>4, <1>5, Needs
  <2> QED BY <1>2, <1>5, <2>1, <2>2, <2>3 DEF Room
<1>7. new # nullptr /\ new \in Bases
  BY <1>2, <1>4 DEF HoldsNew, Shapes
<1>8. PICK x \in Vectors : x = r.x
  BY <1>2
<1>9. Owner[x] = t /\ Exists(x)
  BY <1>2, <1>5, <1>8 DEF Asks
<1>10. vec[x] \in [data_ : Bases \cup {nullptr}, size_ : Nat, capacity_ : Nat]
       /\ vec[x].size_ <= vec[x].capacity_
  BY <1>4, <1>9 DEF Sound
<1>11. /\ vec'[x] = [data_ |-> new, size_ |-> vec[x].size_, capacity_ |-> n]
       /\ \A y \in Vectors \ {x} : vec'[y] = vec[y]
       /\ vec' \in [Vectors -> VectorStates]
  BY <1>3, <1>4, <1>6, <1>7, <1>8, <1>10 DEF Shapes, VectorStates
<1>12. vec'[x] # Gone /\ vec'[x] \in [data_ : Bases \cup {nullptr}, size_ : Nat, capacity_ : Nat]
  <2>1. vec'[x] \in [data_ : Bases \cup {nullptr}, size_ : Nat, capacity_ : Nat]
    BY <1>6, <1>7, <1>10, <1>11
  <2> QED BY <2>1, VectorAssumption
<1>13. Tail(q) = Finish /\ First(Finish) = "return"
  BY <1>2, Moves, Rests
<1>14. /\ todo'[t] = Finish /\ new_data'[t] = nullptr /\ request'[t] = r
       /\ Step(t)' = "return" /\ Untracking(t) = nullptr /\ Untracking(t)' = nullptr
  BY <1>2, <1>3, <1>4, <1>13 DEF Shapes, Step, Untracking
<1>15. OnlyThread(t) /\ HeapKept(t)
  BY <1>3, <1>4, <1>9, <1>11 DEF OnlyThread, HeapKept, Shapes
<1>16. Owned(x) = nullptr
  BY <1>2, <1>8, <1>9 DEF Owned, Released
<1>17. Owned(x)' = new
  <2>1. ~Released(r, Finish)
    BY <1>5, <1>13 DEF Released, Backs
  <2>2. ~Released(request[t], todo[t])'
    BY <1>14, <2>1 DEF Released
  <2>3. Exists(x)' /\ vec'[x].data_ = new
    BY <1>11, <1>12 DEF Exists
  <2> QED BY <1>9, <2>2, <2>3 DEF Owned
<1>18. /\ \A u \in Threads \ {t} : Undisturbed(u)
       /\ \A y \in Vectors \ {x} : Keeps(y)
  <2>1. \A u \in Threads \ {t} : Undisturbed(u)
    BY <1>15, Elsewhere DEF Good
  <2>2. ASSUME NEW y \in Vectors \ {x} PROVE Keeps(y)
    <3>1. CASE Owner[y] = t
      BY <1>3, <1>8, <1>11, <3>1 DEF Keeps, Owned, Running, Exists
    <3>2. CASE Owner[y] # t
      BY <1>15, <3>2, Elsewhere, VectorAssumption DEF Good
    <3> QED BY <3>1, <3>2
  <2> QED BY <2>1, <2>2
<1>19. Held' /\ Apart' /\ NothingElse'
  <2>1. DOMAIN heap \subseteq Bases /\ DOMAIN allocations_ \subseteq Bases /\ nullptr \notin Bases
    BY <1>4, BlocksAreSomewhere DEF Shapes
  <2>2. Step(t) # "track" /\ vec'[x].capacity_ = new_capacity(t)
    BY <1>2, <1>11
  <2> QED BY <1>3, <1>4, <1>14, <1>16, <1>17, <1>18, <2>1, <2>2, Adopted
<1>20. Local(t)'
  <2>1. PICK rr : rr = r
    OBVIOUS
  <2>2. Asks(t, rr)'
    <3>1. \A y \in Vectors : (Exists(y)' <=> Exists(y)) /\ vec'[y].size_ = vec[y].size_
      BY <1>9, <1>11, <1>12 DEF Exists
    <3> QED BY <1>2, <2>1, <3>1 DEF Asks
  <2>3. Rest(rr, Finish)'
    BY <1>13 DEF Rest, Fills, Backs, AllSteps
  <2>4. Need(rr)' = Need(rr)
    <3>1. \A y \in Vectors : vec'[y].size_ = vec[y].size_
      BY <1>11
    <3> QED BY <1>2, <2>1, <3>1 DEF Need, Wanted, Asked
  <2>5. Room(rr, Finish)'
    BY <1>5, <1>6, <1>8, <1>11, <1>13, <2>1, <2>4, Kinds DEF Room
  <2>6. ~HoldsNew(rr, Finish)'
    BY <1>5, <1>13, <2>1 DEF HoldsNew, Fills, Backs
  <2>7. Within(t, rr, Finish, nullptr)'
    BY <2>2, <2>3, <2>5, <2>6 DEF Within
  <2>8. Running(t)'
    BY <1>2, <1>14 DEF Running
  <2> QED BY <1>14, <2>1, <2>7, <2>8 DEF Local
<1>21. OnDevice(t)'
  <2>1. get_thread_local_device(t)' = get_thread_local_device(t)
    BY <1>3 DEF get_thread_local_device
  <2>2. ASSUME seen' = {}, NEW y \in {r.x, r.y}, Owned(y)' # nullptr
        PROVE  heap'[Owned(y)'].device = get_thread_local_device(t)
    <3>1. CASE y = x
      BY <1>2, <1>3, <1>4, <1>7, <1>17, <2>2, <3>1 DEF OnDevice
    <3>2. CASE y # x
      <4>1. Owned(y)' = Owned(y)
        BY <1>2, <1>18, <3>2 DEF Keeps
      <4> QED BY <1>2, <1>3, <1>4, <2>2, <4>1 DEF OnDevice
    <3> QED BY <3>1, <3>2
  <2>3. Step(t)' # "free"
    BY <1>14
  <2> QED BY <1>14, <2>1, <2>2, <2>3 DEF OnDevice
<1>22. \A y \in Vectors : Sound(y)'
  <2>1. Sound(x)'
    <3>1. vec[x].size_ \in Nat /\ vec[x].capacity_ \in Nat /\ vec[x].size_ <= vec[x].capacity_
      BY <1>10
    <3>2. n > vec[x].capacity_
      BY <1>6, <1>8
    <3>3. vec'[x].size_ = vec[x].size_ /\ vec'[x].capacity_ = n /\ vec'[x].data_ = new
      BY <1>11
    <3> HIDE DEF n, new
    <3>4. vec'[x].size_ <= vec'[x].capacity_ /\ vec'[x].capacity_ > 0
      BY <1>6, <3>1, <3>2, <3>3
    <3> QED BY <1>7, <1>12, <3>3, <3>4 DEF Sound
  <2>2. \A y \in Vectors \ {x} : Sound(y)'
    BY <1>3, <1>4, <1>11 DEF Sound, Exists
  <2> QED BY <2>1, <2>2
<1>23. Shapes'
  BY <1>3, <1>4, <1>11 DEF Shapes, VectorStates
<1> QED BY <1>15, <1>19, <1>20, <1>21, <1>22, <1>23, Composed

(* What a call leaves in its vector fits, and where it writes there is room. *)
LEMMA Fits ==
  ASSUME NEW t \in Threads, NEW r, Asks(t, r), \A x \in Vectors : Sound(x),
         r.op \in Growing \cup Replacing, Need(r) <= vec[r.x].capacity_
  PROVE  /\ new_size(r) \in Nat /\ new_size(r) <= vec[r.x].capacity_
         /\ Final(r).count > 0 =>
              /\ vec[r.x].capacity_ > 0
              /\ r.op \in {"push_vector", "assign"} => vec[r.y].size_ > 0
<1> DEFINE size == vec[r.x].size_
           capacity == vec[r.x].capacity_
           other == vec[r.y].size_
<1>1. /\ r.n \in Nat /\ r.x \in Vectors /\ r.y \in Vectors /\ r.op \in Operations
  BY AskedFor
<1>2. r.op \notin Creating
  BY <1>1, Kinds
<1>3. size \in Nat /\ capacity \in Nat /\ size <= capacity
  BY <1>1, <1>2 DEF Asks, Sound
<1>4. r.op \in {"push_vector", "assign"} => other \in Nat
  BY <1>1 DEF Asks, Sound
<1>5. Need(r) = IF r.op \in Growing THEN Wanted(r) ELSE Asked(r)
  BY DEF Need
<1> HIDE DEF size, capacity, other
<1>6. CASE r.op \in {"reserve", "clear"}
  <2>1. new_size(r) \in {size, 0} /\ Final(r).count = 0
    BY <1>6 DEF new_size, Final, size
  <2> QED BY <1>3, <2>1 DEF capacity
<1>7. CASE r.op = "set"
  <2>1. new_size(r) = size
    BY <1>7 DEF new_size, size
  <2>2. size > 0
    BY <1>1, <1>3, <1>7 DEF Asks, size
  <2> QED BY <1>3, <1>7, <2>1, <2>2 DEF capacity
<1>8. CASE r.op = "resize"
  <2>1. new_size(r) = r.n /\ Need(r) = r.n
    BY <1>5, <1>8 DEF new_size, Wanted, Growing
  <2>2. Final(r).count > 0 => r.n > size
    BY <1>8 DEF Final, size
  <2> QED BY <1>1, <1>3, <1>8, <2>1, <2>2 DEF capacity
<1>9. CASE r.op \in {"push_back", "push_host"}
  <2>1. new_size(r) = size + r.n /\ Need(r) = IF r.n = 0 THEN 0 ELSE size + r.n
    BY <1>5, <1>9 DEF new_size, Wanted, Growing, size
  <2>2. Final(r).count = r.n
    BY <1>9 DEF Final
  <2> QED BY <1>1, <1>3, <1>9, <2>1, <2>2 DEF capacity
<1>10. CASE r.op = "push_vector"
  <2>1. new_size(r) = size + other /\ Need(r) = IF other = 0 THEN 0 ELSE size + other
    BY <1>5, <1>10 DEF new_size, Wanted, Growing, size, other
  <2>2. Final(r).count = other
    BY <1>10 DEF Final, other
  <2> QED BY <1>3, <1>4, <1>10, <2>1, <2>2 DEF capacity, other
<1>11. CASE r.op = "copy_from_host"
  <2>1. new_size(r) = (IF r.n = 0 THEN size ELSE r.n) /\ Need(r) = r.n
    BY <1>5, <1>11 DEF new_size, Asked, Growing, size
  <2>2. Final(r).count = r.n
    BY <1>11 DEF Final
  <2> QED BY <1>1, <1>3, <1>11, <2>1, <2>2 DEF capacity
<1>12. CASE r.op = "assign"
  <2>1. new_size(r) = other /\ Need(r) = other
    BY <1>5, <1>12 DEF new_size, Asked, Growing, other
  <2>2. Final(r).count = other
    BY <1>12 DEF Final, other
  <2> QED BY <1>3, <1>4, <1>12, <2>1, <2>2 DEF capacity, other
<1> QED BY <1>6, <1>7, <1>8, <1>9, <1>10, <1>11, <1>12 DEF Growing, Replacing

(* The other calls write what they have to, set the size, and end.          *)
LEMMA ReturnKeeps ==
  ASSUME Good, NEW t \in Threads, Return(t)
  PROVE  Good'
<1> DEFINE r == request[t]
           q == todo[t]
           resized == [vec EXCEPT ![r.x].size_ = new_size(r)]
           reach == /\ Accessible(t, Buffer(r.x))
                    /\ r.op \in {"push_vector", "assign"} => Accessible(t, Buffer(r.y))
<1>1. At(t, "return") /\ r.op \notin Creating \cup {"destroy"}
  BY DEF Return
<1>2. /\ Step(t) = "return" /\ First(q) = "return" /\ r.op \in Operations
      /\ Running(t) /\ Asks(t, r) /\ Room(r, q) /\ r.x \in Vectors /\ r.y \in Vectors
      /\ Owner[r.x] = t /\ Owner[r.y] = t
      /\ new_data[t] # nullptr <=> HoldsNew(r, q)
  BY <1>1, InCall
<1>3. Shapes /\ \A y \in Vectors : Sound(y)
  BY DEF Good
<1>4. r.op \in Growing \cup Replacing
  BY <1>1, <1>2, Kinds
<1>5. new_data[t] = nullptr /\ ~Released(r, q)
  BY <1>1, <1>2, <1>4 DEF HoldsNew, Released, Fills, Backs
<1>6. Need(r) <= vec[r.x].capacity_
  BY <1>2, <1>4 DEF Room
<1>7. /\ new_size(r) \in Nat /\ new_size(r) <= vec[r.x].capacity_
      /\ Final(r).count > 0 =>
           /\ vec[r.x].capacity_ > 0
           /\ r.op \in {"push_vector", "assign"} => vec[r.y].size_ > 0
  BY <1>2, <1>3, <1>4, <1>6, Fits
<1>8. \/ /\ End(t) /\ (vec' = vec \/ vec' = resized)
         /\ UNCHANGED <<heap, allocations_, sCurDevice, m_default_device, outcome, seen>>
      \/ Final(r).count > 0 /\ ~reach /\ Undefined
  BY DEF Return, runtime, memory
<1>9. CASE /\ End(t) /\ (vec' = vec \/ vec' = resized)
           /\ UNCHANGED <<heap, allocations_, sCurDevice, m_default_device, outcome, seen>>
  <2>1. PICK x \in Vectors : x = r.x
    BY <1>2
  <2>2. Owner[x] = t /\ Exists(x)
    BY <1>1, <1>2, <2>1 DEF Asks
  <2>3. vec[x] \in [data_ : Bases \cup {nullptr}, size_ : Nat, capacity_ : Nat]
    BY <1>3, <2>2 DEF Sound
  <2>4. PICK m \in Nat : m = new_size(r)
    BY <1>7
  <2>5. m <= vec[x].capacity_
    BY <1>7, <2>1, <2>4
  <2>6. vec' = vec \/ vec' = [vec EXCEPT ![x].size_ = m]
    BY <1>9, <2>1, <2>4
  <2>7. /\ vec'[x].data_ = vec[x].data_ /\ vec'[x].capacity_ = vec[x].capacity_
        /\ vec'[x].size_ = vec[x].size_ \/ vec'[x].size_ = m
        /\ vec'[x] \in [data_ : Bases \cup {nullptr}, size_ : Nat, capacity_ : Nat]
        /\ \A y \in Vectors \ {x} : vec'[y] = vec[y]
        /\ vec' \in [Vectors -> VectorStates]
    BY <1>3, <2>3, <2>6 DEF Shapes, VectorStates
  <2>8. vec'[x] # Gone
    BY <2>7, VectorAssumption
  <2>9. request'[t] = NoRequest
    BY <1>3, <1>9 DEF End, Shapes
  <2>10. Keeps(x)
    <3>1. Owned(x) = Buffer(x)
      BY <1>5, <2>2, Holding
    <3>2. Owned(x)' = vec'[x].data_
      BY <2>2, <2>8, <2>9 DEF Owned, Exists, Running
    <3> QED BY <2>7, <3>1, <3>2 DEF Keeps, Buffer
  <2>11. Sound(x)'
    <3>1. vec[x].size_ <= vec[x].capacity_ /\ vec[x].capacity_ \in Nat /\ vec[x].size_ \in Nat
      BY <1>3, <2>2 DEF Sound
    <3>2. vec'[x].size_ <= vec'[x].capacity_
      BY <2>5, <2>7, <3>1
    <3> QED BY <1>3, <1>9, <2>2, <2>7, <3>2 DEF Sound
  <2>12. seen' \subseteq Unprovided
    BY <1>3, <1>9 DEF Shapes
  <2> QED BY <1>1, <1>5, <1>9, <2>1, <2>7, <2>10, <2>11, <2>12, EndStep
<1>10. CASE Final(r).count > 0 /\ ~reach /\ Undefined
  <2>1. seen # {}
    <3> SUFFICES ASSUME seen = {} PROVE reach
      BY <1>10
    <3>1. ASSUME NEW y \in Vectors, y \in {r.x, r.y}, Exists(y), vec[y].capacity_ > 0
          PROVE  Accessible(t, Buffer(y))
      <4>1. Buffer(y) # nullptr
        BY <1>3, <3>1 DEF Sound, Buffer
      <4>2. Owned(y) = Buffer(y)
        BY <1>2, <1>5, <3>1, Holding
      <4> QED BY <1>2, <3>1, <4>1, <4>2, Reached
    <3>2. Accessible(t, Buffer(r.x))
      <4>1. Exists(r.x)
        BY <1>1, <1>2 DEF Asks
      <4> QED BY <1>2, <1>7, <1>10, <3>1, <4>1
    <3>3. ASSUME r.op \in {"push_vector", "assign"} PROVE Accessible(t, Buffer(r.y))
      <4>1. Exists(r.y)
        BY <1>2, <3>3 DEF Asks
      <4>2. /\ vec[r.y].size_ \in Nat /\ vec[r.y].capacity_ \in Nat
            /\ vec[r.y].size_ <= vec[r.y].capacity_
        BY <1>2, <1>3, <4>1 DEF Sound
      <4>3. vec[r.y].capacity_ > 0
        BY <1>7, <1>10, <3>3, <4>2
      <4> QED BY <1>2, <3>1, <4>1, <4>3
    <3> QED BY <3>2, <3>3
  <2> QED BY <1>1, <1>10, <2>1, UndefinedKeeps
<1> QED BY <1>8, <1>9, <1>10

-----------------------------------------------------------------------------
(* The steps a call starts with are right for it.                           *)
LEMMA Starts ==
  ASSUME NEW t \in Threads, NEW r, Asks(t, r), \A x \in Vectors : Sound(x)
  PROVE  LET q == Steps(r)
         IN  /\ Rest(r, q) /\ Room(r, q) /\ ~HoldsNew(r, q)
             /\ First(q) \notin {"track", "untrack"}
             /\ First(q) = "free" => q = Cons("free", AfterFree(r))
             /\ Released(r, q) => Buffer(r.x) = nullptr
<1> DEFINE q == Steps(r)
           allocate == Cons("malloc", Cons("track", AfterTrack(r)))
<1>1. r.op \in Operations /\ r.x \in Vectors /\ r.y \in Vectors
  BY AskedFor
<1>2. /\ r.op \in Creating => q = IF Asked(r) = 0 THEN Finish ELSE allocate
      /\ r.op \in Growing => q = IF Wanted(r) <= vec[r.x].capacity_ THEN Finish ELSE allocate
      /\ r.op \in Replacing =>
           q = IF Asked(r) <= vec[r.x].capacity_ THEN Finish ELSE AfterCopy(r)
      /\ r.op = "destroy" => q = AfterCopy(r)
  BY <1>1, Begins
<1>3. /\ Rest(r, Finish) /\ First(Finish) = "return"
      /\ r.op \notin Creating => Rest(r, AfterCopy(r))
      /\ First(AfterFree(r)) = IF r.op \in Growing THEN "adopt"
                               ELSE IF r.op \in Replacing THEN "malloc" ELSE "return"
      /\ First(AfterCopy(r)) = IF Buffer(r.x) # nullptr THEN "free" ELSE First(AfterFree(r))
      /\ r.op # "destroy" => Rest(r, allocate)
  BY <1>1, Rests
<1>4. First(allocate) = "malloc"
  <2>1. AfterTrack(r) \in Seq(AllSteps) /\ "track" \in AllSteps /\ "malloc" \in AllSteps
    BY <1>1, CallSequences DEF AllSteps
  <2> QED BY <2>1, ConsFacts DEF First
<1>5. /\ r.op # "destroy" => Need(r) \in Nat
      /\ r.op \in Growing => Need(r) = Wanted(r)
      /\ r.op \in Creating \cup Replacing => Need(r) = Asked(r)
  <2>1. r.op # "destroy" => Need(r) \in Nat
    BY Needs
  <2> QED BY <1>1, <2>1, Kinds DEF Need
<1>6. r.op \notin Creating => vec[r.x].capacity_ \in Nat
  BY <1>1 DEF Asks, Sound
<1> HIDE DEF q, allocate
<1>7. CASE q = Finish /\ r.op # "destroy"
  <2>1. First(q) = "return"
    BY <1>3, <1>7
  <2>2. /\ r.op \in Creating => Asked(r) = 0
        /\ r.op \in Growing \cup Replacing => Need(r) <= vec[r.x].capacity_
    <3>1. First(AfterCopy(r)) # "return" \/ r.op \notin Replacing
      BY <1>1, <1>3, Kinds
    <3> QED BY <1>1, <1>2, <1>3, <1>4, <1>5, <1>7, <2>1, <3>1, Kinds
  <2>3. Room(r, q)
    BY <2>1, <2>2 DEF Room
  <2>4. ~HoldsNew(r, q) /\ ~Released(r, q)
    BY <1>5, <1>7, <2>1, <2>2 DEF HoldsNew, Released, Fills, Backs
  <2> QED BY <1>3, <1>7, <2>1, <2>3, <2>4 DEF q
<1>8. CASE q = allocate /\ r.op \in Creating \cup Growing
  <2>1. First(q) = "malloc"
    BY <1>4, <1>8
  <2>2. /\ r.op \in Creating => Asked(r) # 0
        /\ r.op \in Growing => Need(r) > vec[r.x].capacity_
    BY <1>1, <1>2, <1>3, <1>5, <1>6, <1>8, <2>1, Kinds
  <2>3. Room(r, q)
    BY <1>1, <1>5, <1>8, <2>1, <2>2, Kinds DEF Room
  <2>4. ~HoldsNew(r, q) /\ ~Released(r, q)
    BY <1>1, <1>8, <2>1, Kinds DEF HoldsNew, Released, Fills, Backs
  <2>5. Rest(r, q)
    BY <1>1, <1>3, <1>8, Kinds
  <2> QED BY <2>1, <2>3, <2>4, <2>5 DEF q
<1>9. CASE q = AfterCopy(r) /\ r.op \in Replacing /\ Asked(r) > vec[r.x].capacity_
  <2>1. First(q) = IF Buffer(r.x) # nullptr THEN "free" ELSE "malloc"
    BY <1>1, <1>3, <1>9, Kinds
  <2>2. Room(r, q)
    BY <1>1, <1>5, <1>9, <2>1, Kinds DEF Room
  <2>3. ~HoldsNew(r, q)
    BY <1>1, <1>9, <2>1, Kinds DEF HoldsNew, Fills, Backs
  <2>4. Released(r, q) => Buffer(r.x) = nullptr
    BY <1>1, <1>9, <2>1, Kinds DEF Released, Backs
  <2>5. First(q) = "free" => q = Cons("free", AfterFree(r))
    BY <1>9, <2>1 DEF AfterCopy
  <2>6. Rest(r, q)
    BY <1>1, <1>3, <1>9, Kinds
  <2> QED BY <2>1, <2>2, <2>3, <2>4, <2>5, <2>6 DEF q
<1>10. CASE q = AfterCopy(r) /\ r.op = "destroy"
  <2>1. First(q) = IF Buffer(r.x) # nullptr THEN "free" ELSE "return"
    BY <1>1, <1>3, <1>10, Kinds
  <2>2. Room(r, q)
    BY <1>1, <1>10, Kinds DEF Room
  <2>3. ~HoldsNew(r, q)
    BY <1>1, <1>10, <2>1, Kinds DEF HoldsNew, Fills, Backs
  <2>4. Released(r, q) => Buffer(r.x) = nullptr
    BY <1>1, <1>10, <2>1, Kinds DEF Released, Backs
  <2>5. First(q) = "free" => q = Cons("free", AfterFree(r))
    BY <1>10, <2>1 DEF AfterCopy
  <2>6. Rest(r, q)
    BY <1>1, <1>3, <1>10, Kinds
  <2> QED BY <2>1, <2>2, <2>3, <2>4, <2>5, <2>6 DEF q
<1>11. \/ q = Finish /\ r.op # "destroy"
       \/ q = allocate /\ r.op \in Creating \cup Growing
       \/ q = AfterCopy(r) /\ r.op \in Replacing /\ Asked(r) > vec[r.x].capacity_
       \/ q = AfterCopy(r) /\ r.op = "destroy"
  BY <1>1, <1>2, <1>5, <1>6, Kinds
<1> QED BY <1>7, <1>8, <1>9, <1>10, <1>11

(* A call starts.                                                           *)
LEMMA CallKeeps ==
  ASSUME Good, NEW t \in Threads, Call(t)
  PROVE  Good'
<1>1. /\ outcome = "running" /\ request[t] = NoRequest
      /\ UNCHANGED <<heap, allocations_, sCurDevice, m_default_device, vec, new_data, outcome>>
  BY DEF Call, runtime, memory
<1>2. PICK r \in Requests[t] :
        /\ Owner[r.x] = t /\ Owner[r.y] = t /\ Legal(r)
        /\ request' = [request EXCEPT ![t] = r]
        /\ todo' = [todo EXCEPT ![t] = Steps(r)]
        /\ seen' = IF \E x \in {r.x, r.y} :
                        /\ Exists(x) /\ Buffer(x) \in DOMAIN heap
                        /\ heap[Buffer(x)].device # get_thread_local_device(t)
                     THEN seen \cup {"other device"} ELSE seen
  BY DEF Call
<1>3. Shapes /\ Held /\ Apart /\ NothingElse /\ Local(t) /\ \A x \in Vectors : Sound(x)
  BY DEF Good
<1>4. Asks(t, r)
  BY <1>2 DEF Legal, Asks
<1>5. /\ r # NoRequest /\ r.op \in Operations /\ r.x \in Vectors /\ r.y \in Vectors
  BY <1>4, AskedFor
<1>6. PICK q : q = Steps(r)
  OBVIOUS
<1>7. /\ Rest(r, q) /\ Room(r, q) /\ ~HoldsNew(r, q)
      /\ First(q) \notin {"track", "untrack"}
      /\ First(q) = "free" => q = Cons("free", AfterFree(r))
      /\ Released(r, q) => Buffer(r.x) = nullptr
  BY <1>3, <1>4, <1>6, Starts
<1>8. /\ ~Running(t) /\ todo[t] = <<>> /\ new_data[t] = nullptr
      /\ Untracking(t) = nullptr
  BY <1>1, <1>3 DEF Local, Running, Untracking
<1>9. /\ request'[t] = r /\ todo'[t] = q /\ new_data'[t] = nullptr
      /\ Running(t)' /\ Step(t)' = First(q) /\ Untracking(t)' = nullptr
  <2>1. request'[t] = r /\ todo'[t] = q /\ new_data'[t] = nullptr
    BY <1>1, <1>2, <1>3, <1>6, <1>8 DEF Shapes
  <2>2. Running(t)' /\ Step(t)' = First(q)
    BY <1>5, <2>1 DEF Running, Step
  <2> QED BY <1>7, <2>1, <2>2 DEF Untracking
<1>10. seen \subseteq seen' /\ seen' \subseteq Unprovided
  BY <1>2, <1>3 DEF Shapes, Unprovided
<1>11. OnlyThread(t) /\ HeapKept(t)
  BY <1>1, <1>2, <1>3, <1>10 DEF OnlyThread, HeapKept, Shapes
<1>12. Shapes'
  BY <1>1, <1>2, <1>3, <1>10 DEF Shapes
<1>13. Local(t)'
  <2>1. Within(t, r, q, nullptr)
    BY <1>4, <1>7 DEF Within
  <2>2. Within(t, r, q, nullptr)'
    <3>1. PICK p : p = nullptr
      OBVIOUS
    <3>2. Within(t, r, q, p)'
      BY <1>1, <1>10, <2>1, <3>1, WithinStays
    <3> QED BY <3>1, <3>2
  <2> QED BY <1>9, <2>2 DEF Local
<1>14. ASSUME NEW x \in Vectors PROVE Keeps(x)
  <2>1. CASE Owner[x] # t
    BY <1>11, <2>1, Elsewhere, VectorAssumption DEF Good
  <2>2. CASE Owner[x] = t
    <3>1. Owned(x) = IF Exists(x) THEN Buffer(x) ELSE nullptr
      BY <1>8, <2>2 DEF Owned, Buffer
    <3>2. (Exists(x)' <=> Exists(x)) /\ vec'[x] = vec[x]
      BY <1>1 DEF Exists
    <3>3. Released(request[t], todo[t])' <=> Released(r, q)
      BY <1>9 DEF Released
    <3>4. Owned(x)' = IF Exists(x) /\ ~(r.x = x /\ Released(r, q)) THEN Buffer(x) ELSE nullptr
      BY <1>9, <2>2, <3>2, <3>3 DEF Owned, Buffer
    <3> QED BY <1>7, <3>1, <3>2, <3>4 DEF Keeps
  <2> QED BY <2>1, <2>2
<1>15. \A u \in Threads : Undisturbed(u)
  <2>1. Undisturbed(t)
    BY <1>8, <1>9 DEF Undisturbed
  <2> QED BY <1>11, <2>1, Elsewhere DEF Good
<1>16. Held' /\ Apart' /\ NothingElse'
  <2>1. DOMAIN heap \subseteq Bases /\ DOMAIN allocations_ \subseteq Bases /\ nullptr \notin Bases
    BY <1>3, BlocksAreSomewhere DEF Shapes
  <2> QED BY <1>1, <1>3, <1>10, <1>14, <1>15, <2>1, NothingMoves
<1>17. OnDevice(t)'
  <2>1. get_thread_local_device(t)' = get_thread_local_device(t)
    BY <1>1 DEF get_thread_local_device
  <2>2. ASSUME seen' = {}, NEW x \in {r.x, r.y}, Owned(x)' # nullptr
        PROVE  heap'[Owned(x)'].device = get_thread_local_device(t)
    <3>1. x \in Vectors /\ Owner[x] = t
      BY <1>2, <1>5
    <3>2. Owned(x)' = Owned(x) /\ Owned(x) # nullptr
      BY <1>14, <2>2, <3>1 DEF Keeps
    <3>3. Exists(x) /\ Owned(x) = Buffer(x)
      BY <1>8, <3>1, <3>2 DEF Owned, Buffer
    <3>4. Buffer(x) \in DOMAIN heap
      BY <1>3, <3>1, <3>2, <3>3 DEF Held, Live
    <3>5. heap[Buffer(x)].device = get_thread_local_device(t)
      BY <1>2, <2>2, <3>3, <3>4
    <3> QED BY <1>1, <3>2, <3>3, <3>5
  <2>3. AfterFree(r)' = AfterFree(r)
    BY DEF AfterFree, Finish, Cons
  <2> QED BY <1>7, <1>9, <2>1, <2>2, <2>3 DEF OnDevice
<1>18. \A x \in Vectors : Sound(x)'
  BY <1>1, <1>3, <1>10 DEF Sound, Exists
<1> QED BY <1>11, <1>12, <1>13, <1>16, <1>17, <1>18, Composed

(* Between its calls a thread may change its device.                        *)
LEMMA SetDeviceKeeps ==
  ASSUME Good, NEW t \in Threads, SetDevice(t)
  PROVE  Good'
<1>1. /\ request[t] = NoRequest
      /\ UNCHANGED <<heap, allocations_, m_default_device, vec, request, todo, new_data,
                     outcome, seen>>
  BY DEF SetDevice, memory
<1>2. PICK d \in Devices : sCurDevice' = [sCurDevice EXCEPT ![t] = d]
  BY DEF SetDevice, set_thread_local_device
<1>3. Shapes /\ Held /\ Apart /\ NothingElse /\ Local(t) /\ \A x \in Vectors : Sound(x)
  BY DEF Good
<1>4. /\ ~Running(t) /\ ~Running(t)' /\ todo[t] = <<>> /\ new_data[t] = nullptr
      /\ Untracking(t) = nullptr /\ Untracking(t)' = nullptr
  BY <1>1, <1>3 DEF Local, Running, Untracking
<1>5. OnlyThread(t) /\ HeapKept(t)
  BY <1>1, <1>2, <1>3 DEF OnlyThread, HeapKept, Shapes
<1>6. Shapes'
  BY <1>1, <1>2, <1>3 DEF Shapes
<1>7. Local(t)' /\ OnDevice(t)'
  BY <1>1, <1>4 DEF Local, OnDevice
<1>8. ASSUME NEW x \in Vectors PROVE Keeps(x)
  <2>1. CASE Owner[x] # t
    BY <1>5, <2>1, Elsewhere, VectorAssumption DEF Good
  <2>2. CASE Owner[x] = t
    BY <1>1, <1>4, <2>2 DEF Keeps, Owned, Exists
  <2> QED BY <2>1, <2>2
<1>9. \A u \in Threads : Undisturbed(u)
  <2>1. Undisturbed(t)
    BY <1>1, <1>4 DEF Undisturbed
  <2> QED BY <1>5, <2>1, Elsewhere DEF Good
<1>10. Held' /\ Apart' /\ NothingElse'
  <2>1. DOMAIN heap \subseteq Bases /\ DOMAIN allocations_ \subseteq Bases /\ nullptr \notin Bases
    BY <1>3, BlocksAreSomewhere DEF Shapes
  <2> QED BY <1>1, <1>3, <1>8, <1>9, <2>1, NothingMoves
<1>11. \A x \in Vectors : Sound(x)'
  BY <1>1, <1>3 DEF Sound, Exists
<1> QED BY <1>5, <1>6, <1>7, <1>10, <1>11, Composed

-----------------------------------------------------------------------------
(* At first there are no vectors, no blocks and no calls.                   *)
LEMMA StartsGood == Init => Good
<1> SUFFICES ASSUME Init PROVE Good
  OBVIOUS
<1>1. /\ heap = <<>> /\ allocations_ = <<>> /\ sCurDevice = [t \in Threads |-> NoDevice]
      /\ m_default_device \in Devices /\ vec = [x \in Vectors |-> Gone]
      /\ request = [t \in Threads |-> NoRequest] /\ todo = [t \in Threads |-> <<>>]
      /\ new_data = [t \in Threads |-> nullptr] /\ outcome = "running" /\ seen = {}
  BY DEF Init, RuntimeInit
<1>2. DOMAIN heap = {} /\ DOMAIN allocations_ = {}
  BY <1>1
<1>3. Shapes
  BY <1>1, <1>2 DEF Shapes
<1>4. \A t \in Threads : ~Running(t) /\ new_data[t] = nullptr /\ Untracking(t) = nullptr
  BY <1>1 DEF Running, Untracking
<1>5. \A x \in Vectors : ~Exists(x) /\ Owned(x) = nullptr
  BY <1>1 DEF Exists, Owned
<1>6. \A t \in Threads : Local(t) /\ OnDevice(t)
  BY <1>1, <1>4 DEF Local, OnDevice
<1>7. \A x \in Vectors : Sound(x)
  BY <1>5 DEF Sound
<1>8. Held /\ Apart /\ NothingElse
  BY <1>2, <1>4, <1>5 DEF Held, Apart, NothingElse
<1> QED BY <1>3, <1>6, <1>7, <1>8 DEF Good

(* No step takes back what has happened.                                    *)
LEMMA SeenGrows == [Next]_vars => seen \subseteq seen'
<1> SUFFICES ASSUME [Next]_vars PROVE seen \subseteq seen'
  OBVIOUS
<1>1. CASE UNCHANGED vars
  BY <1>1 DEF vars
<1>2. ASSUME NEW t \in Threads,
             \/ Call(t) \/ SetDevice(t) \/ Malloc(t) \/ MallocFails(t) \/ Track(t)
             \/ Free(t) \/ FreeMemory(t) \/ Untrack(t) \/ SwitchBack(t)
             \/ FillNew(t) \/ Adopt(t) \/ ReturnLifetime(t) \/ Return(t)
      PROVE  seen \subseteq seen'
  <2>1. CASE Call(t)
    BY <2>1 DEF Call
  <2>2. CASE SetDevice(t) \/ Malloc(t) \/ Untrack(t) \/ SwitchBack(t) \/ Adopt(t)
    BY <2>2 DEF SetDevice, Malloc, Untrack, SwitchBack, Adopt
  <2>3. CASE MallocFails(t) \/ Track(t)
    BY <2>3 DEF MallocFails, Track
  <2>4. CASE Free(t)
    BY <2>4 DEF Free, Throws
  <2>5. CASE FreeMemory(t) \/ FillNew(t)
    BY <2>5 DEF FreeMemory, FillNew, Throws, Undefined
  <2>6. CASE ReturnLifetime(t) \/ Return(t)
    BY <2>6 DEF ReturnLifetime, Return, Undefined
  <2> QED BY <1>2, <2>1, <2>2, <2>3, <2>4, <2>5, <2>6
<1> QED BY <1>1, <1>2 DEF Next, Stopped

(* Nor is anything lost when nothing happens.                               *)
LEMMA NoStepKeeps ==
  ASSUME Good, UNCHANGED <<heap, allocations_, sCurDevice, m_default_device, vec, request,
                           todo, new_data, outcome, seen>>
  PROVE  Good'
<1>1. Shapes /\ Held /\ Apart /\ NothingElse
  BY DEF Good
<1>2. /\ \A t \in Threads : Local(t)' <=> Local(t)
      /\ \A t \in Threads : OnDevice(t)' <=> OnDevice(t)
      /\ \A x \in Vectors : Sound(x)' <=> Sound(x)
  <2>1. ASSUME NEW x \in Vectors PROVE Sound(x)' <=> Sound(x)
    BY DEF Sound, Exists
  <2>2. ASSUME NEW t \in Threads PROVE OnDevice(t)' <=> OnDevice(t)
    <3>1. /\ (Running(t)' <=> Running(t)) /\ Step(t)' = Step(t)
          /\ get_thread_local_device(t)' = get_thread_local_device(t)
          /\ Owned(request[t].x)' = Owned(request[t].x)
          /\ Owned(request[t].y)' = Owned(request[t].y)
          /\ Buffer(request[t].x)' = Buffer(request[t].x)
          /\ AfterFree(request[t])' = AfterFree(request[t])
      BY DEF Running, Step, get_thread_local_device, Owned, Exists, Released, Buffer,
             AfterFree, Finish, Cons
    <3> QED BY <3>1 DEF OnDevice
  <2>3. ASSUME NEW t \in Threads PROVE Local(t)' <=> Local(t)
    <3>1. /\ (Running(t)' <=> Running(t))
          /\ (Asks(t, request[t])' <=> Asks(t, request[t]))
          /\ (Room(request[t], todo[t])' <=> Room(request[t], todo[t]))
          /\ (HoldsNew(request[t], todo[t])' <=> HoldsNew(request[t], todo[t]))
      BY DEF Running, Asks, Exists, Room, Need, Wanted, Asked, HoldsNew
    <3>2. Rest(request[t], todo[t])' <=> Rest(request[t], todo[t])
      <4>1. /\ Buffer(request[t].x)' = Buffer(request[t].x)
            /\ AfterFree(request[t])' = AfterFree(request[t])
            /\ FillOf(request[t])' = FillOf(request[t])
        BY DEF Buffer, AfterFree, Finish, Cons, FillOf
      <4>2. AfterCopy(request[t])' = AfterCopy(request[t])
        BY <4>1 DEF AfterCopy
      <4>3. AfterTrack(request[t])' = AfterTrack(request[t])
        BY <4>1, <4>2 DEF AfterTrack
      <4>4. Endings(request[t])' = Endings(request[t])
        BY <4>1 DEF Endings
      <4> QED BY <4>1, <4>2, <4>3, <4>4 DEF Rest
    <3> QED BY <3>1, <3>2 DEF Local, Within
  <2> QED BY <2>1, <2>2, <2>3
<1>3. \A t \in Threads : Undisturbed(t)
  BY DEF Undisturbed, Untracking, Running, Step, new_capacity, Wanted, get_thread_local_device
<1>4. \A x \in Vectors : Keeps(x)
  BY DEF Keeps, Owned, Exists, Running, Released
<1>5. Held' /\ Apart' /\ NothingElse'
  <2>1. DOMAIN heap \subseteq Bases /\ DOMAIN allocations_ \subseteq Bases /\ nullptr \notin Bases
    BY <1>1, BlocksAreSomewhere DEF Shapes
  <2> QED BY <1>1, <1>3, <1>4, <2>1, NothingMoves
<1>6. Shapes'
  BY <1>1 DEF Shapes
<1> QED BY <1>2, <1>5, <1>6 DEF Good

(* The invariant is inductive.                                              *)
LEMMA StepGood == IndInv /\ [Next]_vars => IndInv'
<1> SUFFICES ASSUME IndInv, [Next]_vars, "entry kept" \notin seen' PROVE Good'
  BY DEF IndInv
<1>1. Good
  BY SeenGrows DEF IndInv
<1>2. CASE UNCHANGED vars
  <2>1. UNCHANGED <<heap, allocations_, sCurDevice, m_default_device, vec, request, todo,
                    new_data, outcome, seen>>
    BY <1>2 DEF vars, runtime, memory
  <2> QED BY <1>1, <2>1, NoStepKeeps
<1>3. ASSUME NEW t \in Threads,
             \/ Call(t) \/ SetDevice(t) \/ Malloc(t) \/ MallocFails(t) \/ Track(t)
             \/ Free(t) \/ FreeMemory(t) \/ Untrack(t) \/ SwitchBack(t)
             \/ FillNew(t) \/ Adopt(t) \/ ReturnLifetime(t) \/ Return(t)
      PROVE  Good'
  <2>1. CASE Call(t)
    BY <1>1, <2>1, CallKeeps
  <2>2. CASE SetDevice(t)
    BY <1>1, <2>2, SetDeviceKeeps
  <2>3. CASE Malloc(t)
    BY <1>1, <2>3, MallocKeeps
  <2>4. CASE MallocFails(t)
    BY <1>1, <2>4, MallocFailsKeeps
  <2>5. CASE Track(t)
    BY <1>1, <2>5, TrackKeeps
  <2>6. CASE Free(t)
    BY <1>1, <2>6, FreeKeeps
  <2>7. CASE FreeMemory(t)
    BY <1>1, <2>7, FreeMemoryKeeps
  <2>8. CASE Untrack(t)
    BY <1>1, <2>8, UntrackKeeps
  <2>9. CASE SwitchBack(t)
    BY <1>1, <2>9, SwitchBackKeeps
  <2>10. CASE FillNew(t)
    BY <1>1, <2>10, FillNewKeeps
  <2>11. CASE Adopt(t)
    BY <1>1, <2>11, AdoptKeeps
  <2>12. CASE ReturnLifetime(t)
    BY <1>1, <2>12, ReturnLifetimeKeeps
  <2>13. CASE Return(t)
    BY <1>1, <2>13, ReturnKeeps
  <2> QED BY <1>3, <2>1, <2>2, <2>3, <2>4, <2>5, <2>6, <2>7, <2>8, <2>9, <2>10, <2>11, <2>12, <2>13
<1> QED BY <1>2, <1>3 DEF Next, Stopped

(* So it holds in every state.                                              *)
THEOREM Inductive == Spec => []IndInv
<1>1. Init => IndInv
  BY StartsGood DEF IndInv
<1> QED BY <1>1, StepGood, PTL DEF Spec

(* A vector has a block when it has a capacity, unless one was lost.         *)
LEMMA SoundBlock ==
  ASSUME NEW x \in Vectors, Sound(x), Exists(x), "lost" \notin seen
  PROVE  /\ vec[x].size_ <= vec[x].capacity_
         /\ vec[x].data_ = nullptr => vec[x].capacity_ = 0
         /\ vec[x].capacity_ = 0 => vec[x].data_ = nullptr
<1>1. /\ vec[x].size_ <= vec[x].capacity_ /\ vec[x].capacity_ \in Nat
      /\ vec[x].data_ # nullptr => vec[x].capacity_ > 0
      /\ vec[x].data_ = nullptr => vec[x].capacity_ = 0
  BY DEF Sound
<1> QED BY <1>1

(* Between the calls on it every vector has its block to itself, live, as    *)
(* large as its capacity and tracked under its device, however many threads  *)
(* use the runtime and whatever fails: for the calls of device_vector.h on   *)
(* the memory tracker of icicle_malloc and icicle_free.                      *)
THEOREM OwnsItsBlock == Spec => []BuffersOwned
<1>1. IndInv => BuffersOwned
  <2> SUFFICES ASSUME IndInv, seen \cap {"entry kept", "lost"} = {},
                      NEW x \in Vectors, Exists(x), Idle(x)
               PROVE  LET v == vec[x]
                          b == v.data_
                      IN  /\ v.size_ <= v.capacity_
                          /\ (b = nullptr) = (v.capacity_ = 0)
                          /\ b # nullptr =>
                               /\ Live(b) /\ b \in DOMAIN allocations_
                               /\ heap[b].size = v.capacity_
                               /\ allocations_[b] =
                                    [size_ |-> v.capacity_, device |-> heap[b].device]
                               /\ \A y \in Vectors \ {x} :
                                    Exists(y) /\ Idle(y) => vec[y].data_ # b
    BY DEF BuffersOwned
  <2>1. Held /\ Apart /\ Sound(x)
    BY DEF IndInv, Good
  <2>2. \A y \in Vectors : Exists(y) /\ Idle(y) => Owned(y) = vec[y].data_
    BY DEF Idle, Owned, Running
  <2>3. /\ vec[x].size_ <= vec[x].capacity_
        /\ (vec[x].data_ = nullptr) = (vec[x].capacity_ = 0)
    <3>1. "lost" \notin seen
      OBVIOUS
    <3> QED BY <2>1, <3>1, SoundBlock, Zenon
  <2>4. vec[x].data_ # nullptr =>
          /\ Live(vec[x].data_) /\ Tracked(vec[x].data_)
          /\ heap[vec[x].data_].size = vec[x].capacity_
    BY <2>1, <2>2 DEF Held
  <2>5. vec[x].data_ # nullptr =>
          \A y \in Vectors \ {x} : Exists(y) /\ Idle(y) => vec[y].data_ # vec[x].data_
    BY <2>1, <2>2 DEF Apart
  <2> QED BY <2>3, <2>4, <2>5 DEF Tracked
<1> QED BY <1>1, Inductive, PTL

(* No destructor throws, and no memory is touched that is not there, before  *)
(* something the code does not provide for has happened: an address handed   *)
(* out again before it is untracked, for the destructor that throws.         *)
THEOREM EndsAsItShould == Spec => []EndsWell
<1>1. IndInv => EndsWell
  <2>1. "entry kept" \in seen => seen # {} /\ EndsWell
    BY DEF EndsWell
  <2>2. IndInv /\ "entry kept" \notin seen => EndsWell
    BY DEF IndInv, Good, Shapes, EndsWell
  <2> QED BY <2>1, <2>2
<1> QED BY <1>1, Inductive, PTL

(* When no call is running, the blocks handed out are those of the vectors,  *)
(* and so are the tracker's: no path of a call, a failed allocation          *)
(* included, drops a block while vectors are used on the device they are on. *)
THEOREM NothingLeaks == Spec => []NoLeak
<1>1. IndInv => NoLeak
  <2> SUFFICES ASSUME IndInv, seen = {}, \A t \in Threads : request[t] = NoRequest
               PROVE  /\ DOMAIN heap
                           = {Buffer(x) : x \in {y \in Vectors : Exists(y)}} \ {nullptr}
                      /\ DOMAIN allocations_ = DOMAIN heap
    BY DEF NoLeak
  <2>1. Held /\ NothingElse /\ Shapes /\ \A t \in Threads : Local(t)
    BY DEF IndInv, Good
  <2>2. \A t \in Threads : ~Running(t) /\ new_data[t] = nullptr /\ Untracking(t) = nullptr
    BY <2>1 DEF Running, Local, Untracking
  <2>3. \A x \in Vectors : Owned(x) = IF Exists(x) THEN Buffer(x) ELSE nullptr
    BY <2>2, VectorAssumption DEF Owned, Buffer
  <2>4. nullptr \notin DOMAIN heap /\ nullptr \notin DOMAIN allocations_
    BY <2>1, BlocksAreSomewhere DEF Shapes
  <2>5. /\ \A b \in DOMAIN heap : \E x \in Vectors : Owned(x) = b
        /\ \A b \in DOMAIN allocations_ : \E x \in Vectors : Owned(x) = b
    BY <2>1, <2>2, <2>4 DEF NothingElse
  <2>6. \A x \in Vectors : Owned(x) # nullptr =>
          Owned(x) \in DOMAIN heap /\ Owned(x) \in DOMAIN allocations_
    BY <2>1 DEF Held, Live, Tracked
  <2> QED BY <2>3, <2>4, <2>5, <2>6
<1> QED BY <1>1, Inductive, PTL

-----------------------------------------------------------------------------
(* What blocks and vectors hold.                                            *)

\* Elements es written into the sequence m behind its first k.
Overwritten(m, k, es) == [i \in DOMAIN m |-> IF i - k \in DOMAIN es THEN es[i - k] ELSE m[i]]
Prefixed(n, m) == SubSeq(m, 1, n)

(* A function on the first natural numbers is a sequence of that length.    *)
LEMMA Listed ==
  ASSUME NEW n \in Nat, NEW f \in [1 .. n -> Int]
  PROVE  f \in Seq(Int) /\ Len(f) = n
BY LenProperties, SeqDef

(* The first elements of a sequence.                                        *)
LEMMA Prefix ==
  ASSUME NEW m \in Seq(Int), NEW n \in 0 .. Len(m)
  PROVE  /\ Prefixed(n, m) \in Seq(Int) /\ Len(Prefixed(n, m)) = n
         /\ \A i \in 1 .. n : Prefixed(n, m)[i] = m[i]
<1>1. Len(m) \in Nat /\ \A i \in 1 .. n : m[i] \in Int
  BY LenProperties, ElementOfSeq
<1>2. n \in Int /\ n - 1 + 1 = n /\ 1 \in Int
  BY <1>1
<1>3. /\ SubSeq(m, 1, n) \in Seq(Int) /\ Len(SubSeq(m, 1, n)) = IF 1 <= n THEN n - 1 + 1 ELSE 0
      /\ \A i \in 1 .. n - 1 + 1 : SubSeq(m, 1, n)[i] = m[1 + i - 1]
  BY <1>1, <1>2, SubSeqProperties
<1>4. \A i \in 1 .. n : 1 + i - 1 = i
  BY <1>2
<1> QED BY <1>1, <1>2, <1>3, <1>4 DEF Prefixed

(* Copies of one element.                                                   *)
LEMMA Filled ==
  ASSUME NEW n \in Nat, NEW e \in Int
  PROVE  Fill(n, e) \in Seq(Int) /\ Len(Fill(n, e)) = n /\ \A i \in 1 .. n : Fill(n, e)[i] = e
<1>1. Fill(n, e) \in [1 .. n -> Int] /\ \A i \in 1 .. n : Fill(n, e)[i] = e
  BY DEF Fill
<1> QED BY <1>1, Listed

(* Zeros.                                                                   *)
LEMMA Zeros == ASSUME NEW n \in Nat PROVE Fill(n, 0) \in Seq(Int) /\ Len(Fill(n, 0)) = n
<1>1. 0 \in Int
  OBVIOUS
<1> QED BY <1>1, Filled

(* Ones.                                                                    *)
LEMMA Ones == ASSUME NEW n \in Nat PROVE Fill(n, 1) \in Seq(Int) /\ Len(Fill(n, 1)) = n
<1>1. 1 \in Int
  OBVIOUS
<1> QED BY <1>1, Filled

(* A single one.                                                            *)
LEMMA SingleOne == Fill(1, 1) \in Seq(Int) /\ Len(Fill(1, 1)) = 1 /\ Fill(1, 1)[1] = 1
<1>1. Fill(1, 1) \in Seq(Int) /\ Len(Fill(1, 1)) = 1
  BY Ones
<1>2. Fill(1, 1)[1] = 1
  BY DEF Fill
<1> QED BY <1>1, <1>2

(* What overwriting changes.                                                *)
LEMMA Overwriting ==
  ASSUME NEW m \in Seq(Int), NEW es \in Seq(Int), NEW k \in Nat
  PROVE  /\ Overwritten(m, k, es) \in Seq(Int) /\ Len(Overwritten(m, k, es)) = Len(m)
         /\ \A i \in 1 .. Len(m) :
              Overwritten(m, k, es)[i] = IF i > k /\ i <= k + Len(es) THEN es[i - k] ELSE m[i]
<1>1. /\ Len(m) \in Nat /\ DOMAIN m = 1 .. Len(m) /\ \A i \in 1 .. Len(m) : m[i] \in Int
      /\ Len(es) \in Nat /\ DOMAIN es = 1 .. Len(es) /\ \A i \in 1 .. Len(es) : es[i] \in Int
  BY LenProperties, ElementOfSeq
<1>2. \A i \in 1 .. Len(m) : i - k \in DOMAIN es <=> i > k /\ i <= k + Len(es)
  BY <1>1
<1>3. \A i \in 1 .. Len(m) :
        Overwritten(m, k, es)[i] = IF i > k /\ i <= k + Len(es) THEN es[i - k] ELSE m[i]
  BY <1>1, <1>2 DEF Overwritten
<1>4. Overwritten(m, k, es) \in [1 .. Len(m) -> Int]
  BY <1>1 DEF Overwritten
<1> QED BY <1>1, <1>3, <1>4, Listed

(* Elements written behind the first k are appended to them.                *)
LEMMA Appending ==
  ASSUME NEW m \in Seq(Int), NEW es \in Seq(Int), NEW k \in Nat, k + Len(es) <= Len(m)
  PROVE  Prefixed(k + Len(es), Overwritten(m, k, es)) = Prefixed(k, m) \o es
<1> DEFINE w == Overwritten(m, k, es)
           n == k + Len(es)
<1>1. Len(m) \in Nat /\ Len(es) \in Nat /\ n \in 0 .. Len(m) /\ k \in 0 .. Len(m)
  BY LenProperties
<1>2. /\ w \in Seq(Int) /\ Len(w) = Len(m)
      /\ \A i \in 1 .. Len(m) : w[i] = IF i > k /\ i <= n THEN es[i - k] ELSE m[i]
  BY Overwriting
<1> HIDE DEF w
<1>3. /\ Prefixed(n, w) \in Seq(Int) /\ Len(Prefixed(n, w)) = n
      /\ \A i \in 1 .. n : Prefixed(n, w)[i] = w[i]
  BY <1>1, <1>2, Prefix
<1>4. /\ Prefixed(k, m) \in Seq(Int) /\ Len(Prefixed(k, m)) = k
      /\ \A i \in 1 .. k : Prefixed(k, m)[i] = m[i]
  BY <1>1, Prefix
<1>5. /\ Prefixed(k, m) \o es \in Seq(Int) /\ Len(Prefixed(k, m) \o es) = n
      /\ \A i \in 1 .. n : (Prefixed(k, m) \o es)[i] =
           IF i <= k THEN Prefixed(k, m)[i] ELSE es[i - k]
  <2>1. PICK p \in Seq(Int) : p = Prefixed(k, m)
    BY <1>4
  <2>2. /\ p \o es \in Seq(Int) /\ Len(p \o es) = Len(p) + Len(es)
        /\ \A i \in 1 .. Len(p) + Len(es) :
             (p \o es)[i] = IF i <= Len(p) THEN p[i] ELSE es[i - Len(p)]
    BY ConcatProperties
  <2>3. Len(p) = k
    BY <1>4, <2>1
  <2> QED BY <2>1, <2>2, <2>3
<1>6. \A i \in 1 .. n : Prefixed(n, w)[i] = (Prefixed(k, m) \o es)[i]
  <2> SUFFICES ASSUME NEW i \in 1 .. n PROVE Prefixed(n, w)[i] = (Prefixed(k, m) \o es)[i]
    OBVIOUS
  <2>1. i \in 1 .. Len(m) /\ i <= n /\ (i > k <=> ~ i <= k) /\ (i <= k => i \in 1 .. k)
    BY <1>1
  <2>2. Prefixed(n, w)[i] = IF i > k THEN es[i - k] ELSE m[i]
    BY <2>1, <1>2, <1>3
  <2> QED BY <2>1, <2>2, <1>4, <1>5
<1> QED BY <1>3, <1>5, <1>6, SeqEqual DEF w

(* Elements written over the beginning replace it.                          *)
LEMMA Replacement ==
  ASSUME NEW m \in Seq(Int), NEW es \in Seq(Int), Len(es) <= Len(m)
  PROVE  Prefixed(Len(es), Overwritten(m, 0, es)) = es
<1>1. Len(es) \in Nat /\ 0 + Len(es) = Len(es) /\ Len(m) \in Nat
  BY LenProperties
<1>2. Prefixed(Len(es), Overwritten(m, 0, es)) = Prefixed(0, m) \o es
  BY <1>1, Appending
<1>3. Prefixed(0, m) = <<>>
  BY SubSeqEmpty DEF Prefixed
<1> QED BY <1>2, <1>3, ConcatEmptySeq

(* One element changed.                                                     *)
LEMMA Setting ==
  ASSUME NEW m \in Seq(Int), NEW size \in 0 .. Len(m), NEW n \in 1 .. size
  PROVE  Prefixed(size, Overwritten(m, n - 1, Fill(1, 1))) = [Prefixed(size, m) EXCEPT ![n] = 1]
<1> DEFINE w == Overwritten(m, n - 1, Fill(1, 1))
           s == Prefixed(size, m)
<1>1. Len(m) \in Nat /\ n - 1 \in Nat /\ n \in Nat /\ size \in Nat
  BY LenProperties
<1>2. Fill(1, 1) \in Seq(Int) /\ Len(Fill(1, 1)) = 1 /\ Fill(1, 1)[1] = 1
  BY SingleOne
<1>3. /\ w \in Seq(Int) /\ Len(w) = Len(m)
      /\ \A i \in 1 .. Len(m) :
           w[i] = IF i > n - 1 /\ i <= n - 1 + 1 THEN Fill(1, 1)[i - (n - 1)] ELSE m[i]
  <2>1. PICK k, es : k = n - 1 /\ es = Fill(1, 1)
    OBVIOUS
  <2>2. k \in Nat /\ es \in Seq(Int) /\ Len(es) = 1
    BY <1>1, <1>2, <2>1
  <2>3. /\ Overwritten(m, k, es) \in Seq(Int) /\ Len(Overwritten(m, k, es)) = Len(m)
        /\ \A i \in 1 .. Len(m) : Overwritten(m, k, es)[i] =
             IF i > k /\ i <= k + Len(es) THEN es[i - k] ELSE m[i]
    BY <2>2, Overwriting
  <2>4. /\ Overwritten(m, k, es) \in Seq(Int) /\ Len(Overwritten(m, k, es)) = Len(m)
        /\ \A i \in 1 .. Len(m) : Overwritten(m, k, es)[i] =
             IF i > k /\ i <= k + 1 THEN es[i - k] ELSE m[i]
    BY <2>2, <2>3
  <2> QED BY <2>1, <2>4
<1>4. /\ s \in Seq(Int) /\ Len(s) = size /\ \A i \in 1 .. size : s[i] = m[i]
  BY Prefix
<1> HIDE DEF w, s
<1>5. /\ Prefixed(size, w) \in Seq(Int) /\ Len(Prefixed(size, w)) = size
      /\ \A i \in 1 .. size : Prefixed(size, w)[i] = w[i]
  BY <1>1, <1>3, Prefix
<1>6. /\ [s EXCEPT ![n] = 1] \in Seq(Int) /\ Len([s EXCEPT ![n] = 1]) = size
      /\ \A j \in 1 .. size : [s EXCEPT ![n] = 1][j] = IF j = n THEN 1 ELSE s[j]
  BY <1>4, ExceptSeq
<1>7. \A i \in 1 .. size : Prefixed(size, w)[i] = [s EXCEPT ![n] = 1][i]
  <2> SUFFICES ASSUME NEW i \in 1 .. size
               PROVE  Prefixed(size, w)[i] = [s EXCEPT ![n] = 1][i]
    OBVIOUS
  <2>1. i \in 1 .. Len(m) /\ (i > n - 1 /\ i <= n - 1 + 1 <=> i = n) /\ n - (n - 1) = 1
    BY <1>1
  <2>2. w[i] = IF i = n THEN 1 ELSE m[i]
    BY <2>1, <1>2, <1>3
  <2> QED BY <2>2, <1>4, <1>5, <1>6
<1> QED BY <1>5, <1>6, <1>7, SeqEqual DEF w, s

(* Fewer of the first elements.                                             *)
LEMMA Shortening ==
  ASSUME NEW m \in Seq(Int), NEW size \in 0 .. Len(m), NEW n \in 0 .. size
  PROVE  Prefixed(n, Prefixed(size, m)) = Prefixed(n, m)
<1>1. Len(m) \in Nat /\ size \in Nat /\ n \in 0 .. Len(m)
  BY LenProperties
<1>2. /\ Prefixed(size, m) \in Seq(Int) /\ Len(Prefixed(size, m)) = size
      /\ \A i \in 1 .. size : Prefixed(size, m)[i] = m[i]
  BY Prefix
<1>3. /\ Prefixed(n, m) \in Seq(Int) /\ Len(Prefixed(n, m)) = n
      /\ \A i \in 1 .. n : Prefixed(n, m)[i] = m[i]
  BY <1>1, Prefix
<1>4. /\ Prefixed(n, Prefixed(size, m)) \in Seq(Int) /\ Len(Prefixed(n, Prefixed(size, m))) = n
      /\ \A i \in 1 .. n : Prefixed(n, Prefixed(size, m))[i] = Prefixed(size, m)[i]
  BY <1>2, Prefix
<1>5. ASSUME NEW i \in 1 .. n PROVE Prefixed(n, Prefixed(size, m))[i] = Prefixed(n, m)[i]
  <2>1. i \in 1 .. size
    BY <1>1
  <2> QED BY <2>1, <1>2, <1>3, <1>4
<1> QED BY <1>3, <1>4, <1>5, SeqEqual

-----------------------------------------------------------------------------
(* What is remembered of the values vectors had when the calls on them began. *)

\* The memory of every block is as large as the block.
Stored ==
  /\ DOMAIN mem = DOMAIN heap /\ DOMAIN was = Vectors
  /\ \A b \in DOMAIN heap : mem[b] \in Seq(Int) /\ Len(mem[b]) = heap[b].size

\* The elements of a growing vector are in its new block.
Moved(q) == First(q) \in {"free", "free memory", "untrack", "adopt"} \cup Backs

\* What a constructor puts into its block.
Made(r) == CASE r.op = "construct" -> Fill(r.n, 0)
             [] r.op = "from_host" -> Fill(r.n, 1)
             [] OTHER              -> Value(r.y)

\* How the value w a vector had when call r on it began is still to be found.
Remembers(r, q, new, w) ==
  LET v == vec[r.x]
      returns == First(q) = "return"
  IN  /\ r.op \in Creating => w = Gone
      /\ r.op \in Creating /\ returns /\ new # nullptr =>
           mem[new] = Made(r) \/ (r.op = "copy" /\ Made(r) = Lost)
      /\ r.op \in Growing /\ w # Lost =>
           w = IF Moved(q) THEN Prefixed(v.size_, mem[new]) ELSE Value(r.x)
      /\ r.op \in Replacing /\ w # Lost =>
           /\ returns /\ Asked(r) = 0 => w = Value(r.x)
           /\ ~returns /\ v.capacity_ = 0 => w = <<>>
      /\ r.op \in Growing \cup Replacing /\ v.data_ = nullptr /\ v.capacity_ > 0 => w = Lost

Past(t) == Running(t) => Remembers(request[t], todo[t], new_data[t], was[request[t].x])

Remembered == Stored /\ \A t \in Threads : Past(t)
FullInv == IndInv /\ ("entry kept" \notin seen => Remembered)

\* A step of one thread changes no value but that of its call's vector.
Framed(t) ==
  /\ OnlyThread(t)
  /\ \A z \in Vectors : ~(Running(t) /\ z = request[t].x) => vec'[z] = vec[z]
  /\ \A z \in Vectors : Owner[z] # t => was'[z] = was[z]
  /\ \A p \in DOMAIN heap : p # new_data[t] /\ ~(Running(t) /\ p = Owned(request[t].x)) =>
       p \in DOMAIN heap' /\ mem'[p] = mem[p]

(* The value of a vector that holds its block.                              *)
LEMMA Worth ==
  ASSUME Good, Stored, NEW x \in Vectors, Exists(x), Owned(x) = Buffer(x)
  PROVE  LET v == vec[x]
         IN  /\ v.size_ \in Nat /\ v.capacity_ \in Nat /\ v.size_ <= v.capacity_
             /\ v.data_ = nullptr /\ v.capacity_ > 0 => Value(x) = Lost
             /\ v.data_ = nullptr /\ v.capacity_ = 0 => v.size_ = 0 /\ Value(x) = <<>>
             /\ v.data_ # nullptr =>
                  /\ v.data_ \in DOMAIN heap /\ heap[v.data_].size = v.capacity_
                  /\ mem[v.data_] \in Seq(Int) /\ Len(mem[v.data_]) = v.capacity_
                  /\ Value(x) = Prefixed(v.size_, mem[v.data_])
             /\ ~(v.data_ = nullptr /\ v.capacity_ > 0) =>
                  /\ Contents(x) = Value(x)
                  /\ Value(x) \in Seq(Int) /\ Len(Value(x)) = v.size_
<1> DEFINE v == vec[x]
<1>1. /\ v.size_ \in Nat /\ v.capacity_ \in Nat /\ v.size_ <= v.capacity_
      /\ v.data_ # nullptr => v.capacity_ > 0
  BY DEF Good, Sound
<1>2. v.data_ # nullptr =>
        /\ v.data_ \in DOMAIN heap /\ heap[v.data_].size = v.capacity_
        /\ mem[v.data_] \in Seq(Int) /\ Len(mem[v.data_]) = v.capacity_
  BY DEF Good, Held, Live, Stored, Buffer
<1>3. Prefixed(0, mem[v.data_]) = <<>> /\ <<>> \in Seq(Int) /\ Len(<<>>) = 0
  BY SubSeqEmpty DEF Prefixed
<1>4. v.data_ = nullptr /\ v.capacity_ > 0 => Value(x) = Lost
  BY DEF Value, Buffer
<1>5. v.data_ = nullptr /\ v.capacity_ = 0 => v.size_ = 0 /\ Value(x) = <<>>
  BY <1>1 DEF Value
<1>6. v.data_ # nullptr => Value(x) = Prefixed(v.size_, mem[v.data_])
  BY <1>1, <1>2, <1>3 DEF Value, Buffer, Live, Prefixed
<1>7. ASSUME ~(v.data_ = nullptr /\ v.capacity_ > 0)
      PROVE  /\ Contents(x) = Value(x)
             /\ Value(x) \in Seq(Int) /\ Len(Value(x)) = v.size_
  <2>1. CASE v.data_ = nullptr
    <3>1. v.size_ = 0 /\ Value(x) = <<>>
      BY <1>1, <1>5, <1>7, <2>1
    <3>2. Contents(x) = <<>>
      BY <3>1 DEF Contents
    <3> QED BY <1>3, <3>1, <3>2
  <2>2. CASE v.data_ # nullptr
    <3>1. /\ Prefixed(v.size_, mem[v.data_]) \in Seq(Int)
          /\ Len(Prefixed(v.size_, mem[v.data_])) = v.size_
      BY <1>1, <1>2, <2>2, Prefix
    <3>2. Contents(x) = Prefixed(v.size_, mem[v.data_])
      BY <1>1, <1>3 DEF Contents, Prefixed, Buffer
    <3> QED BY <1>6, <2>2, <3>1, <3>2
  <2> QED BY <2>1, <2>2
<1> QED BY <1>1, <1>2, <1>4, <1>5, <1>6, <1>7

(* It stays what it is while the vector and its block do.                   *)
LEMMA WorthStays ==
  ASSUME Good, NEW z \in Vectors, vec'[z] = vec[z],
         Exists(z) /\ Buffer(z) # nullptr =>
           Buffer(z) \in DOMAIN heap /\ Buffer(z) \in DOMAIN heap'
             /\ mem'[Buffer(z)] = mem[Buffer(z)]
  PROVE  Value(z)' = Value(z)
<1>1. CASE ~Exists(z)
  BY <1>1 DEF Value, Exists
<1>2. CASE Exists(z)
  <2>1. vec[z].size_ \in Nat /\ vec[z].capacity_ \in Nat /\ vec[z].size_ <= vec[z].capacity_
    BY <1>2 DEF Good, Sound
  <2>2. Buffer(z)' = Buffer(z) /\ Exists(z)'
    BY <1>2 DEF Buffer, Exists
  <2>3. CASE Buffer(z) = nullptr
    BY <1>2, <2>1, <2>2, <2>3 DEF Value
  <2>4. CASE Buffer(z) # nullptr
    BY <1>2, <2>2, <2>4 DEF Value, Live
  <2> QED BY <2>3, <2>4
<1> QED BY <1>1, <1>2

(* So it does for all vectors but the call's.                               *)
LEMMA ValueStays ==
  ASSUME Good, NEW t \in Threads, Framed(t), NEW z \in Vectors,
         ~(Running(t) /\ z = request[t].x), Exists(z) => Owned(z) = Buffer(z)
  PROVE  Value(z)' = Value(z)
<1>1. vec'[z] = vec[z]
  BY DEF Framed
<1>2. ASSUME Exists(z), Buffer(z) # nullptr
      PROVE  Buffer(z) \in DOMAIN heap /\ Buffer(z) \in DOMAIN heap'
               /\ mem'[Buffer(z)] = mem[Buffer(z)]
  <2>1. Owned(z) = Buffer(z) /\ Owned(z) # nullptr
    BY <1>2
  <2>2. Owned(z) \in DOMAIN heap /\ Owned(z) # new_data[t]
    BY <2>1 DEF Good, Held, Apart, Live
  <2>3. ~(Running(t) /\ Owned(z) = Owned(request[t].x))
    <3> SUFFICES ASSUME Running(t) PROVE Owned(z) # Owned(request[t].x)
      OBVIOUS
    <3>1. request[t].x \in Vectors
      <4>1. Asks(t, request[t])
        BY DEF Good, Local, Within
      <4> QED BY <4>1, AskedFor
    <3> QED BY <2>1, <3>1 DEF Good, Apart
  <2> QED BY <2>1, <2>2, <2>3 DEF Framed
<1> QED BY <1>1, <1>2, WorthStays

(* What is remembered stays true while its vectors and its block do.        *)
LEMMA RemembersStays ==
  ASSUME NEW r, NEW q, NEW new, NEW w, Remembers(r, q, new, w), r.op \in Operations,
         vec'[r.x] = vec[r.x], vec'[r.y] = vec[r.y],
         new # nullptr => mem'[new] = mem[new],
         r.op \in Growing /\ Moved(q) => new # nullptr,
         r.op \in Growing /\ ~Moved(q) => Value(r.x)' = Value(r.x),
         r.op \in Replacing /\ First(q) = "return" => Value(r.x)' = Value(r.x),
         r.op = "copy" => Value(r.y)' = Value(r.y)
  PROVE  Remembers(r, q, new, w)'
<1>1. r.op \in Creating => Made(r)' = Made(r)
  BY DEF Creating, Made, Fill
<1>2. Asked(r)' = Asked(r) /\ Moved(q)' = Moved(q) /\ First(q)' = First(q)
  BY DEF Asked, Moved, First
<1>3. r.op \in Creating => w = Gone
  BY DEF Remembers
<1>4. r.op \in Creating /\ First(q) = "return" /\ new # nullptr =>
        mem'[new] = Made(r)' \/ (r.op = "copy" /\ Made(r)' = Lost)
  BY <1>1 DEF Remembers
<1>5. r.op \in Growing /\ w # Lost =>
        w = IF Moved(q) THEN Prefixed(vec'[r.x].size_, mem'[new]) ELSE Value(r.x)'
  BY DEF Remembers
<1>6. r.op \in Replacing /\ w # Lost =>
        /\ First(q) = "return" /\ Asked(r) = 0 => w = Value(r.x)'
        /\ First(q) # "return" /\ vec'[r.x].capacity_ = 0 => w = <<>>
  BY DEF Remembers
<1>7. r.op \in Growing \cup Replacing /\ vec'[r.x].data_ = nullptr /\ vec'[r.x].capacity_ > 0 =>
        w = Lost
  BY DEF Remembers
<1> QED BY <1>2, <1>3, <1>4, <1>5, <1>6, <1>7 DEF Remembers, Prefixed

(* A call that is not past the release of its vector's block still has it.  *)
LEMMA StillHolding ==
  ASSUME NEW u \in Threads, Running(u), Within(u, request[u], todo[u], new_data[u]),
         request[u].op \notin Creating,
         \/ request[u].op \in Growing /\ ~Moved(todo[u])
         \/ request[u].op \in Replacing /\ First(todo[u]) = "return"
  PROVE  Exists(request[u].x) /\ Owned(request[u].x) = Buffer(request[u].x)
<1> DEFINE r == request[u]
           q == todo[u]
<1>1. Asks(u, r) /\ Rest(r, q) /\ r.op \in Operations /\ r.x \in Vectors /\ Owner[r.x] = u
  BY AskedFor DEF Within, Asks
<1>2. Exists(r.x)
  BY <1>1 DEF Asks
<1>3. ~Released(r, q)
  BY <1>1, Kinds DEF Released, Moved, Rest, Backs
<1> QED BY <1>1, <1>2, <1>3, Holding

(* And the other vector of a call is not its first one where it matters.    *)
LEMMA OtherHolding ==
  ASSUME NEW u \in Threads, Running(u), Asks(u, request[u]),
         request[u].op \in {"copy", "assign", "push_vector"}, request[u].y # request[u].x
  PROVE  Exists(request[u].y) /\ Owned(request[u].y) = Buffer(request[u].y)
<1> DEFINE r == request[u]
<1>1. r.y \in Vectors /\ Owner[r.y] = u
  BY AskedFor DEF Asks
<1>2. Exists(r.y)
  BY DEF Asks
<1> QED BY <1>1, <1>2, Holding

(* So what other threads' calls remember stays true.                        *)
LEMMA PastElsewhere ==
  ASSUME Good, NEW t \in Threads, Framed(t), NEW u \in Threads \ {t}, Past(u)
  PROVE  Past(u)'
<1>1. /\ request'[u] = request[u] /\ todo'[u] = todo[u] /\ new_data'[u] = new_data[u]
      /\ Running(u)' <=> Running(u)
  BY DEF Framed, OnlyThread, Running
<1>2. CASE ~Running(u)
  BY <1>1, <1>2 DEF Past
<1>3. CASE Running(u)
  <2>1. PICK r, q, new, w : r = request[u] /\ q = todo[u] /\ new = new_data[u] /\ w = was[r.x]
    OBVIOUS
  <2>2. Within(u, r, q, new) /\ Remembers(r, q, new, w)
    BY <1>3, <2>1 DEF Good, Local, Past
  <2>3. /\ Asks(u, r) /\ r.op \in Operations /\ r.x \in Vectors /\ r.y \in Vectors
        /\ Owner[r.x] = u /\ Owner[r.y] = u
    BY <2>2, AskedFor DEF Within, Asks
  <2>4. ASSUME NEW z \in Vectors, Owner[z] = u
        PROVE  ~(Running(t) /\ z = request[t].x)
    <3>1. Running(t) => Owner[request[t].x] = t
      BY DEF Good, Local, Within, Asks
    <3> QED BY <2>4, <3>1
  <2>5. vec'[r.x] = vec[r.x] /\ vec'[r.y] = vec[r.y] /\ was'[r.x] = was[r.x]
    BY <2>3, <2>4 DEF Framed
  <2>6. new # nullptr => mem'[new] = mem[new]
    <3> SUFFICES ASSUME new # nullptr PROVE mem'[new] = mem[new]
      OBVIOUS
    <3>1. new \in DOMAIN heap /\ new # new_data[t]
      BY <2>1 DEF Good, Held, Apart, Live
    <3>2. ASSUME Running(t) PROVE new # Owned(request[t].x)
      <4>1. request[t].x \in Vectors
        <5>1. Asks(t, request[t])
          BY <3>2 DEF Good, Local, Within
        <5> QED BY <5>1, AskedFor
      <4> QED BY <2>1, <4>1 DEF Good, Apart
    <3> QED BY <3>1, <3>2 DEF Framed
  <2>7. ASSUME \/ r.op \in Growing /\ ~Moved(q)
               \/ r.op \in Replacing /\ First(q) = "return"
        PROVE  Value(r.x)' = Value(r.x)
    <3>1. r.op \notin Creating
      BY <2>3, <2>7, Kinds
    <3>2. Owned(r.x) = Buffer(r.x)
      BY <1>3, <2>1, <2>2, <2>7, <3>1, StillHolding
    <3> QED BY <2>3, <2>4, <3>2, ValueStays
  <2>8. ASSUME r.op = "copy" PROVE Value(r.y)' = Value(r.y)
    <3>1. r.y # r.x
      BY <2>3, <2>8 DEF Asks, Creating
    <3>2. Owned(r.y) = Buffer(r.y)
      BY <1>3, <2>1, <2>3, <2>8, <3>1, OtherHolding
    <3> QED BY <2>3, <2>4, <3>2, ValueStays
  <2>9. r.op \in Growing /\ Moved(q) => new # nullptr
    BY <2>2 DEF Within, HoldsNew, Moved
  <2>10. Remembers(r, q, new, w)'
    BY <2>2, <2>3, <2>5, <2>6, <2>7, <2>8, <2>9, RemembersStays
  <2>11. request'[u] = r /\ todo'[u] = q /\ new_data'[u] = new /\ was'[r.x] = w
    BY <1>1, <2>1, <2>5
  <2> QED BY <2>10, <2>11 DEF Past
<1> QED BY <1>2, <1>3

-----------------------------------------------------------------------------
(* How the values change.                                                   *)
ValueOf(z) == IF Running(Owner[z]) /\ request[Owner[z]].x = z THEN was[z] ELSE Value(z)

(* The mapping, vector by vector.                                           *)
LEMMA ValuesAre ==
  /\ Values = [z \in Vectors |-> ValueOf(z)] /\ Values' = [z \in Vectors |-> ValueOf(z)']
BY DEF Values, ValueOf, Running

(* The values of the other vectors.                                         *)
LEMMA ValuesElsewhere ==
  ASSUME Good, NEW t \in Threads, Framed(t), NEW z \in Vectors,
         Owner[z] = t => /\ ~(Running(t) /\ request[t].x = z)
                         /\ Running(t)' => request'[t].x # z
  PROVE  ValueOf(z)' = ValueOf(z)
<1>1. CASE Owner[z] = t
  <2>1. ValueOf(z) = Value(z) /\ ValueOf(z)' = Value(z)'
    BY <1>1 DEF ValueOf
  <2>2. Exists(z) => Owned(z) = Buffer(z)
    BY <1>1, Holding
  <2> QED BY <1>1, <2>1, <2>2, ValueStays
<1>2. CASE Owner[z] # t
  <2> DEFINE u == Owner[z]
  <2>1. u \in Threads \ {t}
    BY <1>2, VectorAssumption
  <2>2. request'[u] = request[u] /\ (Running(u)' <=> Running(u)) /\ was'[z] = was[z]
    BY <2>1 DEF Framed, OnlyThread, Running
  <2>3. CASE Running(u) /\ request[u].x = z
    BY <2>2, <2>3 DEF ValueOf
  <2>4. CASE ~(Running(u) /\ request[u].x = z)
    <3>1. Running(t) => Owner[request[t].x] = t
      BY DEF Good, Local, Within, Asks
    <3>2. Exists(z) => Owned(z) = Buffer(z)
      BY <2>4, Holding
    <3>3. Value(z)' = Value(z)
      BY <1>2, <3>1, <3>2, ValueStays
    <3> QED BY <2>2, <2>4, <3>3 DEF ValueOf
  <2> QED BY <2>3, <2>4
<1> QED BY <1>1, <1>2

(* The vectors of a step of thread t that does not end its call.            *)
LEMMA Unended ==
  ASSUME Good, Remembered, NEW t \in Threads, Running(t), Framed(t),
         request' = request, was' = was, Stored', Past(t)'
  PROVE  Remembered' /\ Values' = Values
<1>1. \A u \in Threads : Past(u)'
  <2>1. \A u \in Threads \ {t} : Past(u)'
    BY PastElsewhere DEF Remembered
  <2> QED BY <2>1
<1>2. ASSUME NEW z \in Vectors PROVE ValueOf(z)' = ValueOf(z)
  <2>1. CASE Owner[z] = t /\ request[t].x = z
    BY <2>1 DEF ValueOf, Running
  <2>2. CASE ~(Owner[z] = t /\ request[t].x = z)
    <3>1. Owner[z] = t => ~(Running(t) /\ request[t].x = z) /\ (Running(t)' => request'[t].x # z)
      BY <2>2
    <3> QED BY <3>1, ValuesElsewhere
  <2> QED BY <2>1, <2>2
<1>3. Values' = Values
  BY <1>2, ValuesAre
<1> QED BY <1>1, <1>3 DEF Remembered

(* And of one that ends it.                                                 *)
LEMMA Over ==
  ASSUME Good, Remembered, NEW t \in Threads, Running(t), Framed(t), End(t), Stored',
         NEW r, r = request[t]
  PROVE  /\ Remembered'
         /\ r # NoRequest /\ request' = [request EXCEPT ![t] = NoRequest]
         /\ r.x \in Vectors /\ r.y \in Vectors
         /\ \A z \in Vectors \ {r.x} : Values'[z] = Values[z]
         /\ Values = [z \in Vectors |-> Values[z]]
         /\ Values' = [z \in Vectors |-> Values'[z]]
         /\ Values'[r.x] = Value(r.x)' /\ Values[r.x] = was[r.x]
         /\ Values[r.y] = IF r.y = r.x THEN was[r.x] ELSE Value(r.y)
<1>1. r.x \in Vectors /\ r.y \in Vectors /\ Owner[r.x] = t /\ Owner[r.y] = t
  <2>1. Asks(t, r)
    BY DEF Good, Local, Within
  <2> QED BY <2>1, AskedFor DEF Asks
<1>2. request' = [request EXCEPT ![t] = NoRequest] /\ ~Running(t)'
  BY DEF End, Running, Good, Shapes
<1>3. Past(t)'
  BY <1>2 DEF Past
<1>4. \A u \in Threads : Past(u)'
  <2>1. \A u \in Threads \ {t} : Past(u)'
    BY PastElsewhere DEF Remembered
  <2> QED BY <1>3, <2>1
<1>5. ASSUME NEW z \in Vectors, z # r.x PROVE ValueOf(z)' = ValueOf(z)
  BY <1>2, <1>5, ValuesElsewhere
<1>6. ValueOf(r.x)' = Value(r.x)'
  BY <1>1, <1>2 DEF ValueOf
<1>7. ValueOf(r.x) = was[r.x] /\ ValueOf(r.y) = IF r.y = r.x THEN was[r.x] ELSE Value(r.y)
  BY <1>1 DEF ValueOf
<1>8. /\ Values = [z \in Vectors |-> Values[z]] /\ Values' = [z \in Vectors |-> Values'[z]]
      /\ \A z \in Vectors : Values[z] = ValueOf(z) /\ Values'[z] = ValueOf(z)'
  BY ValuesAre
<1>9. Remembered' /\ r # NoRequest
  BY <1>4 DEF Remembered, Running
<1> QED BY <1>1, <1>2, <1>5, <1>6, <1>7, <1>8, <1>9

\* What the other vector of call r is worth, for the call.
Other(r) == IF r.y = r.x THEN was[r.x] ELSE Value(r.y)

(* What a call may make of its vector, that VectorValues allows.            *)
LEMMA Ends ==
  ASSUME Good, Remembered, NEW t \in Threads, Running(t), Framed(t), End(t), Stored',
         NEW r, r = request[t],
         \/ r.op # "destroy" /\ (was[r.x] = Lost \/ Other(r) = Lost)
         \/ Value(r.x)' = was[r.x]
         \/ Value(r.x)' = VV!Effect(r, was[r.x], Other(r))
         \/ r.op \in Replacing /\ Value(r.x)' = Lost
         \/ r.op = "assign" /\ Other(r) # Lost /\ Len(Value(r.x)') = Len(Other(r))
  PROVE  Remembered' /\ VV!Next
<1>1. PICK s, o : s = was[r.x] /\ o = Other(r)
  OBVIOUS
<1>2. /\ Remembered'
      /\ r # NoRequest /\ request' = [request EXCEPT ![t] = NoRequest]
      /\ r.x \in Vectors /\ r.y \in Vectors
      /\ \A z \in Vectors \ {r.x} : Values'[z] = Values[z]
      /\ Values = [z \in Vectors |-> Values[z]]
      /\ Values' = [z \in Vectors |-> Values'[z]]
      /\ Values'[r.x] = Value(r.x)' /\ Values[r.x] = s /\ Values[r.y] = o
  BY <1>1, Over DEF Other
<1>3. PICK n, old, new : n = Value(r.x)' /\ old = Values /\ new = Values'
  OBVIOUS
<1>4. new = [old EXCEPT ![r.x] = n]
  BY <1>2, <1>3
<1>5. VV!Unspecified(r) <=> r.op # "destroy" /\ (s = Lost \/ o = Lost)
  BY <1>2 DEF VV!Unspecified
<1>6. CASE r.op # "destroy" /\ (s = Lost \/ o = Lost)
  <2>1. VV!Return(t)
    BY <1>2, <1>5, <1>6 DEF VV!Return
  <2> QED BY <1>2, <2>1 DEF VV!Next
<1>7. CASE n = s
  <2>1. new = old
    BY <1>2, <1>3, <1>4, <1>7
  <2>2. VV!Throw(t)
    BY <1>2, <1>3, <2>1 DEF VV!Throw
  <2> QED BY <1>2, <2>2 DEF VV!Next
<1>8. CASE ~VV!Unspecified(r) /\ n = VV!Effect(r, s, o)
  <2>1. VV!Return(t)
    BY <1>2, <1>3, <1>4, <1>8 DEF VV!Return
  <2> QED BY <1>2, <2>1 DEF VV!Next
<1>9. CASE r.op \in Replacing /\ n = Lost
  <2>1. VV!Throw(t)
    BY <1>2, <1>3, <1>9 DEF VV!Throw, Replacing
  <2> QED BY <1>2, <2>1 DEF VV!Next
<1>10. CASE r.op = "assign" /\ o # Lost /\ Len(n) = Len(o)
  <2>1. VV!Throw(t)
    BY <1>2, <1>3, <1>10 DEF VV!Throw
  <2> QED BY <1>2, <2>1 DEF VV!Next
<1> QED BY <1>1, <1>3, <1>5, <1>6, <1>7, <1>8, <1>9, <1>10

(* Where nothing changes, nothing is forgotten.                             *)
LEMMA NothingHappens ==
  ASSUME Good, Remembered,
         UNCHANGED <<heap, mem, vec, request, todo, new_data, was>>
  PROVE  Remembered' /\ UNCHANGED <<Values, request>>
<1>1. \A z \in Vectors : Value(z)' = Value(z)
  BY DEF Value, Exists, Buffer, Live
<1>2. \A z \in Vectors : ValueOf(z)' = ValueOf(z)
  BY <1>1 DEF ValueOf, Running
<1>3. Values' = Values
  BY <1>2, ValuesAre
<1>4. Stored'
  BY DEF Remembered, Stored
<1>5. ASSUME NEW t \in Threads PROVE Past(t)'
  <2>1. CASE ~Running(t)
    BY <2>1 DEF Past, Running
  <2>2. CASE Running(t)
    <3>1. PICK r, q, new, w : r = request[t] /\ q = todo[t] /\ new = new_data[t] /\ w = was[r.x]
      OBVIOUS
    <3>2. Remembers(r, q, new, w)
      BY <2>2, <3>1 DEF Remembered, Past
    <3>3. r.op \in Operations /\ r.x \in Vectors /\ r.y \in Vectors /\ Within(t, r, q, new)
      BY <2>2, <3>1, AskedFor DEF Good, Local, Within
    <3>4. r.op \in Growing /\ Moved(q) => new # nullptr
      BY <3>3 DEF Within, HoldsNew, Moved
    <3>5. Remembers(r, q, new, w)'
      BY <1>1, <3>2, <3>3, <3>4, RemembersStays
    <3> QED BY <3>1, <3>5 DEF Past, Running
  <2> QED BY <2>1, <2>2
<1> QED BY <1>3, <1>4, <1>5 DEF Remembered

-----------------------------------------------------------------------------
(* The steps within a call.                                                 *)

(* The next step remembers as much, unless it moves or replaces elements.   *)
LEMMA RemembersOn ==
  ASSUME NEW r, NEW q, NEW new, NEW w, Remembers(r, q, new, w), r.op \in Operations,
         NEW q2, NEW new2, vec'[r.x] = vec[r.x],
         r.op = "destroy" \/ (First(q) # "return" /\ First(q2) # "return"),
         r.op \in Growing =>
           /\ Moved(q2) => Moved(q) /\ new2 = new /\ mem'[new] = mem[new]
           /\ ~Moved(q2) => ~Moved(q) /\ Value(r.x)' = Value(r.x)
  PROVE  Remembers(r, q2, new2, w)'
<1>1. Moved(q2)' = Moved(q2) /\ First(q2)' = First(q2)
  BY DEF Moved, First
<1>2. r.op \in Creating => w = Gone
  BY DEF Remembers
<1>3. r.op = "destroy" => r.op \notin Creating \cup Growing \cup Replacing
  BY Kinds
<1>4. r.op \in Growing /\ w # Lost =>
        w = IF Moved(q2) THEN Prefixed(vec'[r.x].size_, mem'[new2]) ELSE Value(r.x)'
  BY DEF Remembers
<1>5. r.op \in Replacing /\ w # Lost /\ vec'[r.x].capacity_ = 0 => w = <<>>
  BY <1>3 DEF Remembers
<1>6. r.op \in Growing \cup Replacing /\ vec'[r.x].data_ = nullptr /\ vec'[r.x].capacity_ > 0 =>
        w = Lost
  BY DEF Remembers
<1> QED BY <1>1, <1>2, <1>3, <1>4, <1>5, <1>6 DEF Remembers, Prefixed

\* A step leaves the blocks alone that are not among ps.
Untouched(ps) == \A p \in DOMAIN heap \ ps : p \in DOMAIN heap' /\ mem'[p] = mem[p]

(* Such a step of a thread within its call, in terms of what it changes.    *)
LEMMA Goes ==
  ASSUME Good, Remembered, NEW t \in Threads, Running(t),
         NEW q2, NEW new2, todo' = [todo EXCEPT ![t] = q2], new_data' = [new_data EXCEPT ![t] = new2],
         UNCHANGED <<vec, request, was, m_default_device>>, seen \subseteq seen',
         \A u \in Threads \ {t} : sCurDevice'[u] = sCurDevice[u],
         Untouched({new_data[t], Owned(request[t].x)}),
         Stored', \A r, w : r = request[t] /\ w = was[r.x] => Remembers(r, q2, new2, w)'
  PROVE  Remembered' /\ Values' = Values
<1>1. request[t].x \in Vectors
  <2>1. Asks(t, request[t])
    BY DEF Good, Local, Within
  <2> QED BY <2>1, AskedFor
<1>2. DOMAIN todo = Threads /\ DOMAIN new_data = Threads
  BY DEF Good, Shapes
<1>3. OnlyThread(t)
  BY <1>2 DEF OnlyThread
<1>4. Framed(t)
  BY <1>1, <1>3 DEF Framed, Untouched
<1>5. Past(t)'
  BY <1>2 DEF Past
<1> QED BY <1>1, <1>4, <1>5, Unended

(* A growing vector whose elements have not moved yet.                      *)
LEMMA OwnValueStays ==
  ASSUME Good, NEW t \in Threads, Running(t), NEW r, r = request[t],
         Within(t, request[t], todo[t], new_data[t]),
         r.op \in Growing, ~Moved(todo[t]), vec'[r.x] = vec[r.x],
         Untouched({new_data[t]})
  PROVE  Value(r.x)' = Value(r.x)
<1>1. r.x \in Vectors /\ r.op \in Operations
  BY AskedFor DEF Within
<1>2. Exists(r.x) /\ Owned(r.x) = Buffer(r.x)
  BY <1>1, Kinds, StillHolding
<1>3. Owned(r.x) # nullptr => Owned(r.x) \in DOMAIN heap /\ Owned(r.x) # new_data[t]
  BY <1>1 DEF Good, Held, Apart, Live
<1>4. Exists(r.x) /\ Buffer(r.x) # nullptr =>
        Buffer(r.x) \in DOMAIN heap /\ Buffer(r.x) \in DOMAIN heap'
          /\ mem'[Buffer(r.x)] = mem[Buffer(r.x)]
  BY <1>2, <1>3 DEF Untouched
<1> QED BY <1>1, <1>4, WorthStays

(* And one that leaves the elements of a growing vector where they are.     *)
LEMMA GoesOn ==
  ASSUME Good, Remembered, NEW t \in Threads, Running(t), First(todo[t]) # "return",
         NEW q2, NEW new2, todo' = [todo EXCEPT ![t] = q2], new_data' = [new_data EXCEPT ![t] = new2],
         UNCHANGED <<vec, request, was, m_default_device>>, seen \subseteq seen',
         \A u \in Threads \ {t} : sCurDevice'[u] = sCurDevice[u],
         Untouched({new_data[t], Owned(request[t].x)}),
         First(todo[t]) # "free memory" => Untouched({new_data[t]}),
         Stored', request[t].op = "destroy" \/ First(q2) # "return",
         request[t].op \in Growing /\ Moved(q2) =>
           Moved(todo[t]) /\ new2 = new_data[t] /\ mem'[new2] = mem[new2],
         request[t].op \in Growing /\ Moved(todo[t]) => Moved(q2)
  PROVE  Remembered' /\ Values' = Values
<1> SUFFICES ASSUME NEW r, NEW w, r = request[t], w = was[r.x]
             PROVE  Remembers(r, q2, new2, w)'
  BY Goes
<1>1. PICK q, new : q = todo[t] /\ new = new_data[t]
  OBVIOUS
<1>2. Within(t, r, q, new) /\ r.op \in Operations /\ r.x \in Vectors
  <2>1. Within(t, r, q, new)
    BY <1>1 DEF Good, Local
  <2> QED BY <2>1, AskedFor DEF Within
<1>3. Remembers(r, q, new, w)
  BY <1>1 DEF Remembered, Past
<1>4. r.op \in Growing /\ ~Moved(q) => Value(r.x)' = Value(r.x)
  <2>1. ~Moved(q) => First(q) # "free memory"
    BY DEF Moved
  <2>2. /\ Running(t) /\ Within(t, request[t], todo[t], new_data[t])
        /\ r.x \in Vectors /\ vec'[r.x] = vec[r.x]
    BY <1>1, <1>2
  <2> QED BY <1>1, <2>1, <2>2, OwnValueStays
<1>5. /\ r.op = "destroy" \/ (First(q) # "return" /\ First(q2) # "return")
      /\ r.op \in Growing =>
           /\ Moved(q2) => Moved(q) /\ new2 = new /\ mem'[new] = mem[new]
           /\ ~Moved(q2) => ~Moved(q) /\ Value(r.x)' = Value(r.x)
      /\ vec'[r.x] = vec[r.x]
  BY <1>1, <1>4
<1> QED BY ONLY <1>2, <1>3, <1>5, RemembersOn

(* A block keeps its size.                                                  *)
LEMMA StoredStays ==
  ASSUME Good, Remembered, UNCHANGED <<heap, mem>>, DOMAIN was' = Vectors
  PROVE  Stored'
BY DEF Remembered, Stored

(* A new block.                                                             *)
LEMMA MallocGoes ==
  ASSUME Good, Remembered, NEW t \in Threads, Malloc(t)
  PROVE  Remembered' /\ Values' = Values
<1>1. At(t, "malloc")
  BY DEF Malloc
<1>2. PICK b \in Bases :
        allocate_memory(t, b, new_capacity(t)) /\ new_data' = [new_data EXCEPT ![t] = b]
  BY DEF Malloc
<1>3. PICK n, d, e : n = new_capacity(t) /\ d = [size |-> n, device |-> get_thread_local_device(t)]
                     /\ e = [i \in 1 .. n |-> Junk]
  OBVIOUS
<1>4. b \notin DOMAIN heap /\ heap' = Set(heap, b, d) /\ mem' = Set(mem, b, e)
  BY <1>2, <1>3 DEF allocate_memory
<1>5. /\ Asks(t, request[t]) /\ Rest(request[t], todo[t]) /\ Room(request[t], todo[t])
      /\ Running(t) /\ First(todo[t]) = "malloc" /\ request[t].op \in Operations
  BY <1>1, InCall
<1>6. request[t].op # "destroy"
  BY <1>5 DEF Rest
<1>7. n \in Nat
  BY <1>3, <1>5, <1>6, Enough DEF Good
<1>8. First(Tail(todo[t])) = "track"
  BY <1>5, Follows
<1>9. Stored'
  <2>1. e \in Seq(Int) /\ Len(e) = n
    <3>1. e \in [1 .. n -> Int]
      BY <1>3 DEF Junk
    <3> QED BY <1>7, <3>1, Listed
  <2>2. d.size = n
    BY <1>3
  <2> QED BY <1>4, <2>1, <2>2 DEF Malloc, Remembered, Stored, Set
<1>10. \A ps : Untouched(ps)
  BY <1>4 DEF Set, Remembered, Stored, Untouched
<1>11. /\ todo' = [todo EXCEPT ![t] = Tail(todo[t])]
       /\ UNCHANGED <<vec, request, was, m_default_device, sCurDevice, seen>>
  BY DEF Malloc, Continue
<1> QED BY <1>1, <1>2, <1>5, <1>8, <1>9, <1>10, <1>11, GoesOn DEF Moved, Backs

(* The release of a block, which does not fail.                             *)
LEMMA FreeGoes ==
  ASSUME Good, Remembered, NEW t \in Threads, Free(t)
  PROVE  Remembered' /\ Values' = Values /\ request' = request
<1>1. At(t, "free")
  BY DEF Free
<1>2. /\ Rest(request[t], todo[t]) /\ First(todo[t]) = "free" /\ request[t].op \in Operations
      /\ Asks(t, request[t]) /\ Running(t) /\ request[t].x \in Vectors
  BY <1>1, InCall
<1>3. /\ request[t].op \notin Creating /\ Buffer(request[t].x) # nullptr
      /\ First(<<"free memory", "untrack">> \o Tail(todo[t])) = "free memory"
  BY <1>2, FollowsFree
<1>4. identify(Buffer(request[t].x)) # nullptr
  <2>1. Exists(request[t].x)
    BY <1>2, <1>3 DEF Asks
  <2>2. ~Released(request[t], todo[t])
    BY <1>2 DEF Released, Backs
  <2>3. Owned(request[t].x) = Buffer(request[t].x)
    BY <1>2, <2>1, <2>2, Holding DEF Asks
  <2> QED BY <1>2, <1>3, <2>3, IdentifiedOwned
<1>5. PICK q2 :
        /\ todo' = [todo EXCEPT ![t] = q2] /\ First(q2) \in {"free", "free memory"}
        /\ \A u \in Threads \ {t} : sCurDevice'[u] = sCurDevice[u]
  <2>1. CASE todo' = [todo EXCEPT ![t] = <<"free memory", "untrack">> \o Tail(@)]
               /\ UNCHANGED runtime
    BY <1>3, <2>1 DEF runtime
  <2>2. CASE \E b : /\ todo' = [todo EXCEPT ![t] = <<"free", b>> \o Tail(@)]
                    /\ \E d : sCurDevice' = [sCurDevice EXCEPT ![t] = d]
    <3>1. PICK b : todo' = [todo EXCEPT ![t] = <<"free", b>> \o Tail(@)]
      BY <2>2
    <3>2. First(<<"free", b>> \o Tail(todo[t])) = "free"
      BY DEF First
    <3>3. \A u \in Threads \ {t} : sCurDevice'[u] = sCurDevice[u]
      BY <2>2 DEF Good, Shapes
    <3> QED BY <3>1, <3>2, <3>3
  <2> QED BY <1>4, <2>1, <2>2 DEF Free, set_thread_local_device
<1>6. UNCHANGED <<vec, request, was, m_default_device, new_data, seen, heap, mem>>
  BY <1>4 DEF Free, runtime, memory
<1>7. Stored'
  BY <1>6, StoredStays DEF Remembered, Stored
<1>8. \A ps : Untouched(ps)
  BY <1>6 DEF Untouched, Remembered, Stored
<1>9. new_data' = [new_data EXCEPT ![t] = new_data[t]]
  BY <1>6 DEF Good, Shapes
<1> QED BY <1>1, <1>2, <1>5, <1>6, <1>7, <1>8, <1>9, GoesOn DEF Moved

(* The block goes.                                                          *)
LEMMA FreeMemoryGoes ==
  ASSUME Good, Remembered, NEW t \in Threads, FreeMemory(t)
  PROVE  Remembered' /\ Values' = Values
<1>1. At(t, "free memory")
  BY DEF FreeMemory
<1>2. /\ Rest(request[t], todo[t]) /\ First(todo[t]) = "free memory" /\ Running(t)
      /\ Asks(t, request[t]) /\ request[t].op \in Operations /\ request[t].x \in Vectors
  BY <1>1, InCall
<1>3. PICK b, r : b = Buffer(r.x) /\ r = request[t]
  OBVIOUS
<1>4. Owned(r.x) = b /\ b # nullptr
  <2>1. r.op \notin Creating /\ b # nullptr
    BY <1>2, <1>3 DEF Rest
  <2>2. Exists(r.x)
    BY <1>2, <1>3, <2>1 DEF Asks
  <2>3. ~Released(r, todo[t])
    BY <1>2, <1>3, <2>1, Kinds DEF Released, Backs
  <2> QED BY <1>2, <1>3, <2>1, <2>2, <2>3, Holding DEF Asks
<1>5. Live(b) /\ new_data[t] # b
  BY <1>2, <1>3, <1>4 DEF Good, Held, Apart
<1>6. /\ heap' = Drop(heap, b) /\ mem' = Drop(mem, b)
      /\ todo' = [todo EXCEPT ![t] = Tail(todo[t])]
      /\ UNCHANGED <<sCurDevice, m_default_device, vec, request, new_data, was, seen>>
  BY <1>3, <1>5 DEF FreeMemory, free_memory, Continue
<1>7. Stored'
  BY <1>6 DEF Remembered, Stored, Drop
<1>8. Untouched({new_data[t], Owned(request[t].x)})
  BY <1>3, <1>4, <1>6 DEF Untouched, Remembered, Stored, Drop
<1>9. new_data[t] # nullptr => mem'[new_data[t]] = mem[new_data[t]]
  <2>1. new_data[t] # nullptr => new_data[t] \in DOMAIN mem
    BY DEF Good, Held, Live, Remembered, Stored
  <2> QED BY <1>5, <1>6, <2>1 DEF Drop
<1>10. First(Tail(todo[t])) = "untrack"
  BY <1>2, Follows
<1>11. request[t].op \in Growing => new_data[t] # nullptr
  <2>1. new_data[t] # nullptr <=> HoldsNew(request[t], todo[t])
    BY <1>1, InCall
  <2> QED BY <1>2, <2>1 DEF HoldsNew
<1>12. new_data' = [new_data EXCEPT ![t] = new_data[t]]
  BY <1>6 DEF Good, Shapes
<1>13. Moved(todo[t]) /\ Moved(Tail(todo[t]))
  BY <1>2, <1>10 DEF Moved
<1> QED BY <1>2, <1>6, <1>7, <1>8, <1>9, <1>10, <1>11, <1>12, <1>13, GoesOn

(* The tracker forgets it, and the thread goes back to its device.          *)
LEMMA BehindFree ==
  ASSUME Good, Remembered, NEW t \in Threads, Untrack(t) \/ SwitchBack(t)
  PROVE  Remembered' /\ Values' = Values
<1>1. /\ At(t, "untrack") \/ At(t, "back") \/ At(t, "back to default")
      /\ todo' = [todo EXCEPT ![t] = Tail(todo[t])]
      /\ UNCHANGED <<heap, mem, m_default_device, vec, request, new_data, was, seen>>
      /\ sCurDevice' = sCurDevice \/ \E d : sCurDevice' = [sCurDevice EXCEPT ![t] = d]
  BY DEF Untrack, SwitchBack, Continue, switch_back, set_thread_local_device, memory
<1>2. /\ Rest(request[t], todo[t]) /\ Running(t) /\ First(todo[t]) \in {"untrack"} \cup Backs
      /\ request[t].op \in Operations
  BY <1>1, InCall DEF Backs
<1>3. First(Tail(todo[t])) = First(AfterFree(request[t])) \/ First(Tail(todo[t])) \in Backs
  <2>1. First(todo[t]) \in {"untrack"} \cup Backs =>
          /\ Rest(request[t], Tail(todo[t]))
          /\ \/ First(Tail(todo[t])) = First(AfterFree(request[t]))
             \/ First(Tail(todo[t])) \in Backs /\ seen # {}
    BY <1>2, Follows
  <2> QED BY <1>2, <2>1
<1>4. First(AfterFree(request[t])) = IF request[t].op \in Growing THEN "adopt"
                                     ELSE IF request[t].op \in Replacing THEN "malloc"
                                     ELSE "return"
  BY <1>2, Rests
<1>5. request[t].op \notin Creating
  BY <1>2 DEF Rest
<1>6. Moved(todo[t])
  BY <1>2 DEF Moved
<1>7. request[t].op = "destroy" \/ First(Tail(todo[t])) # "return"
  BY <1>2, <1>3, <1>4, <1>5, Kinds DEF Backs
<1>8. request[t].op \in Growing => Moved(Tail(todo[t]))
  BY <1>3, <1>4 DEF Moved
<1>9. Stored' /\ \A ps : Untouched(ps)
  BY <1>1 DEF Remembered, Stored, Untouched
<1>10. new_data' = [new_data EXCEPT ![t] = new_data[t]]
  BY <1>1 DEF Good, Shapes
<1>11. \A u \in Threads \ {t} : sCurDevice'[u] = sCurDevice[u]
  BY <1>1 DEF Good, Shapes
<1>12. First(todo[t]) # "return" /\ mem' = mem
  BY <1>1, <1>2 DEF Backs
<1> QED BY <1>1, <1>2, <1>6, <1>7, <1>8, <1>9, <1>10, <1>11, <1>12, GoesOn

(* A growing vector whose elements have moved.                              *)
LEMMA RemembersMoved ==
  ASSUME NEW r, NEW q, NEW new, NEW w, r.op \in Operations, r.op \in Growing, Moved(q),
         w # Lost => w = Prefixed(vec'[r.x].size_, mem'[new]),
         vec'[r.x].data_ = nullptr /\ vec'[r.x].capacity_ > 0 => w = Lost
  PROVE  Remembers(r, q, new, w)'
<1>1. Moved(q)'
  BY DEF Moved, First
<1>2. r.op \notin Creating /\ r.op \notin Replacing
  BY Kinds
<1> QED BY <1>1, <1>2 DEF Remembers, Prefixed

(* The new block is tracked; a growing vector without elements has moved.   *)
LEMMA TrackGoes ==
  ASSUME Good, Remembered, NEW t \in Threads, Track(t)
  PROVE  Remembered' /\ Values' = Values
<1>1. At(t, "track")
  BY DEF Track
<1>2. /\ Rest(request[t], todo[t]) /\ Running(t) /\ First(todo[t]) = "track"
      /\ Asks(t, request[t]) /\ request[t].op \in Operations /\ request[t].x \in Vectors
      /\ Owner[request[t].x] = t
  BY <1>1, InCall
<1>3. /\ todo' = [todo EXCEPT ![t] = Tail(todo[t])]
      /\ UNCHANGED <<heap, mem, sCurDevice, m_default_device, vec, request, new_data, was>>
      /\ seen \subseteq seen'
  BY DEF Track, Continue
<1>4. Stored' /\ \A ps : Untouched(ps)
  BY <1>3 DEF Remembered, Stored, Untouched
<1>5. new_data' = [new_data EXCEPT ![t] = new_data[t]]
  BY <1>3 DEF Good, Shapes
<1>6. /\ First(Tail(todo[t])) = First(AfterTrack(request[t]))
      /\ request[t].op # "destroy"
  BY <1>2, Follows DEF Rest
<1>7. PICK r, q, q2, new, w : /\ r = request[t] /\ q = todo[t] /\ q2 = Tail(q)
                              /\ new = new_data[t] /\ w = was[r.x]
  OBVIOUS
<1>8. First(AfterTrack(r)) =
        IF r.op \in Creating THEN FillOf(r)
        ELSE IF r.op \in Replacing THEN "keep"
        ELSE IF Buffer(r.x) # nullptr /\ vec[r.x].size_ > 0 THEN "copy old"
        ELSE First(AfterCopy(r))
  BY <1>2, <1>7, Rests
<1>9. /\ First(AfterCopy(r)) = IF Buffer(r.x) # nullptr THEN "free" ELSE First(AfterFree(r))
      /\ r.op \in Growing => First(AfterFree(r)) = "adopt"
  BY <1>2, <1>7, Rests
<1>10. ~Moved(q) /\ First(q2) # "return"
  <2>1. r.op \in Creating \/ r.op \in Growing \/ r.op \in Replacing
    BY <1>2, <1>6, <1>7, Kinds
  <2>2. r.op \in Growing => r.op \notin Creating /\ r.op \notin Replacing
    BY <1>2, <1>7, Kinds
  <2> QED BY <1>2, <1>6, <1>7, <1>8, <1>9, <2>1, <2>2 DEF Moved, Backs, FillOf
<1>11. CASE ~(r.op \in Growing /\ Moved(q2))
  BY <1>2, <1>3, <1>4, <1>5, <1>7, <1>10, <1>11, GoesOn
<1>12. CASE r.op \in Growing /\ Moved(q2)
  <2>1. Remembers(r, q, new, w)
    BY <1>2, <1>7 DEF Remembered, Past
  <2>2. r.op \notin Creating /\ r.op \notin Replacing /\ Exists(r.x)
    BY <1>2, <1>7, <1>12, Kinds DEF Asks
  <2>3. w # Lost => w = Value(r.x) /\ ~(vec[r.x].data_ = nullptr /\ vec[r.x].capacity_ > 0)
    BY <1>10, <1>12, <2>1 DEF Remembers
  <2>4. ~(Buffer(r.x) # nullptr /\ vec[r.x].size_ > 0)
    BY <1>6, <1>7, <1>8, <1>12, <2>2 DEF Moved, Backs
  <2>5. w # Lost => vec[r.x].size_ = 0 /\ Value(r.x) = <<>>
    <3>1. /\ vec[r.x].size_ \in Nat /\ vec[r.x].capacity_ \in Nat
          /\ vec[r.x].size_ <= vec[r.x].capacity_
      BY <1>2, <1>7, <2>2 DEF Good, Sound
    <3>2. w # Lost => vec[r.x].size_ = 0
      BY <2>3, <2>4, <3>1 DEF Buffer
    <3> QED BY <2>2, <2>3, <3>2 DEF Value, Buffer
  <2>6. Prefixed(0, mem'[new]) = <<>>
    BY SubSeqEmpty DEF Prefixed
  <2>7. w # Lost => w = Prefixed(vec'[r.x].size_, mem'[new])
    BY <1>3, <2>3, <2>5, <2>6
  <2>8. vec'[r.x].data_ = nullptr /\ vec'[r.x].capacity_ > 0 => w = Lost
    BY <1>3, <1>12, <2>1 DEF Remembers
  <2>9. Remembers(r, q2, new, w)'
    BY <1>2, <1>7, <1>12, <2>7, <2>8, RemembersMoved
  <2>10. \A r1, w1 : r1 = request[t] /\ w1 = was[r1.x] => Remembers(r1, q2, new, w1)'
    BY <1>7, <2>9
  <2>11. /\ todo' = [todo EXCEPT ![t] = q2] /\ new_data' = [new_data EXCEPT ![t] = new]
         /\ Untouched({new_data[t], Owned(request[t].x)})
         /\ \A u \in Threads \ {t} : sCurDevice'[u] = sCurDevice[u]
    BY <1>3, <1>4, <1>5, <1>7
  <2> HIDE <1>7
  <2> QED BY <1>2, <1>3, <1>4, <2>10, <2>11, Goes
<1> QED BY <1>11, <1>12

-----------------------------------------------------------------------------
(* The steps that end a call.                                               *)

(* They change nothing but its vector.                                      *)
LEMMA EndFramed ==
  ASSUME Good, Remembered, NEW t \in Threads, Running(t), Asks(t, request[t]), End(t),
         seen \subseteq seen', UNCHANGED <<heap, sCurDevice, m_default_device>>,
         \A z \in Vectors : z # request[t].x => vec'[z] = vec[z],
         Untouched({Owned(request[t].x)})
  PROVE  Framed(t) /\ DOMAIN was' = Vectors
<1>1. request[t].x \in Vectors /\ Owner[request[t].x] = t
  BY AskedFor DEF Asks
<1>2. OnlyThread(t)
  <2>1. \A z \in Vectors : Owner[z] # t => vec'[z] = vec[z]
    BY <1>1
  <2> QED BY <2>1, Ended
<1>3. DOMAIN was' = Vectors /\ \A z \in Vectors : z # request[t].x => was'[z] = was[z]
  BY DEF End, Remembered, Stored
<1> QED BY <1>1, <1>2, <1>3 DEF Framed, Untouched

(* A call that throws before it has touched its vector.                     *)
LEMMA Unharmed ==
  ASSUME Good, Remembered, NEW t \in Threads, Running(t), Asks(t, request[t]), End(t),
         Within(t, request[t], todo[t], new_data[t]),
         seen \subseteq seen', UNCHANGED <<heap, mem, sCurDevice, m_default_device, vec>>,
         request[t].op \in Creating \/ (request[t].op \in Growing /\ ~Moved(todo[t]))
  PROVE  Remembered' /\ VV!Next
<1>1. PICK r, w : r = request[t] /\ w = was[r.x]
  OBVIOUS
<1>2. Framed(t) /\ DOMAIN was' = Vectors
  <2>1. Untouched({Owned(request[t].x)})
    BY DEF Untouched, Remembered, Stored
  <2> QED BY <2>1, EndFramed
<1>3. Stored'
  BY <1>2 DEF Remembered, Stored
<1>4. Remembers(r, todo[t], new_data[t], w) /\ r.op \in Operations
  BY <1>1, AskedFor DEF Remembered, Past
<1>5. \A z : Value(z)' = Value(z)
  BY DEF Value, Exists, Buffer, Live
<1>6. Value(r.x)' = w \/ (w = Lost /\ r.op # "destroy")
  <2>1. CASE r.op \in Creating
    <3>1. w = Gone
      BY <1>4, <2>1 DEF Remembers
    <3>2. Value(r.x) = Gone
      BY <1>1, <2>1 DEF Asks, Value
    <3>3. Value(r.x)' = Value(r.x)
      BY <1>5
    <3>4. Value(r.x)' = w
      BY <3>1, <3>2, <3>3
    <3> QED BY <3>4
  <2>2. CASE r.op \in Growing /\ ~Moved(todo[t])
    <3>1. w # Lost => w = Value(r.x)
      BY <1>4, <2>2 DEF Remembers
    <3>2. r.op # "destroy"
      BY <1>4, <2>2, Kinds
    <3> QED BY <1>5, <3>1, <3>2
  <2> QED BY <1>1, <2>1, <2>2
<1> QED BY <1>1, <1>2, <1>3, <1>6, Ends

(* The contents of a new block.                                             *)
LEMMA FillNewGoes ==
  ASSUME Good, Remembered, NEW t \in Threads, FillNew(t)
  PROVE  Remembered' /\ (VV!Next \/ UNCHANGED <<Values, request>>)
<1> DEFINE other == IF Head(todo[t]) = "copy old" THEN request[t].x ELSE request[t].y
           copies == Head(todo[t]) \in {"copy old", "copy other"}
           elements == CASE Head(todo[t]) = "zero"      -> Fill(request[t].n, 0)
                         [] Head(todo[t]) = "copy host" -> Fill(request[t].n, 1)
                         [] OTHER                       -> Contents(other)
<1>1. \E s \in {"zero", "copy host", "copy old", "copy other"} : At(t, s)
  BY DEF FillNew
<1>2. /\ Running(t) /\ Within(t, request[t], todo[t], new_data[t]) /\ Asks(t, request[t])
      /\ Rest(request[t], todo[t]) /\ Room(request[t], todo[t]) /\ request[t].op \in Operations
      /\ new_data[t] # nullptr <=> HoldsNew(request[t], todo[t])
      /\ First(todo[t]) = Head(todo[t])
      /\ Head(todo[t]) \in {"zero", "copy host", "copy old", "copy other"}
      /\ request[t].x \in Vectors /\ request[t].y \in Vectors /\ Owner[request[t].x] = t
  BY <1>1, InCall
<1>3. Head(todo[t]) = "copy old" => request[t].op \in Growing
  BY <1>2 DEF Rest
<1>4. Head(todo[t]) # "copy old" => request[t].op \in Creating
  BY <1>2 DEF Rest, Fills
<1>5. CASE Throws(t)
  <2>1. /\ End(t) /\ seen \subseteq seen'
        /\ UNCHANGED <<heap, mem, sCurDevice, m_default_device, vec>>
    BY <1>5 DEF Throws, runtime, memory
  <2>2. Head(todo[t]) = "copy old" => ~Moved(todo[t])
    BY <1>2 DEF Moved, Backs
  <2>3. Remembered' /\ VV!Next
    BY <1>2, <1>3, <1>4, <2>1, <2>2, Unharmed
  <2> QED BY <2>3
<1>6. CASE Undefined
  <2>1. UNCHANGED <<heap, mem, vec, request, todo, new_data, was>>
    BY <1>6 DEF Undefined, runtime, memory
  <2> QED BY <2>1, NothingHappens
<1>7. CASE /\ mem' = Written(new_data[t], 0, elements) /\ Continue(t)
           /\ copies => Accessible(t, Buffer(other))
           /\ UNCHANGED <<heap, sCurDevice, m_default_device, vec, request, new_data, was, seen>>
  <2>1. PICK r, q, new, w, es : /\ r = request[t] /\ q = todo[t] /\ new = new_data[t]
                                /\ w = was[r.x] /\ es = elements
    OBVIOUS
  <2> HIDE DEF other, copies, elements
  <2>2. new # nullptr /\ First(q) # "return" /\ ~Moved(q) /\ r.op # "destroy"
    BY <1>2, <1>3, <1>4, <2>1, Kinds DEF HoldsNew, Fills, Moved, Backs
  <2>3. PICK c : c = new_capacity(t)
    OBVIOUS
  <2>4. /\ c \in Nat /\ c >= Need(r) /\ (r.op \in Creating => c = Asked(r))
        /\ r.op \in Growing => Need(r) > vec[r.x].capacity_
    <3>1. r.op \in Growing => r.op \notin Creating
      BY <1>2, <2>1, Kinds
    <3> QED BY <1>2, <2>1, <2>2, <2>3, <3>1, Enough DEF Good, Room
  <2>5. /\ new \in DOMAIN mem /\ mem[new] \in Seq(Int) /\ Len(mem[new]) = c
    BY <2>1, <2>2, <2>3 DEF Good, Held, Live, Remembered, Stored
  <2>6. Remembers(r, q, new, w)
    BY <1>2, <2>1 DEF Remembered, Past
  <2>7. Accessible(t, Buffer(other)) => Buffer(other) # nullptr
    BY BlocksAreSomewhere DEF Accessible, Live, Good, Shapes
  <2>8. ASSUME First(q) = "copy old"
        PROVE  /\ es \in Seq(Int) /\ Len(es) <= c /\ Len(es) = vec[r.x].size_
               /\ w # Lost => w = es
    <3>1. Exists(r.x) /\ Owned(r.x) = Buffer(r.x) /\ Buffer(r.x) # nullptr
      <4>1. r.op \in Growing /\ r.op \notin Creating /\ Buffer(r.x) # nullptr
        BY <1>2, <2>1, <2>8 DEF Rest
      <4> QED BY <1>2, <2>1, <2>2, <4>1, StillHolding
    <3>2. es = Contents(r.x)
      BY <1>2, <2>1, <2>8 DEF elements, other
    <3>3. /\ vec[r.x].size_ \in Nat /\ vec[r.x].capacity_ \in Nat
          /\ vec[r.x].size_ <= vec[r.x].capacity_
          /\ Contents(r.x) = Value(r.x) /\ Value(r.x) \in Seq(Int)
          /\ Len(Value(r.x)) = vec[r.x].size_
      BY <1>2, <2>1, <3>1, Worth DEF Remembered, Buffer
    <3>4. w # Lost => w = Value(r.x)
      BY <1>2, <1>3, <2>1, <2>2, <2>6, <2>8 DEF Remembers
    <3>5. Need(r) > vec[r.x].capacity_ /\ Need(r) \in Nat
      BY <1>2, <1>3, <2>1, <2>2, <2>4, <2>8, Needs DEF Good
    <3> QED BY <2>4, <3>2, <3>3, <3>4, <3>5
  <2>9. ASSUME First(q) # "copy old"
        PROVE  es \in Seq(Int) /\ Len(es) = c /\ es = Made(r) /\ Made(r)' = Made(r)
    <3>1. r.op \in Creating /\ First(q) = FillOf(r) /\ r.n \in Nat
      BY <1>2, <1>4, <2>1, <2>9, AskedFor DEF Rest, Fills
    <3>2. CASE r.op \in {"construct", "from_host"}
      <4>1. es = Made(r) /\ \E e \in Int : es = Fill(r.n, e)
        <5>1. Head(todo[t]) = FillOf(r) /\ r.n = request[t].n /\ es = elements
          BY <1>2, <2>1, <3>1
        <5>2. CASE r.op = "construct"
          <6>1. Head(todo[t]) = "zero"
            BY <5>1, <5>2 DEF FillOf
          <6>2. elements = Fill(request[t].n, 0)
            BY <6>1 DEF elements
          <6>3. Made(r) = Fill(r.n, 0)
            BY <5>2 DEF Made
          <6> QED BY <5>1, <6>2, <6>3
        <5>3. CASE r.op = "from_host"
          <6>1. Head(todo[t]) = "copy host"
            BY <5>1, <5>3 DEF FillOf
          <6>2. elements = Fill(request[t].n, 1)
            BY <6>1 DEF elements
          <6>3. Made(r) = Fill(r.n, 1)
            BY <5>3 DEF Made
          <6> QED BY <5>1, <6>2, <6>3
        <5> QED BY <3>2, <5>2, <5>3
      <4>2. c = r.n
        BY <2>4, <3>1, <3>2 DEF Asked
      <4>3. Made(r)' = Made(r)
        BY <3>2 DEF Made, Fill
      <4> QED BY <3>1, <4>1, <4>2, <4>3, Filled
    <3>3. CASE r.op = "copy"
      <4>1. r.y # r.x
        BY <1>2, <2>1, <3>1, <3>3 DEF Asks
      <4>2. Exists(r.y) /\ Owned(r.y) = Buffer(r.y) /\ r.y \in Vectors
        BY <1>2, <2>1, <3>3, <4>1, OtherHolding
      <4>3. First(q) = "copy other"
        BY <3>1, <3>3 DEF FillOf
      <4>4. es = Contents(r.y) /\ Buffer(r.y) # nullptr
        BY <1>2, <1>7, <2>1, <2>7, <4>3 DEF elements, other, copies
      <4>5. /\ Contents(r.y) = Value(r.y) /\ Value(r.y) \in Seq(Int)
            /\ Len(Value(r.y)) = vec[r.y].size_
        BY <4>2, <4>4, Worth DEF Remembered, Buffer
      <4>6. c = vec[r.y].size_ /\ Made(r) = Value(r.y)
        BY <2>4, <3>1, <3>3 DEF Asked, Made
      <4>7. Value(r.y)' = Value(r.y)
        <5>1. Owned(r.y) # nullptr => Owned(r.y) \in DOMAIN heap /\ Owned(r.y) # new
          BY <2>1, <4>2 DEF Good, Held, Apart, Live
        <5>2. \A p \in DOMAIN heap : p # new => p \in DOMAIN heap' /\ mem'[p] = mem[p]
          BY <1>7, <2>1 DEF Written, Remembered, Stored
        <5>3. vec'[r.y] = vec[r.y]
          BY <1>7
        <5> QED BY <4>2, <5>1, <5>2, <5>3, WorthStays
      <4>8. Made(r)' = Made(r)
        BY <3>3, <4>7 DEF Made
      <4> QED BY <4>4, <4>5, <4>6, <4>8
    <3> QED BY <3>1, <3>2, <3>3 DEF Creating
  <2>10. mem' = [mem EXCEPT ![new] = Overwritten(mem[new], 0, es)]
    BY <1>7, <2>1 DEF Written, Overwritten
  <2>11. /\ es \in Seq(Int) /\ Len(es) \in Nat /\ Len(es) <= c
         /\ mem'[new] = Overwritten(mem[new], 0, es)
         /\ mem'[new] \in Seq(Int) /\ Len(mem'[new]) = c
         /\ Prefixed(Len(es), mem'[new]) = es
    <3>1. es \in Seq(Int) /\ Len(es) <= c /\ Len(es) \in Nat
      <4>1. es \in Seq(Int) /\ (Len(es) <= c \/ Len(es) = c)
        BY <2>8, <2>9
      <4>2. Len(es) \in Nat
        BY <4>1, LenProperties
      <4> QED BY <2>4, <4>1, <4>2
    <3>2. mem'[new] = Overwritten(mem[new], 0, es)
      BY <2>5, <2>10
    <3>3. /\ Overwritten(mem[new], 0, es) \in Seq(Int)
          /\ Len(Overwritten(mem[new], 0, es)) = Len(mem[new])
      BY <2>5, <3>1, Overwriting
    <3>4. Prefixed(Len(es), Overwritten(mem[new], 0, es)) = es
      BY <2>5, <3>1, Replacement
    <3> QED BY <2>5, <3>1, <3>2, <3>3, <3>4
  <2>12. Stored'
    <3>1. c = heap[new].size
      BY <2>1, <2>2, <2>3 DEF Good, Held
    <3> QED BY <1>7, <2>10, <2>11, <3>1 DEF Remembered, Stored
  <2>13. Untouched({new_data[t], Owned(request[t].x)})
    BY <1>7, <2>1, <2>10 DEF Untouched, Remembered, Stored
  <2>14. Remembers(r, Tail(q), new, w)'
    <3>1. CASE First(q) = "copy old"
      <4>1. First(Tail(q)) = "free" /\ Moved(Tail(q))
        BY <1>2, <2>1, <3>1, Follows DEF Moved
      <4>2. w # Lost => w = Prefixed(vec'[r.x].size_, mem'[new])
        BY <1>7, <2>8, <2>11, <3>1
      <4>3. vec'[r.x].data_ = nullptr /\ vec'[r.x].capacity_ > 0 => w = Lost
        BY <1>2, <1>3, <1>7, <2>1, <2>6, <3>1 DEF Remembers
      <4>4. r.op \in Operations /\ r.op \in Growing
        BY <1>2, <1>3, <2>1, <3>1
      <4> QED BY <4>1, <4>2, <4>3, <4>4, RemembersMoved
    <3>2. CASE First(q) # "copy old"
      <4>1. r.op \in Creating /\ w = Gone
        BY <1>2, <1>4, <2>1, <2>6, <3>2 DEF Remembers
      <4>2. r.op \notin Growing /\ r.op \notin Replacing
        BY <1>2, <2>1, <4>1, Kinds
      <4>3. mem'[new] = Made(r)'
        <5>1. Prefixed(Len(mem'[new]), mem'[new]) = mem'[new]
          BY <2>11, SubSeqFull DEF Prefixed
        <5> QED BY <2>9, <2>11, <3>2, <5>1
      <4> QED BY <4>1, <4>2, <4>3 DEF Remembers
    <3> QED BY <3>1, <3>2
  <2>15. \A r1, w1 : r1 = request[t] /\ w1 = was[r1.x] => Remembers(r1, Tail(q), new, w1)'
    BY <2>1, <2>14
  <2>16. /\ todo' = [todo EXCEPT ![t] = Tail(q)] /\ new_data' = [new_data EXCEPT ![t] = new]
         /\ \A u \in Threads \ {t} : sCurDevice'[u] = sCurDevice[u]
    BY <1>7, <2>1 DEF Continue, Good, Shapes
  <2> HIDE <2>1
  <2>17. Remembered' /\ Values' = Values
    BY <1>2, <1>7, <2>12, <2>13, <2>15, <2>16, Goes
  <2> QED BY <1>7, <2>17
<1> QED BY <1>5, <1>6, <1>7 DEF FillNew

-----------------------------------------------------------------------------
(* What a vector is worth after a step that gives it a new value v.         *)
LEMMA ValueNext ==
  ASSUME NEW x, NEW v, vec'[x] = v, v # Gone
  PROVE  /\ v.data_ = nullptr /\ v.capacity_ > 0 => Value(x)' = Lost
         /\ ~(v.data_ = nullptr /\ v.capacity_ > 0) /\ v.size_ = 0 => Value(x)' = <<>>
         /\ v.data_ # nullptr /\ v.data_ \in DOMAIN heap' =>
              Value(x)' = Prefixed(v.size_, mem'[v.data_])
<1>1. Value(x)' = IF v.data_ = nullptr /\ v.capacity_ > 0 THEN Lost
                  ELSE IF v.size_ = 0 THEN <<>>
                  ELSE IF v.data_ \in DOMAIN heap' THEN SubSeq(mem'[v.data_], 1, v.size_)
                  ELSE Lost
  BY DEF Value, Exists, Buffer, Live
<1>2. SubSeq(mem'[v.data_], 1, 0) = <<>>
  BY SubSeqEmpty
<1> QED BY <1>1, <1>2 DEF Prefixed

(* A growing vector, or one whose contents are replaced, gets its new block. *)
LEMMA AdoptGoes ==
  ASSUME Good, Remembered, NEW t \in Threads, Adopt(t)
  PROVE  Remembered' /\ Values' = Values
<1>1. At(t, "adopt") \/ At(t, "keep")
  BY DEF Adopt
<1>2. /\ Rest(request[t], todo[t]) /\ Running(t) /\ First(todo[t]) \in {"adopt", "keep"}
      /\ Asks(t, request[t]) /\ request[t].op \in Operations /\ request[t].x \in Vectors
      /\ Owner[request[t].x] = t /\ Room(request[t], todo[t])
      /\ new_data[t] # nullptr <=> HoldsNew(request[t], todo[t])
  BY <1>1, InCall
<1>3. PICK r, q, new, w, c : /\ r = request[t] /\ q = todo[t] /\ new = new_data[t]
                             /\ w = was[r.x] /\ c = new_capacity(t)
  OBVIOUS
<1>4. PICK v : v = [vec[r.x] EXCEPT !.data_ = new, !.capacity_ = c]
  OBVIOUS
<1>5. /\ vec' = [vec EXCEPT ![r.x] = v] /\ new_data' = [new_data EXCEPT ![t] = nullptr]
      /\ todo' = [todo EXCEPT ![t] = Tail(q)]
      /\ UNCHANGED <<heap, mem, sCurDevice, m_default_device, request, was, seen>>
  BY <1>3, <1>4 DEF Adopt, Continue, runtime, memory
<1>6. /\ r.op \in Growing \cup Replacing /\ r.op \notin Creating /\ r.op # "destroy"
      /\ new # nullptr /\ First(q) # "return"
      /\ r.op \in Growing => Moved(q)
  BY <1>2, <1>3, Kinds DEF Rest, HoldsNew, Moved
<1>7. /\ vec[r.x] \in [data_ : Bases \cup {nullptr}, size_ : Nat, capacity_ : Nat]
      /\ Exists(r.x) /\ DOMAIN vec = Vectors
  BY <1>2, <1>3, <1>6 DEF Good, Sound, Shapes, Asks
<1>8. v.data_ = new /\ v.size_ = vec[r.x].size_ /\ v.capacity_ = c
  BY <1>4, <1>7
<1>9. c \in Nat /\ c > 0 /\ vec'[r.x] = v /\ new \in DOMAIN heap
  <2>1. c \in Nat /\ c > 0
    BY <1>2, <1>3, <1>6, Enough DEF Good
  <2> QED BY <1>2, <1>3, <1>5, <1>6, <1>7, <2>1 DEF Good, Held, Live
<1>10. v # Gone
  <2>1. v \in [data_ : Bases \cup {nullptr}, size_ : Nat, capacity_ : Nat]
    <3>1. new \in Bases \cup {nullptr}
      BY <1>3 DEF Good, Shapes
    <3> QED BY <1>4, <1>7, <1>9, <3>1
  <2> QED BY <2>1, VectorAssumption
<1>11. Value(r.x)' = Prefixed(vec[r.x].size_, mem[new])
  <2>1. new \in DOMAIN heap' /\ mem' = mem
    BY <1>5, <1>9
  <2> QED BY <1>6, <1>8, <1>9, <1>10, <2>1, ValueNext
<1>12. Remembers(r, q, new, w)
  BY <1>2, <1>3 DEF Remembered, Past
<1>13. Tail(q) = Finish /\ First(Finish) = "return"
  <2>1. First(q) \in Fills \cup {"adopt", "keep"}
    BY <1>2, <1>3
  <2> QED BY <1>2, <1>3, <2>1, Moves, Rests
<1>14. r.op \in Growing /\ w # Lost => w = Value(r.x)'
  BY <1>6, <1>11, <1>12 DEF Remembers
<1>15. r.op \in Replacing => Asked(r)' # 0
  <2> SUFFICES ASSUME r.op \in Replacing PROVE Asked(r)' # 0
    OBVIOUS
  <2>1. Asked(r) \in Nat /\ Need(r) = Asked(r) /\ vec[r.x].capacity_ \in Nat
    BY <1>2, <1>3, <1>6, <1>7, Needs DEF Good
  <2>2. Need(r) > vec[r.x].capacity_
    BY <1>2, <1>3, <1>6 DEF Room
  <2>3. vec'[r.y].size_ = vec[r.y].size_
    BY <1>5, <1>7, <1>8
  <2>4. Asked(r)' = Asked(r)
    BY <2>3 DEF Asked
  <2> QED BY <2>1, <2>2, <2>4
<1>16. Remembers(r, Finish, nullptr, w)'
  <2>1. Moved(Finish)' = FALSE /\ First(Finish)' = "return"
    BY <1>13 DEF Moved, Backs, First, Finish
  <2> QED BY <1>6, <1>8, <1>9, <1>14, <1>15, <2>1 DEF Remembers
<1>17. Past(t)'
  <2>1. /\ request'[t] = r /\ todo'[t] = Finish /\ new_data'[t] = nullptr /\ was'[r.x] = w
    BY <1>3, <1>5, <1>13 DEF Good, Shapes
  <2> QED BY <1>16, <2>1 DEF Past
<1>18. Stored'
  BY <1>5 DEF Remembered, Stored
<1>19. Framed(t)
  <2>1. OnlyThread(t)
    BY <1>2, <1>3, <1>5, <1>7 DEF OnlyThread, Good, Shapes
  <2>2. /\ \A z \in Vectors : z # r.x => vec'[z] = vec[z]
        /\ \A p \in DOMAIN heap : p \in DOMAIN heap' /\ mem'[p] = mem[p]
    BY <1>5, <1>7
  <2> QED BY <1>2, <1>3, <1>5, <2>1, <2>2 DEF Framed
<1> QED BY <1>2, <1>5, <1>17, <1>18, <1>19, Unended

-----------------------------------------------------------------------------
(* A call that begins remembers the value of its vector.                    *)
LEMMA CallGoes ==
  ASSUME Good, Remembered, NEW t \in Threads, Call(t)
  PROVE  Remembered' /\ VV!Next
<1>1. PICK r \in Requests[t] :
        /\ Owner[r.x] = t /\ Owner[r.y] = t /\ Legal(r)
        /\ request' = [request EXCEPT ![t] = r]
        /\ todo' = [todo EXCEPT ![t] = Steps(r)]
        /\ was' = [was EXCEPT ![r.x] = Value(r.x)]
  BY DEF Call
<1>2. /\ UNCHANGED <<heap, mem, vec, new_data, sCurDevice, m_default_device>>
      /\ seen \subseteq seen' /\ request[t] = NoRequest /\ ~Running(t)
  BY DEF Call, runtime, memory, Running
<1>3. PICK s, w : s = Steps(r) /\ w = Value(r.x)
  OBVIOUS
<1>4. /\ r.op \in Operations /\ r.x \in Vectors /\ r.y \in Vectors /\ r # NoRequest
      /\ r.op \notin Creating <=> Exists(r.x)
  BY <1>1, VectorAssumption DEF Legal
<1>5. new_data[t] = nullptr
  BY <1>2 DEF Good, Local
<1>6. \A z : Value(z)' = Value(z)
  BY <1>2 DEF Value, Exists, Buffer, Live
<1>7. Exists(r.x) => Owned(r.x) = Buffer(r.x)
  BY <1>1, <1>2, <1>4, Holding
<1>8. First(s) \in {"return", "malloc", "free"} /\ (r.op \in Growing => ~Moved(s))
  <2>1. First(Finish) = "return" /\ First(Cons("malloc", Cons("track", AfterTrack(r)))) = "malloc"
    <3>1. First(Finish) = "return"
      BY <1>4, Rests
    <3>2. First(Cons("malloc", Cons("track", AfterTrack(r)))) = "malloc"
      BY DEF First, Cons
    <3> QED BY <3>1, <3>2
  <2>2. /\ First(AfterCopy(r)) = IF Buffer(r.x) # nullptr THEN "free" ELSE First(AfterFree(r))
        /\ First(AfterFree(r)) = IF r.op \in Growing THEN "adopt"
                                 ELSE IF r.op \in Replacing THEN "malloc" ELSE "return"
    BY <1>4, Rests
  <2>3. CASE r.op \in Growing
    <3>1. Steps(r) = Finish \/ Steps(r) = Cons("malloc", Cons("track", AfterTrack(r)))
      BY <1>4, <2>3, Begins
    <3> QED BY <1>3, <2>1, <3>1 DEF Moved, Backs
  <2>4. CASE r.op \notin Growing
    <3>1. r.op \in Creating \/ r.op \in Replacing \/ r.op = "destroy"
      BY <1>4, <2>4, Kinds
    <3>2. \/ Steps(r) = Finish \/ Steps(r) = Cons("malloc", Cons("track", AfterTrack(r)))
          \/ Steps(r) = AfterCopy(r)
      BY <1>4, <3>1, Begins
    <3> QED BY <1>3, <2>1, <2>2, <2>4, <3>2
  <2> QED BY <2>3, <2>4
<1>9. Exists(r.x) =>
        /\ vec[r.x].data_ = nullptr /\ vec[r.x].capacity_ > 0 => w = Lost
        /\ w # Lost /\ vec[r.x].capacity_ = 0 => w = <<>>
  <2> SUFFICES ASSUME Exists(r.x)
               PROVE  /\ vec[r.x].data_ = nullptr /\ vec[r.x].capacity_ > 0 => w = Lost
                      /\ w # Lost /\ vec[r.x].capacity_ = 0 => w = <<>>
    OBVIOUS
  <2>1. /\ vec[r.x].size_ \in Nat /\ vec[r.x].capacity_ \in Nat
        /\ vec[r.x].size_ <= vec[r.x].capacity_
    BY <1>4 DEF Good, Sound
  <2>2. vec[r.x].capacity_ = 0 => vec[r.x].size_ = 0 /\ ~(vec[r.x].capacity_ > 0)
    BY <2>1
  <2> QED BY <1>3, <2>2 DEF Value, Buffer
<1>10. Remembers(r, s, nullptr, w)'
  <2>1. r.op \in Creating => w = Gone
    BY <1>3, <1>4 DEF Value
  <2>2. Moved(s)' = Moved(s) /\ First(s)' = First(s) /\ Value(r.x)' = w
    BY <1>3, <1>6 DEF Moved, First
  <2>3. r.op \in Growing \cup Replacing => Exists(r.x)
    BY <1>4, Kinds
  <2> QED BY <1>2, <1>8, <1>9, <2>1, <2>2, <2>3 DEF Remembers
<1>11. Past(t)'
  <2>1. request'[t] = r /\ todo'[t] = s /\ new_data'[t] = nullptr /\ was'[r.x] = w
    BY <1>1, <1>2, <1>3, <1>4, <1>5 DEF Good, Shapes, Remembered, Stored
  <2> QED BY <1>10, <2>1 DEF Past
<1>12. Framed(t)
  <2>1. OnlyThread(t)
    BY <1>1, <1>2 DEF OnlyThread, Good, Shapes
  <2>2. \A z \in Vectors : Owner[z] # t => was'[z] = was[z]
    BY <1>1 DEF Remembered, Stored
  <2>3. \A p \in DOMAIN heap : p \in DOMAIN heap' /\ mem'[p] = mem[p]
    BY <1>2
  <2> QED BY <1>2, <2>1, <2>2, <2>3 DEF Framed
<1>13. Remembered'
  <2>1. \A u \in Threads \ {t} : Past(u)'
    BY <1>12, PastElsewhere DEF Remembered
  <2>2. Stored'
    BY <1>1, <1>2 DEF Remembered, Stored
  <2> QED BY <1>11, <2>1, <2>2 DEF Remembered
<1>14. Values' = Values
  <2>1. request'[t] = r /\ Running(t)' /\ was'[r.x] = Value(r.x)
    BY <1>1, <1>4 DEF Good, Shapes, Running, Remembered, Stored
  <2>2. \A z \in Vectors : z # r.x => ValueOf(z)' = ValueOf(z)
    BY <1>2, <1>12, <2>1, ValuesElsewhere
  <2>3. ValueOf(r.x)' = Value(r.x) /\ ValueOf(r.x) = Value(r.x)
    BY <1>1, <1>2, <2>1 DEF ValueOf
  <2> QED BY <2>2, <2>3, ValuesAre
<1>15. VV!Call(t)
  BY <1>1, <1>2, <1>14 DEF VV!Call
<1> QED BY <1>13, <1>15 DEF VV!Next

-----------------------------------------------------------------------------
(* A failed allocation: only the calls that have released their block lose anything. *)
LEMMA MallocFailsGoes ==
  ASSUME Good, Remembered, NEW t \in Threads, MallocFails(t)
  PROVE  Remembered' /\ VV!Next
<1>1. At(t, "malloc")
  BY DEF MallocFails
<1>2. /\ Rest(request[t], todo[t]) /\ Running(t) /\ First(todo[t]) = "malloc"
      /\ Within(t, request[t], todo[t], new_data[t])
      /\ Asks(t, request[t]) /\ request[t].op \in Operations /\ request[t].x \in Vectors
  BY <1>1, InCall
<1>3. End(t) /\ seen \subseteq seen' /\ UNCHANGED <<heap, mem, sCurDevice, m_default_device>>
  BY DEF MallocFails, runtime, memory
<1>4. request[t].op # "destroy" /\ ~Moved(todo[t])
  BY <1>2 DEF Rest, Moved, Backs
<1>5. CASE request[t].op \notin Replacing
  <2>1. vec' = vec
    BY <1>5 DEF MallocFails
  <2>2. request[t].op \in Creating \/ request[t].op \in Growing
    BY <1>2, <1>4, <1>5, Kinds
  <2> QED BY <1>2, <1>3, <1>4, <2>1, <2>2, Unharmed
<1>6. CASE request[t].op \in Replacing
  <2>1. PICK r, w, v : r = request[t] /\ w = was[r.x] /\ v = [vec[r.x] EXCEPT !.data_ = nullptr]
    OBVIOUS
  <2>2. vec' = [vec EXCEPT ![r.x] = v]
    BY <1>6, <2>1 DEF MallocFails
  <2>3. /\ Exists(r.x) /\ DOMAIN vec = Vectors
        /\ vec[r.x] \in [data_ : Bases \cup {nullptr}, size_ : Nat, capacity_ : Nat]
        /\ vec[r.x].size_ <= vec[r.x].capacity_
    <3>1. Exists(r.x)
      BY <1>2, <1>6, <2>1, Kinds DEF Asks
    <3> QED BY <1>2, <2>1, <3>1 DEF Good, Sound, Shapes
  <2>4. /\ v.data_ = nullptr /\ v.size_ = vec[r.x].size_ /\ v.capacity_ = vec[r.x].capacity_
        /\ v \in [data_ : Bases \cup {nullptr}, size_ : Nat, capacity_ : Nat]
    BY <2>1, <2>3
  <2>5. v # Gone /\ vec'[r.x] = v
    BY <1>2, <2>1, <2>2, <2>3, <2>4, VectorAssumption
  <2>6. vec[r.x].capacity_ > 0 => Value(r.x)' = Lost
    BY <2>4, <2>5, ValueNext
  <2>7. ASSUME vec[r.x].capacity_ = 0 PROVE Value(r.x)' = w \/ w = Lost
    <3>1. v.size_ = 0 /\ ~(v.capacity_ > 0)
      BY <2>3, <2>4, <2>7
    <3>2. Value(r.x)' = <<>>
      BY <2>4, <2>5, <3>1, ValueNext
    <3>3. Remembers(r, todo[t], new_data[t], w)
      BY <1>2, <2>1 DEF Remembered, Past
    <3>4. w # Lost => w = <<>>
      BY <1>2, <1>6, <2>1, <2>7, <3>3 DEF Remembers
    <3> QED BY <3>2, <3>4
  <2>8. vec[r.x].capacity_ > 0 \/ vec[r.x].capacity_ = 0
    BY <2>3
  <2>9. Framed(t) /\ Stored'
    <3>1. \A z \in Vectors : z # request[t].x => vec'[z] = vec[z]
      BY <2>1, <2>2, <2>3
    <3>2. Untouched({Owned(request[t].x)})
      BY <1>3 DEF Untouched, Remembered, Stored
    <3>3. Framed(t) /\ DOMAIN was' = Vectors
      BY <1>2, <1>3, <3>1, <3>2, EndFramed
    <3> QED BY <1>3, <3>3 DEF Remembered, Stored
  <2>10. \/ r.op # "destroy" /\ was[r.x] = Lost
         \/ Value(r.x)' = was[r.x]
         \/ r.op \in Replacing /\ Value(r.x)' = Lost
    BY <1>4, <1>6, <2>1, <2>6, <2>7, <2>8
  <2> QED BY <1>2, <1>3, <2>1, <2>9, <2>10, Ends
<1> QED BY <1>5, <1>6

(* What the calls are to do, one by one.                                    *)
LEMMA Effects ==
  ASSUME NEW r, NEW s, NEW o
  PROVE  /\ r.op = "construct" => VV!Effect(r, s, o) = Fill(r.n, 0)
         /\ r.op = "from_host" => VV!Effect(r, s, o) = Fill(r.n, 1)
         /\ r.op \in {"copy", "assign"} => VV!Effect(r, s, o) = o
         /\ r.op = "destroy" => VV!Effect(r, s, o) = Gone
         /\ r.op = "reserve" => VV!Effect(r, s, o) = s
         /\ r.op = "clear" => VV!Effect(r, s, o) = <<>>
         /\ r.op = "resize" =>
              VV!Effect(r, s, o) = IF r.n <= Len(s) THEN SubSeq(s, 1, r.n)
                                   ELSE s \o Fill(r.n - Len(s), 0)
         /\ r.op \in {"push_back", "push_host"} => VV!Effect(r, s, o) = s \o Fill(r.n, 1)
         /\ r.op = "push_vector" => VV!Effect(r, s, o) = s \o o
         /\ r.op = "set" => VV!Effect(r, s, o) = [s EXCEPT ![r.n] = 1]
         /\ r.op = "copy_from_host" =>
              VV!Effect(r, s, o) = IF r.n = 0 THEN s ELSE Fill(r.n, 1)
<1>1. \A n, e : VV!Fill(n, e) = Fill(n, e)
  BY DEF VV!Fill, Fill
<1> QED BY <1>1 DEF VV!Effect

(* A resize that makes its vector shorter.                                  *)
LEMMA EffectOfShorter ==
  ASSUME NEW r, NEW s, NEW o, r.op = "resize", r.n <= Len(s)
  PROVE  VV!Effect(r, s, o) = SubSeq(s, 1, r.n)
<1>1. r.op = "resize" => VV!Effect(r, s, o) = IF r.n <= Len(s) THEN SubSeq(s, 1, r.n)
                                              ELSE s \o Fill(r.n - Len(s), 0)
  BY Effects
<1> QED BY <1>1

(* And one that makes it longer.                                            *)
LEMMA EffectOfLonger ==
  ASSUME NEW r, NEW s, NEW o, r.op = "resize", ~(r.n <= Len(s))
  PROVE  VV!Effect(r, s, o) = s \o Fill(r.n - Len(s), 0)
<1>1. r.op = "resize" => VV!Effect(r, s, o) = IF r.n <= Len(s) THEN SubSeq(s, 1, r.n)
                                              ELSE s \o Fill(r.n - Len(s), 0)
  BY Effects
<1> QED BY <1>1

(* The value a copy, or a constructor, is to make.                          *)
LEMMA MadeRight ==
  ASSUME Good, Stored, NEW t \in Threads, Running(t), Asks(t, request[t]),
         NEW r, r = request[t], r.op \in Creating
  PROVE  /\ Made(r) = VV!Effect(r, was[r.x], Other(r))
         /\ \/ r.op = "copy" /\ Made(r) = Lost /\ Other(r) = Lost
            \/ Made(r) \in Seq(Int) /\ Len(Made(r)) = Asked(r)
<1>1. r.n \in Nat /\ r.y \in Vectors /\ r.op \in {"construct", "from_host", "copy"}
  BY AskedFor DEF Creating
<1>2. CASE r.op = "construct"
  <2>1. Made(r) = Fill(r.n, 0) /\ Asked(r) = r.n
    BY <1>2 DEF Made, Asked
  <2>2. Made(r) = VV!Effect(r, was[r.x], Other(r))
    BY <1>2, <2>1, Effects
  <2>3. Fill(r.n, 0) \in Seq(Int) /\ Len(Fill(r.n, 0)) = r.n
    BY <1>1, Zeros
  <2> QED BY <2>1, <2>2, <2>3
<1>3. CASE r.op = "from_host"
  <2>1. Made(r) = Fill(r.n, 1) /\ Asked(r) = r.n
    BY <1>3 DEF Made, Asked
  <2>2. Made(r) = VV!Effect(r, was[r.x], Other(r))
    BY <1>3, <2>1, Effects
  <2>3. Fill(r.n, 1) \in Seq(Int) /\ Len(Fill(r.n, 1)) = r.n
    BY <1>1, Ones
  <2> QED BY <2>1, <2>2, <2>3
<1>4. CASE r.op = "copy"
  <2>1. r.y # r.x
    BY <1>4 DEF Asks
  <2>2. Exists(r.y) /\ Owned(r.y) = Buffer(r.y)
    BY <1>4, <2>1, OtherHolding
  <2>3. Made(r) = Value(r.y) /\ Asked(r) = vec[r.y].size_ /\ Other(r) = Value(r.y)
    BY <1>4, <2>1 DEF Made, Asked, Other
  <2>4. Made(r) = VV!Effect(r, was[r.x], Other(r))
    BY <1>4, <2>3, Effects
  <2>5. \/ Value(r.y) = Lost
        \/ Value(r.y) \in Seq(Int) /\ Len(Value(r.y)) = vec[r.y].size_
    BY <1>1, <2>2, Worth
  <2> QED BY <1>4, <2>3, <2>4, <2>5
<1> QED BY <1>1, <1>2, <1>3, <1>4

(* A constructor has its vector, a destructor has removed it.               *)
LEMMA ReturnLifetimeGoes ==
  ASSUME Good, Remembered, NEW t \in Threads, ReturnLifetime(t)
  PROVE  Remembered' /\ VV!Next
<1>1. At(t, "return")
  BY DEF ReturnLifetime
<1>2. /\ Running(t) /\ First(todo[t]) = "return"
      /\ Within(t, request[t], todo[t], new_data[t])
      /\ Asks(t, request[t]) /\ request[t].op \in Operations /\ request[t].x \in Vectors
      /\ new_data[t] # nullptr <=> HoldsNew(request[t], todo[t])
  BY <1>1, InCall
<1>3. PICK r, q, w, new, c : /\ r = request[t] /\ q = todo[t] /\ w = was[r.x]
                             /\ new = new_data[t] /\ c = new_capacity(t)
  OBVIOUS
<1>4. PICK v : v = [data_ |-> new, size_ |-> c, capacity_ |-> c]
  OBVIOUS
<1>5. /\ End(t) /\ seen \subseteq seen' /\ UNCHANGED <<heap, mem, sCurDevice, m_default_device>>
      /\ r.op \in Creating \cup {"destroy"}
      /\ vec' = [vec EXCEPT ![r.x] = IF r.op = "destroy" THEN Gone ELSE v]
  BY <1>3, <1>4 DEF ReturnLifetime, runtime, memory
<1>6. Framed(t) /\ Stored' /\ vec'[r.x] = IF r.op = "destroy" THEN Gone ELSE v
  <2>1. DOMAIN vec = Vectors
    BY DEF Good, Shapes
  <2>2. \A z \in Vectors : z # request[t].x => vec'[z] = vec[z]
    BY <1>3, <1>5, <2>1
  <2>3. Untouched({Owned(request[t].x)})
    BY <1>5 DEF Untouched, Remembered, Stored
  <2>4. Framed(t) /\ DOMAIN was' = Vectors
    BY <1>2, <1>5, <2>2, <2>3, EndFramed
  <2> QED BY <1>2, <1>3, <1>5, <2>1, <2>4 DEF Remembered, Stored
<1>7. CASE r.op = "destroy"
  <2>1. Value(r.x)' = Gone
    BY <1>6, <1>7 DEF Value, Exists
  <2>2. VV!Effect(r, was[r.x], Other(r)) = Gone
    BY <1>7, Effects
  <2>3. Value(r.x)' = VV!Effect(r, was[r.x], Other(r))
    BY <2>1, <2>2
  <2> QED BY <1>2, <1>3, <1>5, <1>6, <2>3, Ends
<1>8. CASE r.op \in Creating
  <2>1. r.op # "destroy" /\ vec'[r.x] = v
    BY <1>2, <1>3, <1>6, <1>8, Kinds
  <2>2. c = Asked(r) /\ c \in Nat
    <3>1. new_capacity(t) = Asked(request[t])
      BY <1>3, <1>8 DEF new_capacity, Asked, Creating
    <3>2. Asked(r) \in Nat
      BY <1>2, <1>3, <1>8, <2>1, Needs DEF Good
    <3> QED BY <1>3, <3>1, <3>2
  <2>3. new # nullptr <=> c > 0
    BY <1>2, <1>3, <1>8, <2>2, Kinds DEF HoldsNew, Fills, Backs
  <2>4. v.data_ = new /\ v.size_ = c /\ v.capacity_ = c /\ v # Gone
    <3>1. new \in Bases \cup {nullptr}
      BY <1>3 DEF Good, Shapes
    <3>2. v \in [data_ : Bases \cup {nullptr}, size_ : Nat, capacity_ : Nat]
      BY <1>4, <2>2, <3>1
    <3> QED BY <1>4, <3>2, VectorAssumption
  <2>5. /\ Made(r) = VV!Effect(r, was[r.x], Other(r))
        /\ \/ r.op = "copy" /\ Made(r) = Lost /\ Other(r) = Lost
           \/ Made(r) \in Seq(Int) /\ Len(Made(r)) = Asked(r)
    BY <1>2, <1>3, <1>8, MadeRight DEF Remembered
  <2>6. ASSUME Made(r) \in Seq(Int), Len(Made(r)) = c, ~(r.op = "copy" /\ Made(r) = Lost)
        PROVE  Value(r.x)' = Made(r)
    <3>1. CASE c = 0
      <4>1. Made(r) = <<>>
        BY <2>6, <3>1, EmptySeq
      <4>2. Value(r.x)' = <<>>
        BY <2>1, <2>3, <2>4, <3>1, ValueNext
      <4> QED BY <4>1, <4>2
    <3>2. CASE c > 0
      <4>1. new \in DOMAIN heap /\ mem' = mem /\ heap' = heap
        BY <1>3, <1>5, <2>3, <3>2 DEF Good, Held, Live
      <4>2. Value(r.x)' = Prefixed(c, mem[new])
        BY <2>1, <2>3, <2>4, <3>2, <4>1, ValueNext
      <4>3. Remembers(r, q, new, w)
        BY <1>2, <1>3 DEF Remembered, Past
      <4>4. mem[new] = Made(r)
        BY <1>2, <1>3, <1>8, <2>3, <2>6, <3>2, <4>3 DEF Remembers
      <4>5. Prefixed(c, Made(r)) = Made(r)
        BY <2>6, SubSeqFull DEF Prefixed
      <4> QED BY <4>2, <4>4, <4>5
    <3> QED BY <2>2, <3>1, <3>2
  <2>7. \/ r.op # "destroy" /\ (was[r.x] = Lost \/ Other(r) = Lost)
        \/ Value(r.x)' = VV!Effect(r, was[r.x], Other(r))
    <3>1. CASE r.op = "copy" /\ Made(r) = Lost
      <4>1. VV!Effect(r, was[r.x], Other(r)) = Other(r)
        BY <3>1, Effects
      <4> QED BY <2>1, <2>5, <3>1, <4>1
    <3>2. CASE ~(r.op = "copy" /\ Made(r) = Lost)
      <4>1. Made(r) \in Seq(Int) /\ Len(Made(r)) = c
        BY <2>2, <2>5, <3>2
      <4>2. Value(r.x)' = Made(r)
        BY <2>6, <3>2, <4>1
      <4> QED BY <2>5, <4>2
    <3> QED BY <3>1, <3>2
  <2> QED BY <1>2, <1>3, <1>5, <1>6, <2>7, Ends
<1> QED BY <1>5, <1>7, <1>8

(* A vector that keeps its state.                                           *)
LEMMA Unmoved ==
  ASSUME NEW x, vec'[x] = vec[x], UNCHANGED <<heap, mem>>
  PROVE  Value(x)' = Value(x)
BY DEF Value, Exists, Buffer, Live

(* A call about to return, and what it remembers.                           *)
LEMMA AtReturn ==
  ASSUME Good, Remembered, NEW t \in Threads, At(t, "return"),
         NEW r, r = request[t], r.op \notin Creating \cup {"destroy"}
  PROVE  LET v == vec[r.x]
             b == Buffer(r.x)
             w == was[r.x]
         IN  /\ Running(t) /\ Asks(t, r) /\ r.op \in Growing \cup Replacing
             /\ r.x \in Vectors /\ r.y \in Vectors /\ r.n \in Nat
             /\ v \in [data_ : Bases \cup {nullptr}, size_ : Nat, capacity_ : Nat]
             /\ v.size_ <= v.capacity_ /\ Exists(r.x) /\ Owned(r.x) = b
             /\ new_size(r) \in Nat /\ new_size(r) <= v.capacity_
             /\ w # Lost /\ v.capacity_ > 0 => b # nullptr
             /\ b # nullptr => /\ b \in DOMAIN heap /\ mem[b] \in Seq(Int)
                               /\ Len(mem[b]) = v.capacity_ /\ heap[b].size = v.capacity_
             /\ w # Lost /\ (r.op \in Growing \/ Asked(r) = 0) =>
                  /\ w = Value(r.x) /\ w \in Seq(Int) /\ Len(w) = v.size_
                  /\ b # nullptr => w = Prefixed(v.size_, mem[b])
<1> DEFINE v == vec[r.x]
           b == Buffer(r.x)
<1>1. PICK w : w = was[r.x]
  OBVIOUS
<1>2. /\ Running(t) /\ First(todo[t]) = "return" /\ r.op \in Operations
      /\ Within(t, request[t], todo[t], new_data[t])
      /\ Asks(t, r) /\ r.x \in Vectors /\ r.y \in Vectors /\ Owner[r.x] = t
      /\ Room(r, todo[t])
  BY InCall
<1>3. r.op \in Growing \cup Replacing /\ r.n \in Nat /\ Exists(r.x)
  <2>1. r.op \in Growing \cup Replacing /\ Exists(r.x)
    BY <1>2, Kinds DEF Asks
  <2>2. r.n \in Nat
    BY <1>2, AskedFor
  <2> QED BY <2>1, <2>2
<1>4. Owned(r.x) = b
  <2>1. ~Moved(todo[t])
    BY <1>2 DEF Moved, Backs
  <2> QED BY <1>2, <1>3, <2>1, StillHolding
<1>5. /\ v \in [data_ : Bases \cup {nullptr}, size_ : Nat, capacity_ : Nat]
      /\ v.size_ <= v.capacity_ /\ (v.data_ # nullptr => v.capacity_ > 0)
  BY <1>2, <1>3 DEF Good, Sound
<1>6. new_size(r) \in Nat /\ new_size(r) <= v.capacity_
  <2>1. Need(r) <= v.capacity_
    BY <1>2, <1>3 DEF Room
  <2> QED BY <1>2, <1>3, <2>1, Fits DEF Good
<1>7. /\ v.data_ = nullptr /\ v.capacity_ = 0 => v.size_ = 0 /\ Value(r.x) = <<>>
      /\ v.data_ # nullptr =>
           /\ v.data_ \in DOMAIN heap /\ heap[v.data_].size = v.capacity_
           /\ mem[v.data_] \in Seq(Int) /\ Len(mem[v.data_]) = v.capacity_
           /\ Value(r.x) = Prefixed(v.size_, mem[v.data_])
      /\ ~(v.data_ = nullptr /\ v.capacity_ > 0) =>
           Value(r.x) \in Seq(Int) /\ Len(Value(r.x)) = v.size_
  BY <1>2, <1>3, <1>4, Worth DEF Remembered
<1>8. Remembers(r, todo[t], new_data[t], w)
  BY <1>1, <1>2 DEF Remembered, Past
<1>9. w # Lost => ~(v.data_ = nullptr /\ v.capacity_ > 0)
  BY <1>3, <1>8 DEF Remembers
<1>10. w # Lost /\ (r.op \in Growing \/ Asked(r) = 0) => w = Value(r.x)
  <2>1. ~Moved(todo[t])
    BY <1>2 DEF Moved, Backs
  <2> QED BY <1>2, <1>3, <1>8, <2>1 DEF Remembers
<1>11. b = v.data_
  BY DEF Buffer
<1> QED BY <1>1, <1>2, <1>3, <1>4, <1>5, <1>6, <1>7, <1>9, <1>10, <1>11

(* And the other vector of push_vector and operator=.                       *)
LEMMA FromOther ==
  ASSUME Good, Remembered, NEW t \in Threads, At(t, "return"),
         NEW r, r = request[t], r.op \in {"push_vector", "assign"}
  PROVE  /\ vec[r.y].size_ \in Nat
         /\ Buffer(r.y) # nullptr =>
              Contents(r.y) \in Seq(Int) /\ Len(Contents(r.y)) = vec[r.y].size_
         /\ was[r.x] # Lost /\ Other(r) # Lost =>
              /\ Contents(r.y) = Other(r) /\ Other(r) \in Seq(Int)
              /\ Len(Other(r)) = vec[r.y].size_
<1>1. r.op \notin Creating \cup {"destroy"}
  BY DEF Creating
<1>2. /\ Running(t) /\ Asks(t, r) /\ r.x \in Vectors /\ r.y \in Vectors
      /\ Exists(r.x) /\ Owned(r.x) = Buffer(r.x)
  BY <1>1, AtReturn
<1>3. Exists(r.y) /\ Owned(r.y) = Buffer(r.y)
  BY <1>2, OtherHolding
<1>4. /\ vec[r.y].size_ \in Nat
      /\ vec[r.y].data_ = nullptr /\ vec[r.y].capacity_ > 0 => Value(r.y) = Lost
      /\ ~(vec[r.y].data_ = nullptr /\ vec[r.y].capacity_ > 0) =>
           /\ Contents(r.y) = Value(r.y)
           /\ Value(r.y) \in Seq(Int) /\ Len(Value(r.y)) = vec[r.y].size_
  BY <1>2, <1>3, Worth DEF Remembered
<1>5. ASSUME was[r.x] # Lost, Other(r) # Lost
      PROVE  Other(r) = Value(r.y) /\ Value(r.y) # Lost
  <2>1. CASE r.y # r.x
    BY <1>5, <2>1 DEF Other
  <2>2. CASE r.y = r.x
    <3>1. r.op \in Growing
      BY <1>2, <2>2 DEF Asks, Growing
    <3>2. was[r.x] = Value(r.x)
      BY <1>1, <1>5, <3>1, AtReturn
    <3> QED BY <1>5, <2>2, <3>2 DEF Other
  <2> QED BY <2>1, <2>2
<1> QED BY <1>4, <1>5 DEF Buffer

\* What call r makes of its vector is what it should make of it, or nothing at all.
Agrees(r) ==
  \/ was[r.x] = Lost \/ Other(r) = Lost
  \/ Value(r.x)' = was[r.x]
  \/ Value(r.x)' = VV!Effect(r, was[r.x], Other(r))
  \/ r.op = "assign" /\ Other(r) # Lost /\ Len(Value(r.x)') = Len(Other(r))

(* The new size, when that is all.                                          *)
LEMMA SizeNext ==
  ASSUME Good, Remembered, NEW t \in Threads, At(t, "return"),
         NEW r, r = request[t], r.op \notin Creating \cup {"destroy"}, was[r.x] # Lost,
         vec' = [vec EXCEPT ![r.x].size_ = new_size(r)], heap' = heap
  PROVE  /\ new_size(r) = 0 => Value(r.x)' = <<>>
         /\ new_size(r) > 0 => Buffer(r.x) # nullptr
         /\ Buffer(r.x) # nullptr => Value(r.x)' = Prefixed(new_size(r), mem'[Buffer(r.x)])
<1>1. /\ r.x \in Vectors
      /\ vec[r.x] \in [data_ : Bases \cup {nullptr}, size_ : Nat, capacity_ : Nat]
      /\ new_size(r) \in Nat /\ new_size(r) <= vec[r.x].capacity_
      /\ vec[r.x].capacity_ > 0 => Buffer(r.x) # nullptr
      /\ Buffer(r.x) # nullptr => Buffer(r.x) \in DOMAIN heap
  BY AtReturn
<1>2. PICK v : v = [vec[r.x] EXCEPT !.size_ = new_size(r)]
  OBVIOUS
<1>3. /\ v.data_ = Buffer(r.x) /\ v.size_ = new_size(r) /\ v.capacity_ = vec[r.x].capacity_
      /\ v \in [data_ : Bases \cup {nullptr}, size_ : Nat, capacity_ : Nat]
  BY <1>1, <1>2 DEF Buffer
<1>4. v # Gone /\ vec'[r.x] = v
  BY <1>1, <1>2, <1>3, VectorAssumption DEF Good, Shapes
<1>5. ~(v.data_ = nullptr /\ v.capacity_ > 0)
  BY <1>1, <1>3
<1>6. /\ ~(v.data_ = nullptr /\ v.capacity_ > 0) /\ v.size_ = 0 => Value(r.x)' = <<>>
      /\ v.data_ # nullptr /\ v.data_ \in DOMAIN heap' =>
           Value(r.x)' = Prefixed(v.size_, mem'[v.data_])
  BY <1>4, ValueNext
<1>7. new_size(r) > 0 => vec[r.x].capacity_ > 0
  BY <1>1
<1> QED BY <1>1, <1>3, <1>5, <1>6, <1>7

(* A call with nothing to write.                                            *)
LEMMA NothingToWrite ==
  ASSUME Good, Remembered, NEW t \in Threads, At(t, "return"),
         NEW r, r = request[t], r.op \notin Creating \cup {"destroy"},
         Final(r).count = 0,
         vec' = [vec EXCEPT ![r.x].size_ = new_size(r)], UNCHANGED <<heap, mem>>
  PROVE  Agrees(r)
<1> SUFFICES ASSUME was[r.x] # Lost, Other(r) # Lost PROVE Agrees(r)
  BY DEF Agrees
<1>1. PICK w, o, size, b : w = was[r.x] /\ o = Other(r) /\ size = vec[r.x].size_ /\ b = Buffer(r.x)
  OBVIOUS
<1>2. /\ r.op \in Growing \cup Replacing /\ r.x \in Vectors /\ r.n \in Nat
      /\ vec[r.x] \in [data_ : Bases \cup {nullptr}, size_ : Nat, capacity_ : Nat]
      /\ size <= vec[r.x].capacity_ /\ new_size(r) \in Nat
      /\ b # nullptr => mem[b] \in Seq(Int) /\ Len(mem[b]) = vec[r.x].capacity_
      /\ r.op \in Growing \/ Asked(r) = 0 =>
           /\ w = Value(r.x) /\ w \in Seq(Int) /\ Len(w) = size
           /\ b # nullptr => w = Prefixed(size, mem[b])
  BY <1>1, AtReturn
<1>3. /\ new_size(r) = 0 => Value(r.x)' = <<>>
      /\ new_size(r) > 0 => b # nullptr
      /\ b # nullptr => Value(r.x)' = Prefixed(new_size(r), mem[b])
  BY <1>1, SizeNext
<1>4. ASSUME new_size(r) = size PROVE Value(r.x)' = Value(r.x)
  <2>1. vec'[r.x] = vec[r.x]
    BY <1>1, <1>2, <1>4 DEF Good, Shapes
  <2> QED BY <2>1, Unmoved
<1>5. CASE r.op \in {"reserve", "push_back", "push_host"}
  <2>1. new_size(r) = size
    <3>1. CASE r.op = "reserve"
      BY <1>1, <3>1 DEF new_size
    <3>2. CASE r.op \in {"push_back", "push_host"}
      <4>1. r.n = 0
        BY <3>2 DEF Final
      <4>2. new_size(r) = size + r.n
        BY <1>1, <3>2 DEF new_size
      <4>3. size \in Nat
        BY <1>1, <1>2
      <4> QED BY <4>1, <4>2, <4>3
    <3> QED BY <1>5, <3>1, <3>2
  <2>2. r.op \in Growing
    BY <1>5 DEF Growing
  <2> QED BY <1>1, <1>2, <1>4, <2>1, <2>2 DEF Agrees
<1>6. CASE r.op = "clear"
  <2>1. new_size(r) = 0
    BY <1>6 DEF new_size
  <2>2. VV!Effect(r, was[r.x], Other(r)) = <<>>
    BY <1>6, Effects
  <2> QED BY <1>3, <2>1, <2>2 DEF Agrees
<1>7. CASE r.op = "resize"
  <2>1. new_size(r) = r.n /\ r.n <= size /\ size \in Nat
    BY <1>1, <1>2, <1>7 DEF new_size, Final
  <2>2. r.op \in Growing
    BY <1>7 DEF Growing
  <2>3. VV!Effect(r, was[r.x], Other(r)) = Prefixed(r.n, w)
    <3>1. r.n <= Len(w)
      BY <1>2, <2>1, <2>2
    <3> QED BY <1>1, <1>7, <3>1, EffectOfShorter DEF Prefixed
  <2>4. CASE r.n = 0
    <3>1. Prefixed(0, w) = <<>>
      BY SubSeqEmpty DEF Prefixed
    <3> QED BY <1>3, <2>1, <2>3, <2>4, <3>1 DEF Agrees
  <2>5. CASE r.n > 0
    <3>1. b # nullptr /\ Value(r.x)' = Prefixed(r.n, mem[b])
      BY <1>3, <2>1, <2>5
    <3>2. Prefixed(r.n, Prefixed(size, mem[b])) = Prefixed(r.n, mem[b])
      <4>1. size \in 0 .. Len(mem[b]) /\ r.n \in 0 .. size
        BY <1>2, <2>1, <3>1
      <4> QED BY <1>2, <3>1, <4>1, Shortening
    <3> QED BY <1>2, <2>2, <2>3, <3>1, <3>2 DEF Agrees
  <2> QED BY <1>2, <2>4, <2>5
<1>8. CASE r.op \in {"push_vector", "assign"}
  <2>1. vec[r.y].size_ = 0 /\ vec[r.y].size_ \in Nat
    BY <1>8, FromOther DEF Final
  <2>2. CASE r.op = "push_vector"
    <3>1. new_size(r) = size /\ r.op \in Growing
      BY <1>1, <1>2, <2>1, <2>2 DEF new_size, Growing
    <3> QED BY <1>1, <1>2, <1>4, <3>1 DEF Agrees
  <2>3. CASE r.op = "assign"
    <3>1. new_size(r) = 0
      BY <2>1, <2>3 DEF new_size
    <3>2. o \in Seq(Int) /\ Len(o) = 0
      BY <1>1, <1>8, <2>1, FromOther
    <3>3. o = <<>>
      BY <3>2, EmptySeq
    <3>4. VV!Effect(r, was[r.x], Other(r)) = o
      BY <1>1, <2>3, Effects
    <3> QED BY <1>3, <3>1, <3>3, <3>4 DEF Agrees
  <2> QED BY <1>8, <2>2, <2>3
<1>9. CASE r.op = "copy_from_host"
  <2>1. new_size(r) = size /\ Asked(r) = 0
    BY <1>1, <1>9 DEF new_size, Final, Asked
  <2> QED BY <1>1, <1>2, <1>4, <2>1 DEF Agrees
<1>10. r.op # "set"
  BY DEF Final
<1> QED BY <1>2, <1>5, <1>6, <1>7, <1>8, <1>9, <1>10 DEF Growing, Replacing

(* A call whose copy is refused.                                            *)
LEMMA Refused ==
  ASSUME Good, Remembered, NEW t \in Threads, At(t, "return"),
         NEW r, r = request[t], r.op \notin Creating \cup {"destroy"},
         NEW to, ~final_allowed(t, to),
         vec' = IF r.op = "assign" THEN [vec EXCEPT ![r.x].size_ = new_size(r)] ELSE vec,
         UNCHANGED <<heap, mem>>
  PROVE  Agrees(r)
<1> SUFFICES ASSUME was[r.x] # Lost, Other(r) # Lost PROVE Agrees(r)
  BY DEF Agrees
<1>1. r.op \in {"resize", "push_back", "push_vector", "assign"}
  BY DEF final_allowed
<1>2. CASE r.op # "assign"
  <2>1. was[r.x] = Value(r.x)
    <3>1. r.op \in Growing
      BY <1>1, <1>2 DEF Growing
    <3> QED BY <3>1, AtReturn
  <2>2. Value(r.x)' = Value(r.x)
    BY <1>2, Unmoved
  <2> QED BY <2>1, <2>2 DEF Agrees
<1>3. CASE r.op = "assign"
  <2>1. PICK b, n : b = Buffer(r.x) /\ n = new_size(r)
    OBVIOUS
  <2>2. /\ n = 0 => Value(r.x)' = <<>>
        /\ n > 0 => b # nullptr
        /\ b # nullptr => Value(r.x)' = Prefixed(n, mem[b])
    BY <1>3, <2>1, SizeNext
  <2>3. /\ n \in Nat /\ n <= vec[r.x].capacity_
        /\ b # nullptr => mem[b] \in Seq(Int) /\ Len(mem[b]) = vec[r.x].capacity_
    BY <2>1, AtReturn
  <2>4. Len(Other(r)) = n
    <3>1. Len(Other(r)) = vec[r.y].size_
      BY <1>3, FromOther
    <3> QED BY <1>3, <2>1, <3>1 DEF new_size
  <2>5. Len(Value(r.x)') = n
    <3>1. CASE n = 0
      BY <2>2, <3>1, EmptySeq
    <3>2. CASE n > 0
      <4>1. n \in 0 .. Len(mem[b]) /\ mem[b] \in Seq(Int)
        BY <2>2, <2>3, <3>2
      <4>2. Len(Prefixed(n, mem[b])) = n
        BY <4>1, Prefix
      <4> QED BY <2>2, <3>2, <4>2
    <3> QED BY <2>3, <3>1, <3>2
  <2> QED BY <1>3, <2>4, <2>5 DEF Agrees
<1> QED BY <1>2, <1>3

(* What a call writes fits behind the elements it keeps.                    *)
LEMMA ToWrite ==
  ASSUME Good, Remembered, NEW t \in Threads, At(t, "return"),
         NEW r, r = request[t], r.op \notin Creating \cup {"destroy"},
         Final(r).count > 0, Accessible(t, Buffer(r.x)),
         r.op \in {"push_vector", "assign"} => Accessible(t, Buffer(r.y)),
         NEW es, es = IF r.op \in {"push_vector", "assign"} THEN Contents(r.y)
                      ELSE Fill(Final(r).count, Final(r).element)
  PROVE  LET size == vec[r.x].size_
             f == Final(r)
         IN  /\ es \in Seq(Int) /\ Len(es) = f.count /\ f.count \in Nat /\ f.behind \in Nat
             /\ r.op \in {"resize", "push_back", "push_host", "push_vector"} =>
                  f.behind = size /\ new_size(r) = size + f.count
             /\ r.op \in {"copy_from_host", "assign"} =>
                  f.behind = 0 /\ new_size(r) = f.count
             /\ r.op = "set" =>
                  f.behind = r.n - 1 /\ es = Fill(1, 1) /\ new_size(r) = size /\ r.n \in 1 .. size
             /\ r.op = "resize" => r.n > size /\ es = Fill(r.n - size, 0)
             /\ r.op \in {"push_back", "push_host", "copy_from_host"} => es = Fill(r.n, 1) /\ r.n > 0
             /\ r.op \in {"resize", "push_back", "push_host", "push_vector", "copy_from_host",
                          "assign", "set"}
<1>1. PICK f, size : f = Final(r) /\ size = vec[r.x].size_
  OBVIOUS
<1>2. /\ r.op \in Growing \cup Replacing /\ r.n \in Nat /\ size \in Nat /\ Asks(t, r)
  BY <1>1, AtReturn
<1>3. r.op \notin {"reserve", "clear"}
  BY DEF Final
<1>4. CASE r.op = "resize"
  <2>1. /\ r.n > size /\ f = [behind |-> size, count |-> r.n - size, element |-> 0]
        /\ new_size(r) = r.n
    BY <1>1, <1>4 DEF Final, new_size
  <2>2. r.n - size \in Nat /\ 0 \in Int
    BY <1>2, <2>1
  <2>3. es = Fill(r.n - size, 0)
    BY <1>1, <1>4, <2>1
  <2>4. es \in Seq(Int) /\ Len(es) = r.n - size
    BY <2>2, <2>3, Zeros
  <2>5. size + (r.n - size) = r.n /\ size \in Nat
    BY <1>2
  <2>6. f.behind = size /\ f.count = r.n - size /\ new_size(r) = size + f.count
    BY <2>1, <2>5
  <2> QED BY <1>1, <1>4, <2>1, <2>2, <2>3, <2>4, <2>5, <2>6
<1>5. CASE r.op \in {"push_back", "push_host"}
  <2>1. f = [behind |-> size, count |-> r.n, element |-> 1] /\ new_size(r) = size + r.n
    BY <1>1, <1>5 DEF Final, new_size
  <2>2. es = Fill(r.n, 1) /\ 1 \in Int
    BY <1>1, <1>5, <2>1
  <2>3. es \in Seq(Int) /\ Len(es) = r.n
    BY <1>2, <2>2, Ones
  <2> QED BY <1>1, <1>2, <1>5, <2>1, <2>2, <2>3
<1>6. CASE r.op = "set"
  <2>1. /\ f = [behind |-> r.n - 1, count |-> 1, element |-> 1] /\ new_size(r) = size
        /\ r.n \in 1 .. size
    BY <1>1, <1>2, <1>6 DEF Final, new_size, Asks
  <2>2. es = Fill(1, 1) /\ 1 \in Int /\ 1 \in Nat /\ r.n - 1 \in Nat
    BY <1>1, <1>2, <1>6, <2>1
  <2>3. Fill(1, 1) \in Seq(Int) /\ Len(Fill(1, 1)) = 1
    BY SingleOne
  <2> QED BY <1>1, <1>6, <2>1, <2>2, <2>3
<1>7. CASE r.op = "copy_from_host"
  <2>1. f = [behind |-> 0, count |-> r.n, element |-> 1] /\ r.n > 0 /\ new_size(r) = r.n
    BY <1>1, <1>2, <1>7 DEF Final, new_size
  <2>2. es = Fill(r.n, 1) /\ 1 \in Int /\ 0 \in Nat
    BY <1>1, <1>7, <2>1
  <2>3. es \in Seq(Int) /\ Len(es) = r.n
    BY <1>2, <2>2, Ones
  <2> QED BY <1>1, <1>2, <1>7, <2>1, <2>2, <2>3
<1>8. CASE r.op \in {"push_vector", "assign"}
  <2>1. Buffer(r.y) # nullptr
    BY <1>8, BlocksAreSomewhere DEF Accessible, Live, Good, Shapes
  <2>2. /\ es = Contents(r.y) /\ es \in Seq(Int) /\ Len(es) = vec[r.y].size_
        /\ vec[r.y].size_ \in Nat
    BY <1>8, <2>1, FromOther
  <2>3. f.count = vec[r.y].size_ /\ f.behind = IF r.op = "assign" THEN 0 ELSE size
    BY <1>1, <1>8 DEF Final
  <2>4. new_size(r) = IF r.op = "assign" THEN vec[r.y].size_ ELSE size + vec[r.y].size_
    BY <1>1, <1>8 DEF new_size
  <2> QED BY <1>1, <1>2, <1>8, <2>2, <2>3, <2>4
<1> QED BY <1>2, <1>3, <1>4, <1>5, <1>6, <1>7, <1>8 DEF Growing, Replacing

(* A call that writes.                                                      *)
LEMMA Writes ==
  ASSUME Good, Remembered, NEW t \in Threads, At(t, "return"),
         NEW r, r = request[t], r.op \notin Creating \cup {"destroy"},
         Final(r).count > 0, Accessible(t, Buffer(r.x)),
         r.op \in {"push_vector", "assign"} => Accessible(t, Buffer(r.y)),
         mem' = Written(Buffer(r.x), Final(r).behind,
                        IF r.op \in {"push_vector", "assign"} THEN Contents(r.y)
                        ELSE Fill(Final(r).count, Final(r).element)),
         vec' = [vec EXCEPT ![r.x].size_ = new_size(r)], heap' = heap
  PROVE  /\ DOMAIN mem' = DOMAIN heap' /\ Untouched({Buffer(r.x)})
         /\ \A p \in DOMAIN heap' : mem'[p] \in Seq(Int) /\ Len(mem'[p]) = heap'[p].size
         /\ Agrees(r)
<1>1. PICK b, m, size, n, k, es :
        /\ b = Buffer(r.x) /\ m = mem[b] /\ size = vec[r.x].size_ /\ n = new_size(r)
        /\ k = Final(r).behind
        /\ es = IF r.op \in {"push_vector", "assign"} THEN Contents(r.y)
                ELSE Fill(Final(r).count, Final(r).element)
  OBVIOUS
<1>2. /\ es \in Seq(Int) /\ Len(es) = Final(r).count /\ Len(es) \in Nat /\ Len(es) > 0 /\ k \in Nat
      /\ r.op \in {"resize", "push_back", "push_host", "push_vector"} =>
           k = size /\ n = size + Len(es)
      /\ r.op \in {"copy_from_host", "assign"} => k = 0 /\ n = Len(es)
      /\ r.op = "set" => k = r.n - 1 /\ es = Fill(1, 1) /\ n = size /\ r.n \in 1 .. size
      /\ r.op = "resize" => r.n > size /\ es = Fill(r.n - size, 0)
      /\ r.op \in {"push_back", "push_host", "copy_from_host"} => es = Fill(r.n, 1) /\ r.n > 0
      /\ r.op \in {"resize", "push_back", "push_host", "push_vector", "copy_from_host",
                   "assign", "set"}
  BY <1>1, ToWrite
<1>3. b # nullptr /\ b \in DOMAIN heap
  BY <1>1, BlocksAreSomewhere DEF Accessible, Live, Good, Shapes
<1>4. /\ m \in Seq(Int) /\ Len(m) = vec[r.x].capacity_ /\ heap[b].size = vec[r.x].capacity_
      /\ size \in Nat /\ size <= Len(m) /\ n \in Nat /\ n <= Len(m) /\ r.n \in Nat
      /\ r.op \in Growing \/ Asked(r) = 0 =>
           (was[r.x] # Lost => was[r.x] = Prefixed(size, m) /\ Len(was[r.x]) = size)
  BY <1>1, <1>3, AtReturn
<1>5. mem' = [mem EXCEPT ![b] = Overwritten(m, k, es)]
  BY <1>1 DEF Written, Overwritten
<1>6. Overwritten(m, k, es) \in Seq(Int) /\ Len(Overwritten(m, k, es)) = Len(m)
  BY <1>2, <1>4, Overwriting
<1>7. /\ DOMAIN mem' = DOMAIN heap' /\ Untouched({b})
      /\ \A p \in DOMAIN heap' : mem'[p] \in Seq(Int) /\ Len(mem'[p]) = heap'[p].size
      /\ mem'[b] = Overwritten(m, k, es)
  <2>1. Stored /\ b \in DOMAIN mem
    BY <1>3 DEF Remembered, Stored
  <2>2. /\ DOMAIN mem' = DOMAIN heap' /\ mem'[b] = Overwritten(m, k, es)
        /\ \A p \in DOMAIN heap : p # b => mem'[p] = mem[p]
    BY <1>5, <2>1 DEF Stored
  <2>3. \A p \in DOMAIN heap' : mem'[p] \in Seq(Int) /\ Len(mem'[p]) = heap'[p].size
    <3>1. \A p \in DOMAIN heap : mem[p] \in Seq(Int) /\ Len(mem[p]) = heap[p].size
      BY <2>1 DEF Stored
    <3>2. mem'[b] \in Seq(Int) /\ Len(mem'[b]) = heap[b].size
      BY <1>4, <1>6, <2>2
    <3> QED BY <2>2, <3>1, <3>2
  <2> QED BY <2>2, <2>3 DEF Untouched
<1>8. ASSUME was[r.x] # Lost, Other(r) # Lost PROVE Agrees(r)
  <2>1. PICK w, o : w = was[r.x] /\ o = Other(r)
    OBVIOUS
  <2>2. Value(r.x)' = Prefixed(n, Overwritten(m, k, es))
    <3>1. Value(r.x)' = Prefixed(new_size(r), mem'[Buffer(r.x)])
      <4>1. Buffer(r.x) # nullptr
        BY <1>1, <1>3
      <4> QED BY <1>8, <4>1, SizeNext
    <3> QED BY <1>1, <1>7, <3>1
  <2>3. CASE r.op \in {"resize", "push_back", "push_host", "push_vector"}
    <3>1. k + Len(es) = n /\ k = size
      BY <1>2, <1>4, <2>3
    <3>2. Prefixed(n, Overwritten(m, k, es)) = Prefixed(size, m) \o es
      <4>1. k + Len(es) <= Len(m)
        BY <1>4, <3>1
      <4>2. Prefixed(k + Len(es), Overwritten(m, k, es)) = Prefixed(k, m) \o es
        BY <1>2, <1>4, <4>1, Appending
      <4> QED BY <3>1, <4>2
    <3>3. w = Prefixed(size, m) /\ Len(w) = size
      BY <1>4, <1>8, <2>1, <2>3 DEF Growing
    <3>4. VV!Effect(r, w, o) = w \o es
      <4>1. CASE r.op = "resize"
        <5>1. ~(r.n <= Len(w))
          BY <1>2, <1>4, <3>3, <4>1
        <5>2. es = Fill(r.n - Len(w), 0)
          BY <1>2, <3>3, <4>1
        <5>3. VV!Effect(r, w, o) = w \o Fill(r.n - Len(w), 0)
          BY <4>1, <5>1, EffectOfLonger
        <5> QED BY <5>2, <5>3
      <4>2. CASE r.op \in {"push_back", "push_host"}
        <5>1. es = Fill(r.n, 1)
          BY <1>2, <4>2
        <5> QED BY <4>2, <5>1, Effects
      <4>3. CASE r.op = "push_vector"
        <5>1. es = o
          BY <1>1, <1>8, <2>1, <4>3, FromOther
        <5> QED BY <4>3, <5>1, Effects
      <4> QED BY <2>3, <4>1, <4>2, <4>3
    <3> QED BY <2>1, <2>2, <3>2, <3>3, <3>4 DEF Agrees
  <2>4. CASE r.op = "set"
    <3>1. w = Prefixed(size, m)
      BY <1>4, <1>8, <2>1, <2>4 DEF Growing
    <3>2. size \in 0 .. Len(m) /\ r.n \in 1 .. size /\ k = r.n - 1 /\ es = Fill(1, 1) /\ n = size
      BY <1>2, <1>4, <2>4
    <3>3. Prefixed(size, Overwritten(m, r.n - 1, Fill(1, 1)))
            = [Prefixed(size, m) EXCEPT ![r.n] = 1]
      BY <1>4, <3>2, Setting
    <3>4. VV!Effect(r, w, o) = [w EXCEPT ![r.n] = 1]
      BY <2>4, Effects
    <3>5. Value(r.x)' = VV!Effect(r, w, o)
      BY <2>2, <3>1, <3>2, <3>3, <3>4
    <3> QED BY <2>1, <3>5 DEF Agrees
  <2>5. CASE r.op \in {"copy_from_host", "assign"}
    <3>1. k = 0 /\ n = Len(es)
      BY <1>2, <2>5
    <3>2. Prefixed(Len(es), Overwritten(m, 0, es)) = es
      BY <1>2, <1>4, <3>1, Replacement
    <3>3. VV!Effect(r, w, o) = es
      <4>1. CASE r.op = "copy_from_host"
        <5>1. es = Fill(r.n, 1) /\ r.n # 0
          BY <1>2, <1>4, <4>1
        <5> QED BY <4>1, <5>1, Effects
      <4>2. CASE r.op = "assign"
        <5>1. es = o
          BY <1>1, <1>8, <2>1, <4>2, FromOther
        <5> QED BY <4>2, <5>1, Effects
      <4> QED BY <2>5, <4>1, <4>2
    <3>4. Value(r.x)' = VV!Effect(r, w, o)
      BY <2>2, <3>1, <3>2, <3>3
    <3> QED BY <2>1, <3>4 DEF Agrees
  <2> QED BY <1>2, <2>3, <2>4, <2>5
<1>9. Agrees(r)
  BY <1>8 DEF Agrees
<1> QED BY <1>1, <1>7, <1>9

(* A call that makes of its vector what it should, and is over.             *)
LEMMA AgreeingEnds ==
  ASSUME Good, Remembered, NEW t \in Threads, At(t, "return"),
         NEW r, r = request[t], r.op \notin Creating \cup {"destroy"}, Agrees(r), End(t),
         UNCHANGED <<heap, sCurDevice, m_default_device, seen>>,
         \A z \in Vectors : z # r.x => vec'[z] = vec[z],
         DOMAIN mem' = DOMAIN heap', Untouched({Buffer(r.x)}),
         \A p \in DOMAIN heap' : mem'[p] \in Seq(Int) /\ Len(mem'[p]) = heap'[p].size
  PROVE  Remembered' /\ VV!Next
<1>1. Running(t) /\ Asks(t, request[t]) /\ Owned(r.x) = Buffer(r.x)
  BY AtReturn
<1>2. Untouched({Owned(request[t].x)})
  BY <1>1
<1>3. Framed(t) /\ DOMAIN was' = Vectors
  BY <1>1, <1>2, EndFramed
<1>4. Stored'
  BY <1>3 DEF Stored
<1>5. r.op # "destroy"
  OBVIOUS
<1>6. \/ r.op # "destroy" /\ (was[r.x] = Lost \/ Other(r) = Lost)
      \/ Value(r.x)' = was[r.x]
      \/ Value(r.x)' = VV!Effect(r, was[r.x], Other(r))
      \/ r.op \in Replacing /\ Value(r.x)' = Lost
      \/ r.op = "assign" /\ Other(r) # Lost /\ Len(Value(r.x)') = Len(Other(r))
  BY <1>5 DEF Agrees
<1> QED BY <1>1, <1>3, <1>4, <1>6, Ends

(* And one that leaves every block as it is.                                *)
LEMMA AgreeingInPlace ==
  ASSUME Good, Remembered, NEW t \in Threads, At(t, "return"),
         NEW r, r = request[t], r.op \notin Creating \cup {"destroy"}, Agrees(r), End(t),
         UNCHANGED <<heap, mem, sCurDevice, m_default_device, seen>>,
         \A z \in Vectors : z # r.x => vec'[z] = vec[z]
  PROVE  Remembered' /\ VV!Next
<1>1. /\ DOMAIN mem' = DOMAIN heap' /\ Untouched({Buffer(r.x)})
      /\ \A p \in DOMAIN heap' : mem'[p] \in Seq(Int) /\ Len(mem'[p]) = heap'[p].size
  BY DEF Remembered, Stored, Untouched
<1> QED BY <1>1, AgreeingEnds

(* The other calls return.                                                  *)
LEMMA ReturnGoes ==
  ASSUME Good, Remembered, NEW t \in Threads, Return(t)
  PROVE  Remembered' /\ (VV!Next \/ UNCHANGED <<Values, request>>)
<1>1. PICK r, resized, to, from_other :
        /\ r = request[t] /\ resized = [vec EXCEPT ![r.x].size_ = new_size(r)]
        /\ to = Buffer(r.x) + Final(r).behind
        /\ from_other = (r.op \in {"push_vector", "assign"})
  OBVIOUS
<1>2. At(t, "return") /\ r.op \notin Creating \cup {"destroy"}
  BY <1>1 DEF Return
<1>3. \A z \in Vectors : z # r.x => resized[z] = vec[z]
  BY <1>1 DEF Good, Shapes
<1>4. CASE /\ Final(r).count = 0 /\ vec' = resized /\ End(t)
           /\ UNCHANGED <<runtime, outcome, seen>>
  <2>1. UNCHANGED <<heap, mem, sCurDevice, m_default_device, seen>>
    BY <1>4 DEF runtime, memory
  <2>2. Agrees(r)
    BY <1>1, <1>2, <1>4, <2>1, NothingToWrite
  <2> QED BY <1>1, <1>2, <1>3, <1>4, <2>1, <2>2, AgreeingInPlace
<1>5. CASE /\ ~final_allowed(t, to)
           /\ vec' = IF r.op = "assign" THEN resized ELSE vec
           /\ End(t) /\ UNCHANGED <<runtime, outcome, seen>>
  <2>1. UNCHANGED <<heap, mem, sCurDevice, m_default_device, seen>>
    BY <1>5 DEF runtime, memory
  <2>2. Agrees(r)
    BY <1>1, <1>2, <1>5, <2>1, Refused
  <2>3. \A z \in Vectors : z # r.x => vec'[z] = vec[z]
    BY <1>3, <1>5
  <2> QED BY <1>1, <1>2, <1>5, <2>1, <2>2, <2>3, AgreeingInPlace
<1>6. CASE Undefined
  <2>1. UNCHANGED <<heap, mem, vec, request, todo, new_data, was>>
    BY <1>6 DEF Undefined, runtime, memory
  <2> QED BY <2>1, NothingHappens
<1>7. CASE /\ Final(r).count > 0 /\ Accessible(t, Buffer(r.x))
           /\ from_other => Accessible(t, Buffer(r.y))
           /\ mem' = Written(Buffer(r.x), Final(r).behind,
                             IF from_other THEN Contents(r.y)
                             ELSE Fill(Final(r).count, Final(r).element))
           /\ vec' = resized /\ End(t)
           /\ UNCHANGED <<heap, allocations_, sCurDevice, m_default_device, outcome, seen>>
  <2>1. /\ DOMAIN mem' = DOMAIN heap' /\ Untouched({Buffer(r.x)}) /\ Agrees(r)
        /\ \A p \in DOMAIN heap' : mem'[p] \in Seq(Int) /\ Len(mem'[p]) = heap'[p].size
    BY <1>1, <1>2, <1>7, Writes
  <2>2. \A z \in Vectors : z # r.x => vec'[z] = vec[z]
    BY <1>3, <1>7
  <2> QED BY <1>1, <1>2, <1>7, <2>1, <2>2, AgreeingEnds
<1>8. \/ Final(r).count = 0 /\ vec' = resized /\ End(t) /\ UNCHANGED <<runtime, outcome, seen>>
      \/ /\ ~final_allowed(t, to)
         /\ vec' = IF r.op = "assign" THEN resized ELSE vec
         /\ End(t) /\ UNCHANGED <<runtime, outcome, seen>>
      \/ Undefined
      \/ /\ Final(r).count > 0 /\ Accessible(t, Buffer(r.x))
         /\ from_other => Accessible(t, Buffer(r.y))
         /\ mem' = Written(Buffer(r.x), Final(r).behind,
                           IF from_other THEN Contents(r.y)
                           ELSE Fill(Final(r).count, Final(r).element))
         /\ vec' = resized /\ End(t)
         /\ UNCHANGED <<heap, allocations_, sCurDevice, m_default_device, outcome, seen>>
  BY <1>1, Zenon DEF Return
<1> QED BY <1>4, <1>5, <1>6, <1>7, <1>8

-----------------------------------------------------------------------------
(* The refinement.                                                          *)

(* Every step remembers, and is one of VectorValues or none.                *)
LEMMA StepGoes ==
  ASSUME Good, Remembered, [Next]_vars
  PROVE  Remembered' /\ (VV!Next \/ UNCHANGED <<Values, request>>)
<1>1. CASE UNCHANGED vars
  <2>1. UNCHANGED <<heap, mem, vec, request, todo, new_data, was>>
    BY <1>1 DEF vars, runtime, memory
  <2> QED BY <2>1, NothingHappens
<1>2. ASSUME NEW t \in Threads,
             \/ Call(t) \/ SetDevice(t) \/ Malloc(t) \/ MallocFails(t) \/ Track(t)
             \/ Free(t) \/ FreeMemory(t) \/ Untrack(t) \/ SwitchBack(t)
             \/ FillNew(t) \/ Adopt(t) \/ ReturnLifetime(t) \/ Return(t)
      PROVE  Remembered' /\ (VV!Next \/ UNCHANGED <<Values, request>>)
  <2>1. CASE Call(t) \/ MallocFails(t) \/ ReturnLifetime(t)
    BY <2>1, CallGoes, MallocFailsGoes, ReturnLifetimeGoes
  <2>2. CASE FillNew(t) \/ Return(t)
    BY <2>2, FillNewGoes, ReturnGoes
  <2>3. CASE SetDevice(t)
    <3>1. UNCHANGED <<heap, mem, vec, request, todo, new_data, was>>
      BY <2>3 DEF SetDevice, memory
    <3> QED BY <3>1, NothingHappens
  <2>4. CASE Malloc(t) \/ Track(t) \/ Adopt(t)
    <3>1. request' = request
      BY <2>4 DEF Malloc, Track, Adopt
    <3>2. Remembered' /\ Values' = Values
      BY <2>4, MallocGoes, TrackGoes, AdoptGoes
    <3> QED BY <3>1, <3>2
  <2>5. CASE Untrack(t) \/ SwitchBack(t)
    <3>1. request' = request
      BY <2>5 DEF Untrack, SwitchBack
    <3> QED BY <2>5, <3>1, BehindFree
  <2>6. CASE Free(t)
    BY <2>6, FreeGoes
  <2>7. CASE FreeMemory(t)
    <3>1. request' = request
      BY <2>7 DEF FreeMemory, Undefined
    <3> QED BY <2>7, <3>1, FreeMemoryGoes
  <2> QED BY <1>2, <2>1, <2>2, <2>3, <2>4, <2>5, <2>6, <2>7
<1> QED BY <1>1, <1>2 DEF Next, Stopped

(* What is remembered is always remembered.                                 *)
LEMMA StepFull ==
  FullInv /\ [Next]_vars => FullInv' /\ [VV!Next \/ "entry kept" \in seen']_<<Values, request>>
<1> SUFFICES ASSUME FullInv, [Next]_vars
             PROVE  FullInv' /\ [VV!Next \/ "entry kept" \in seen']_<<Values, request>>
  OBVIOUS
<1>1. IndInv'
  BY StepGood DEF FullInv
<1>2. CASE "entry kept" \in seen'
  BY <1>1, <1>2 DEF FullInv
<1>3. CASE "entry kept" \notin seen'
  <2>1. "entry kept" \notin seen
    BY <1>3, SeenGrows
  <2>2. Good /\ Remembered
    BY <2>1 DEF FullInv, IndInv
  <2>3. Remembered' /\ (VV!Next \/ UNCHANGED <<Values, request>>)
    BY <2>2, StepGoes
  <2> QED BY <1>1, <2>3 DEF FullInv
<1> QED BY <1>2, <1>3

(* At first there is nothing to remember, and no vector has a value.        *)
LEMMA StartsFull == Init => FullInv /\ VV!Init
<1> SUFFICES ASSUME Init PROVE FullInv /\ VV!Init
  OBVIOUS
<1>1. /\ heap = <<>> /\ mem = <<>> /\ vec = [x \in Vectors |-> Gone]
      /\ request = [t \in Threads |-> NoRequest] /\ was = [x \in Vectors |-> Gone]
      /\ seen = {}
  BY DEF Init, RuntimeInit
<1>2. IndInv
  BY StartsGood DEF IndInv
<1>3. Stored
  BY <1>1 DEF Stored
<1>4. \A t \in Threads : ~Running(t)
  BY <1>1 DEF Running
<1>5. Remembered
  BY <1>3, <1>4 DEF Remembered, Past
<1>6. Values = [x \in Vectors |-> Gone]
  <2>1. \A x \in Vectors : Value(x) = Gone
    BY <1>1 DEF Value, Exists
  <2>2. \A x \in Vectors : request[Owner[x]] = NoRequest
    BY <1>1, VectorAssumption
  <2> QED BY <2>1, <2>2 DEF Values
<1> QED BY <1>1, <1>2, <1>5, <1>6 DEF FullInv, VV!Init

(* DeviceVector implements VectorValues: whatever the threads, the devices   *)
(* and the failed allocations, every call of device_vector.h that returns    *)
(* has had its effect on its vector and none on any other, and one that      *)
(* throws has had none but what VectorValues says of copy_from_host and      *)
(* operator=; until an address is handed out again before it is untracked.   *)
THEOREM ImplementsSequences == Spec => ImplementsVectorValues
BY StartsFull, StepFull, PTL DEF Spec, ImplementsVectorValues

=============================================================================
