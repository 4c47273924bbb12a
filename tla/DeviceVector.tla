---------------------------- MODULE DeviceVector ----------------------------
(***************************************************************************)
(* DeviceVector on top of the device runtime.  A call is the sequence of   *)
(* runtime steps its body makes, chosen when it starts; between two of     *)
(* them other threads take theirs.  A runtime error throws and drops the   *)
(* steps that are left.  Threads share the runtime, a vector belongs to    *)
(* one thread.                                                             *)
(***************************************************************************)
EXTENDS DeviceRuntime, Sequences

CONSTANTS
  Vectors, Owner,  \* the vectors and the thread each belongs to
  MaxLength,       \* bound on the elements of a vector
  Requests,        \* of each thread: the calls it may make
  Switching,       \* the threads that call icicle_set_device
  NoRequest, Gone, Lost

Creating  == {"construct", "from_host", "copy"}
Replacing == {"copy_from_host", "assign"}
Growing   == {"reserve", "resize", "push_back", "push_host", "push_vector", "clear", "set"}
Operations == Creating \cup Replacing \cup Growing \cup {"destroy"}

ASSUME VectorAssumption ==
  /\ Owner \in [Vectors -> Threads]
  /\ \A t \in Threads :
       /\ Requests[t] \subseteq [op : Operations, x : Vectors, y : Vectors, n : Nat]
       /\ NoRequest \notin Requests[t]
  /\ Gone \notin [data_ : Bases \cup {nullptr}, size_ : Nat, capacity_ : Nat]

VARIABLES
  vec,       \* of each vector: [data_, size_, capacity_], or Gone
  request,   \* of each thread: the call it is in
  todo,      \* the steps left of it
  new_data,  \* the block it has allocated
  outcome,   \* "running", "terminated" (a destructor threw) or "undefined"
  was,       \* history: of each vector, its value when the last call on it began
  seen       \* history: what has happened that the code does not provide for

vars == <<runtime, vec, request, todo, new_data, outcome, was, seen>>

Unprovided == {"entry kept", "other device", "lost"}
Buffer(x) == vec[x].data_
Exists(x) == vec[x] # Gone
Live(p) == p \in DOMAIN heap

\* The elements of a vector.  A vector that has a capacity but no block is lost.
Value(x) ==
  IF ~Exists(x) THEN Gone
  ELSE IF Buffer(x) = nullptr /\ vec[x].capacity_ > 0 THEN Lost
  ELSE IF vec[x].size_ = 0 THEN <<>>
  ELSE IF Live(Buffer(x)) THEN SubSeq(mem[Buffer(x)], 1, vec[x].size_) ELSE Lost

Init ==
  /\ RuntimeInit
  /\ vec = [x \in Vectors |-> Gone]
  /\ request = [t \in Threads |-> NoRequest]
  /\ todo = [t \in Threads |-> <<>>]
  /\ new_data = [t \in Threads |-> nullptr]
  /\ outcome = "running"
  /\ was = [x \in Vectors |-> Gone]
  /\ seen = {}

-----------------------------------------------------------------------------
\* The steps of each call.

\* Mutant: the old block is released before the new one is there.
GrowFreeingFirst(v, want) ==
  IF want <= v.capacity_ THEN <<>>
  ELSE (IF v.data_ # nullptr THEN <<"free">> ELSE <<>>) \o <<"malloc", "track", "adopt">>

\* Mutant: a single element is not copied.
GrowCopyingMany(v, want) ==
  IF want <= v.capacity_ THEN <<>>
  ELSE <<"malloc", "track">>
       \o (IF v.data_ # nullptr /\ v.size_ > 1 THEN <<"copy old">> ELSE <<>>)
       \o (IF v.data_ # nullptr THEN <<"free">> ELSE <<>>)
       \o <<"adopt">>

grow(v, want) ==
  IF want <= v.capacity_ THEN <<>>
  ELSE <<"malloc", "track">>
       \o (IF v.data_ # nullptr /\ v.size_ > 0 THEN <<"copy old">> ELSE <<>>)
       \o (IF v.data_ # nullptr THEN <<"free">> ELSE <<>>)
       \o <<"adopt">>

\* copy_from_host and operator= release their block before they have another,
\* and let icicle_malloc write data_ itself.
replace(v, want) ==
  IF want <= v.capacity_ THEN <<>>
  ELSE (IF v.data_ # nullptr THEN <<"free">> ELSE <<>>) \o <<"malloc", "track", "keep">>

\* The size constructor zeroes its block, the copy constructor and the one from a
\* host vector copy into theirs.
new_block(n, fill) == IF n = 0 THEN <<>> ELSE <<"malloc", "track", fill>>

\* What a call asks a growing vector to hold.
Wanted(r) ==
  CASE r.op \in {"reserve", "resize"} -> r.n
    [] r.op \in {"push_back", "push_host"} ->
         IF r.n = 0 THEN 0 ELSE vec[r.x].size_ + r.n
    [] r.op = "push_vector"           -> IF vec[r.y].size_ = 0 THEN 0
                                         ELSE vec[r.x].size_ + vec[r.y].size_
    [] OTHER                          -> 0

Steps(r) ==
  CASE r.op = "construct"      -> new_block(r.n, "zero") \o <<"return">>
    [] r.op = "from_host"      -> new_block(r.n, "copy host") \o <<"return">>
    [] r.op = "copy"           -> new_block(vec[r.y].size_, "copy other") \o <<"return">>
    [] r.op = "destroy"        -> (IF Buffer(r.x) # nullptr THEN <<"free">> ELSE <<>>)
                                  \o <<"return">>
    [] r.op = "copy_from_host" -> replace(vec[r.x], r.n) \o <<"return">>
    [] r.op = "assign"         -> replace(vec[r.x], vec[r.y].size_) \o <<"return">>
    [] OTHER                   -> grow(vec[r.x], Wanted(r)) \o <<"return">>

\* A call a program can make: constructors on what does not exist, the others
\* on what does; set within the size (get, set and slice throw otherwise), and
\* no vector beyond MaxLength.
Legal(r) ==
  /\ Exists(r.x) = (r.op \notin Creating)
  /\ r.op \in {"copy", "push_vector", "assign"} => Exists(r.y)
  /\ r.op = "assign" => r.x # r.y
  /\ r.op = "set" => r.n \in 1 .. vec[r.x].size_
  /\ Exists(r.x) => Wanted(r) <= MaxLength

Call(t) ==
  /\ outcome = "running" /\ request[t] = NoRequest
  /\ \E r \in Requests[t] :
       /\ Owner[r.x] = t /\ Owner[r.y] = t /\ Legal(r)
       /\ request' = [request EXCEPT ![t] = r]
       /\ todo' = [todo EXCEPT ![t] = Steps(r)]
       /\ was' = [was EXCEPT ![r.x] = Value(r.x)]
       /\ seen' = IF \E x \in {r.x, r.y} :
                       /\ Exists(x) /\ Buffer(x) \in DOMAIN heap
                       /\ heap[Buffer(x)].device # get_thread_local_device(t)
                    THEN seen \cup {"other device"} ELSE seen
  /\ UNCHANGED <<runtime, vec, new_data, outcome>>

At(t, step) == outcome = "running" /\ todo[t] # <<>> /\ Head(todo[t]) = step
Continue(t) == todo' = [todo EXCEPT ![t] = Tail(@)]

\* The call is over; a block it has allocated and given to no vector is leaked.
End(t) ==
  /\ request' = [request EXCEPT ![t] = NoRequest]
  /\ todo' = [todo EXCEPT ![t] = <<>>]
  /\ new_data' = [new_data EXCEPT ![t] = nullptr]
  /\ was' = [was EXCEPT ![request[t].x] = Gone]

\* An exception: out of a destructor it ends the program.
Throws(t) ==
  /\ End(t)
  /\ outcome' = IF request[t].op = "destroy" THEN "terminated" ELSE outcome
  /\ UNCHANGED <<runtime, vec, seen>>

\* Memory is read or written that is not there.
Undefined ==
  /\ outcome' = "undefined"
  /\ UNCHANGED <<runtime, vec, request, todo, new_data, was, seen>>

\* How many elements the call allocates.
new_capacity(t) ==
  LET r == request[t]
      v == vec[r.x]
      doubled == IF v.capacity_ = 0 THEN 1 ELSE 2 * v.capacity_
  IN  CASE r.op \in {"construct", "from_host", "copy_from_host"} -> r.n
        [] r.op \in {"copy", "assign"}              -> vec[r.y].size_
        [] OTHER -> IF doubled < Wanted(r) THEN Wanted(r) ELSE doubled

-----------------------------------------------------------------------------
\* icicle_malloc.

Malloc(t) ==
  /\ At(t, "malloc")
  /\ \E base \in Bases :
       /\ allocate_memory(t, base, new_capacity(t))
       /\ new_data' = [new_data EXCEPT ![t] = base]
  /\ Continue(t)
  /\ UNCHANGED <<allocations_, sCurDevice, m_default_device, vec, request, outcome, was, seen>>

\* The backend has no memory and writes nullptr where the pointer should go.
MallocFails(t) ==
  LET x == request[t].x
      lost == request[t].op \in Replacing
  IN  /\ At(t, "malloc")
      /\ End(t)
      /\ vec' = IF lost THEN [vec EXCEPT ![x].data_ = nullptr] ELSE vec
      /\ seen' = IF lost /\ vec[x].capacity_ > 0 THEN seen \cup {"lost"} ELSE seen
      /\ UNCHANGED <<runtime, outcome>>

Track(t) ==
  /\ At(t, "track")
  /\ add_allocation(t, new_data[t], new_capacity(t))
  /\ seen' = IF new_data[t] \in DOMAIN allocations_ THEN seen \cup {"entry kept"} ELSE seen
  /\ Continue(t)
  /\ UNCHANGED <<heap, mem, sCurDevice, m_default_device, vec, request, new_data, outcome, was>>

\* icicle_free.  Of a block on another device it switches to that device, calls
\* itself, ignores what that returns, and switches back.
Free(t) ==
  LET b == identify(Buffer(request[t].x))
      inner == Len(todo[t]) > 1 /\ todo[t][2] \in {"back", "back to default"}
      here == b # nullptr /\ allocations_[b].device = get_thread_local_device(t)
      back == IF sCurDevice[t] # NoDevice THEN "back" ELSE "back to default"
  IN  /\ At(t, "free")
      /\ \/ /\ b = nullptr /\ ~inner
            /\ Throws(t)
         \/ /\ b = nullptr /\ inner
            /\ Continue(t)
            /\ UNCHANGED <<runtime, vec, request, new_data, outcome, was, seen>>
         \/ /\ here
            /\ todo' = [todo EXCEPT ![t] = <<"free memory", "untrack">> \o Tail(@)]
            /\ UNCHANGED <<runtime, vec, request, new_data, outcome, was, seen>>
         \/ /\ b # nullptr /\ ~here
            /\ set_thread_local_device(t, allocations_[b].device)
            /\ todo' = [todo EXCEPT ![t] = <<"free", back>> \o Tail(@)]
            /\ UNCHANGED <<memory, m_default_device, vec, request, new_data, outcome, was, seen>>

FreeMemory(t) ==
  LET b == Buffer(request[t].x)
  IN  /\ At(t, "free memory")
      /\ IF Live(b)
           THEN /\ free_memory(b)
                /\ Continue(t)
                /\ UNCHANGED <<allocations_, sCurDevice, m_default_device,
                               vec, request, new_data, outcome, was, seen>>
           ELSE Undefined

Untrack(t) ==
  /\ At(t, "untrack")
  /\ remove_allocation(Buffer(request[t].x))
  /\ Continue(t)
  /\ UNCHANGED <<heap, mem, sCurDevice, m_default_device,
                 vec, request, new_data, outcome, was, seen>>

SwitchBack(t) ==
  /\ At(t, "back") \/ At(t, "back to default")
  /\ switch_back(t, Head(todo[t]) = "back")
  /\ Continue(t)
  /\ UNCHANGED <<memory, m_default_device, vec, request, new_data, outcome, was, seen>>

-----------------------------------------------------------------------------
\* The elements es written into block b behind its first k.
Written(b, k, es) ==
  [mem EXCEPT ![b] = [i \in DOMAIN @ |-> IF i - k \in DOMAIN es THEN es[i - k] ELSE @[i]]]

Fill(n, e) == [i \in 1 .. n |-> e]
Accessible(t, b) == Live(b) /\ heap[b].device = get_thread_local_device(t)
Contents(x) == IF vec[x].size_ = 0 THEN <<>> ELSE SubSeq(mem[Buffer(x)], 1, vec[x].size_)

\* What is put into a new block before its vector has it: zeros, host elements,
\* the elements of the vector itself or those of the other one.
FillNew(t) ==
  LET r == request[t]
      step == Head(todo[t])
      copies == step \in {"copy old", "copy other"}
      from == IF step = "copy old" THEN r.x ELSE r.y
      allowed == CASE step = "zero"      -> is_active_device_memory(t, new_data[t])
                   [] step = "copy host" -> TRUE
                   [] OTHER              -> copy_allowed(t, new_data[t], Buffer(from))
      elements == CASE step = "zero"      -> Fill(r.n, 0)
                    [] step = "copy host" -> Fill(r.n, 1)
                    [] OTHER              -> Contents(from)
  IN  /\ \E s \in {"zero", "copy host", "copy old", "copy other"} : At(t, s)
      /\ IF ~allowed THEN Throws(t)
         ELSE IF copies /\ ~Accessible(t, Buffer(from)) THEN Undefined
         ELSE /\ mem' = Written(new_data[t], 0, elements)
              /\ Continue(t)
              /\ UNCHANGED <<heap, allocations_, sCurDevice, m_default_device,
                             vec, request, new_data, outcome, was, seen>>

\* grow, copy_from_host and operator= give the vector its new block.
Adopt(t) ==
  LET x == request[t].x
  IN  /\ At(t, "adopt") \/ At(t, "keep")
      /\ vec' = [vec EXCEPT ![x].data_ = new_data[t], ![x].capacity_ = new_capacity(t)]
      /\ new_data' = [new_data EXCEPT ![t] = nullptr]
      /\ Continue(t)
      /\ UNCHANGED <<runtime, request, outcome, was, seen>>

-----------------------------------------------------------------------------
\* How a call ends.

\* A constructor has its vector, a destructor has removed it.
ReturnLifetime(t) ==
  LET r == request[t]
      n == new_capacity(t)
  IN  /\ At(t, "return") /\ r.op \in Creating \cup {"destroy"}
      /\ vec' = [vec EXCEPT ![r.x] =
                   IF r.op = "destroy" THEN Gone
                   ELSE [data_ |-> new_data[t], size_ |-> n, capacity_ |-> n]]
      /\ End(t)
      /\ UNCHANGED <<runtime, outcome, seen>>

new_size(r) ==
  LET size == vec[r.x].size_
  IN  CASE r.op \in {"reserve", "set"}           -> size
        [] r.op = "clear"                        -> 0
        [] r.op = "resize"                       -> r.n
        [] r.op \in {"push_back", "push_host"}   -> size + r.n
        [] r.op = "push_vector"                  -> size + vec[r.y].size_
        [] r.op = "copy_from_host"               -> IF r.n = 0 THEN size ELSE r.n
        [] r.op = "assign"                       -> vec[r.y].size_

\* What the end of the call writes into the vector's block, and behind which
\* element: zeros, host elements, or (instead of Junk) those of the other vector.
Final(r) ==
  LET size == vec[r.x].size_
      put(k, n, e) == [behind |-> k, count |-> n, element |-> e]
  IN  CASE r.op = "resize" /\ r.n > size          -> put(size, r.n - size, 0)
        [] r.op \in {"push_back", "push_host"}   -> put(size, r.n, 1)
        [] r.op = "set"                          -> put(r.n - 1, 1, 1)
        [] r.op = "copy_from_host"               -> put(0, r.n, 1)
        [] r.op = "push_vector"                  -> put(size, vec[r.y].size_, Junk)
        [] r.op = "assign"                       -> put(0, vec[r.y].size_, Junk)
        [] OTHER                                 -> put(0, 0, 0)

\* memset wants memory of the active device and icicle_copy none of another one;
\* icicle_copy_to_device goes to the backend unchecked.
final_allowed(t, to) ==
  LET r == request[t]
  IN  CASE r.op = "resize"                   -> is_active_device_memory(t, to)
        [] r.op = "push_back"                -> copy_allowed(t, to, HostPointer)
        [] r.op \in {"push_vector", "assign"} -> copy_allowed(t, to, Buffer(r.y))
        [] OTHER                             -> TRUE

\* The other calls write what they have to and set the size; operator= sets it
\* before it copies, and so even when the copy is refused.
Return(t) ==
  LET r == request[t]
      b == Buffer(r.x)
      final == Final(r)
      from_other == r.op \in {"push_vector", "assign"}
      resized == [vec EXCEPT ![r.x].size_ = new_size(r)]
  IN  /\ At(t, "return") /\ r.op \notin Creating \cup {"destroy"}
      /\ \/ /\ final.count = 0
            /\ vec' = resized
            /\ End(t)
            /\ UNCHANGED <<runtime, outcome, seen>>
         \/ /\ final.count > 0 /\ ~final_allowed(t, b + final.behind)
            /\ vec' = IF r.op = "assign" THEN resized ELSE vec
            /\ End(t)
            /\ UNCHANGED <<runtime, outcome, seen>>
         \/ /\ final.count > 0 /\ final_allowed(t, b + final.behind)
            /\ IF ~Accessible(t, b) \/ (from_other /\ ~Accessible(t, Buffer(r.y)))
                 THEN Undefined
                 ELSE /\ mem' = Written(b, final.behind,
                                        IF from_other THEN Contents(r.y)
                                        ELSE Fill(final.count, final.element))
                      /\ vec' = resized
                      /\ End(t)
                      /\ UNCHANGED <<heap, allocations_, sCurDevice, m_default_device,
                                     outcome, seen>>

-----------------------------------------------------------------------------
\* icicle_set_device, between the calls on vectors.
SetDevice(t) ==
  /\ t \in Switching
  /\ outcome = "running" /\ request[t] = NoRequest
  /\ \E d \in Devices \ {sCurDevice[t]} : set_thread_local_device(t, d)
  /\ UNCHANGED <<memory, m_default_device, vec, request, todo, new_data, outcome, was, seen>>

Stopped == outcome # "running" /\ UNCHANGED vars

Next ==
  \/ \E t \in Threads :
       \/ Call(t) \/ SetDevice(t)
       \/ Malloc(t) \/ MallocFails(t) \/ Track(t)
       \/ Free(t) \/ FreeMemory(t) \/ Untrack(t) \/ SwitchBack(t)
       \/ FillNew(t) \/ Adopt(t) \/ ReturnLifetime(t) \/ Return(t)
  \/ Stopped

Spec == Init /\ [][Next]_vars

-----------------------------------------------------------------------------
Idle(x) == request[Owner[x]] = NoRequest

\* Between the calls on it, every vector has its block to itself: the block is
\* live, as large as the capacity, known to the tracker under the device it is on,
\* and no other vector's; and the size is within the capacity.  This survives
\* throwing calls, device switches and what other threads free and allocate,
\* unless an allocation failed in a call that had already released its block
\* ("lost"), or an address was handed out again before it was untracked.
BuffersOwned ==
  seen \cap {"entry kept", "lost"} = {} =>
    \A x \in Vectors : Exists(x) /\ Idle(x) =>
      LET v == vec[x]
          b == v.data_
      IN  /\ v.size_ <= v.capacity_
          /\ (b = nullptr) = (v.capacity_ = 0)
          /\ b # nullptr =>
               /\ Live(b) /\ b \in DOMAIN allocations_
               /\ heap[b].size = v.capacity_
               /\ allocations_[b] = [size_ |-> v.capacity_, device |-> heap[b].device]
               /\ \A y \in Vectors \ {x} : Exists(y) /\ Idle(y) => vec[y].data_ # b

\* A destructor throws only after an address was handed out again before it was
\* untracked, whatever failed and whichever devices were chosen in between; and
\* memory that is not there is touched only after something unprovided.
EndsWell ==
  /\ outcome = "terminated" => "entry kept" \in seen
  /\ outcome = "undefined" => seen # {}

\* When no call is running, every block handed out belongs to a vector, and the
\* tracker knows these blocks and no others: nothing leaks, through failed
\* allocations either, while every vector is used on the device it is on.
NoLeak ==
  seen = {} /\ (\A t \in Threads : request[t] = NoRequest) =>
    /\ DOMAIN heap = {Buffer(x) : x \in {y \in Vectors : Exists(y)}} \ {nullptr}
    /\ DOMAIN allocations_ = DOMAIN heap

\* What the owner of a vector sees: a call in progress has not happened yet.
Values == [x \in Vectors |->
             IF request[Owner[x]] # NoRequest /\ request[Owner[x]].x = x
               THEN was[x] ELSE Value(x)]

VV == INSTANCE VectorValues WITH value <- Values

\* Every call that returns has had exactly its effect on its vector and none on any
\* other; every call that throws, for lack of memory or for a device switched in
\* between, has had none, but for the two calls VectorValues names.  Until an
\* address is handed out again before it is untracked.
ImplementsVectorValues ==
  VV!Init /\ [][VV!Next \/ "entry kept" \in seen']_<<Values, request>>
=============================================================================
