---------------------------- MODULE VectorValues ----------------------------
(***************************************************************************)
(* What DeviceVector promises, without memory and devices: a vector is a   *)
(* sequence, a call that returns has its effect, and a call that throws    *)
(* leaves every vector as it was.  Only the two calls that replace the     *)
(* whole contents promise less: when they throw, their target may hold     *)
(* unspecified elements, or be Lost, not even of a meaningful length.      *)
(***************************************************************************)
EXTENDS Integers, Sequences

CONSTANTS
  Threads, Vectors,
  Requests,   \* of each thread: the calls it may make, as records [op, x, y, n]
  NoRequest,
  Gone,       \* the value of a vector that does not exist
  Lost

VARIABLES value, request

Init ==
  /\ value = [x \in Vectors |-> Gone]
  /\ request = [t \in Threads |-> NoRequest]

Call(t) ==
  /\ request[t] = NoRequest
  /\ \E r \in Requests[t] : request' = [request EXCEPT ![t] = r]
  /\ UNCHANGED value

Fill(n, e) == [i \in 1 .. n |-> e]

\* What a call makes of a vector that holds s, the other one holding o.
Effect(r, s, o) ==
  CASE r.op = "construct"      -> Fill(r.n, 0)
    [] r.op = "from_host"      -> Fill(r.n, 1)
    [] r.op = "copy"           -> o
    [] r.op = "destroy"        -> Gone
    [] r.op = "reserve"        -> s
    [] r.op = "clear"          -> <<>>
    [] r.op = "resize"         -> IF r.n <= Len(s) THEN SubSeq(s, 1, r.n)
                                  ELSE s \o Fill(r.n - Len(s), 0)
    [] r.op \in {"push_back", "push_host"} -> s \o Fill(r.n, 1)
    [] r.op = "push_vector"    -> s \o o
    [] r.op = "set"            -> [s EXCEPT ![r.n] = 1]
    [] r.op = "copy_from_host" -> IF r.n = 0 THEN s ELSE Fill(r.n, 1)
    [] r.op = "assign"         -> o

\* Nothing is said of a call on, or with, a vector that has been lost.
Unspecified(r) == r.op # "destroy" /\ (value[r.x] = Lost \/ value[r.y] = Lost)

Return(t) ==
  LET r == request[t]
  IN  /\ r # NoRequest
      /\ request' = [request EXCEPT ![t] = NoRequest]
      /\ \/ /\ ~Unspecified(r)
            /\ value' = [value EXCEPT ![r.x] = Effect(r, value[r.x], value[r.y])]
         \/ /\ Unspecified(r)
            /\ \A x \in Vectors \ {r.x} : value'[x] = value[x]

Throw(t) ==
  LET r == request[t]
  IN  /\ r # NoRequest
      /\ request' = [request EXCEPT ![t] = NoRequest]
      /\ \/ UNCHANGED value
         \/ /\ r.op \in {"copy_from_host", "assign"} \/ Unspecified(r)
            /\ \A x \in Vectors \ {r.x} : value'[x] = value[x]
            /\ \/ value'[r.x] = Lost
               \/ r.op = "assign" /\ value[r.y] # Lost /\ Len(value'[r.x]) = Len(value[r.y])

Next == \E t \in Threads : Call(t) \/ Return(t) \/ Throw(t)

Spec == Init /\ [][Next]_<<value, request>>
=============================================================================
