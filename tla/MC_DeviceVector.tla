-------------------------- MODULE MC_DeviceVector --------------------------
(***************************************************************************)
(* Two threads, the first with two vectors and the second with one, on the *)
(* CPU and a second device.  The first thread makes every call with        *)
(* lengths up to two; the second constructs, which takes the addresses the *)
(* first has freed and is what can disturb it.                             *)
(***************************************************************************)
EXTENDS DeviceVector, TLC

CONSTANTS t1, t2, x1, x2, x3, d1, d2

MCOwner == [x \in Vectors |-> IF x = x3 THEN t2 ELSE t1]

Req(ops, xs, ys, ns) == [op : ops, x : xs, y : ys, n : ns]

MCRequests == [t \in Threads |->
  IF t = t1
    THEN Req({"construct"}, {x1}, {x1}, {1}) \cup Req({"from_host"}, {x1}, {x1}, {2})
         \cup Req({"copy_from_host", "resize"}, {x1}, {x1}, {0, 2})
         \cup Req({"push_back", "push_host", "set"}, {x1}, {x1}, {1})
         \cup Req({"reserve"}, {x1}, {x1}, {2})
         \cup Req({"destroy", "clear"}, {x1}, {x1}, {0})
         \cup Req({"copy", "assign"}, {x1}, {x2}, {0})
         \cup Req({"push_vector"}, {x1}, {x1, x2}, {0})
         \cup Req({"construct"}, {x2}, {x2}, {1})
    ELSE Req({"construct"}, {x3}, {x3}, {1})]

\* The run ends where an address is handed out again before it is untracked: all
\* properties are about what happens until then.
EntriesNotKept == "entry kept" \notin seen

\* Of the free blocks that are tracked, and of those that are not, the first one is
\* handed out: apart from that nothing tells them apart.
FirstOfItsKind ==
  \A b \in DOMAIN heap' \ DOMAIN heap : \A c \in Bases \ DOMAIN heap :
    c < b => (c \in DOMAIN allocations_) # (b \in DOMAIN allocations_)

\* What a leaked block holds, nobody can see any more.
Held == {new_data[t] : t \in Threads} \cup {Buffer(x) : x \in {y \in Vectors : Exists(y)}}
Seen == <<heap, [b \in DOMAIN mem \cap Held |-> mem[b]], allocations_, sCurDevice,
          m_default_device, vec, request, todo, new_data, outcome, was, seen>>

\* Nothing tells the devices apart.
DeviceSymmetry == Permutations({d1, d2})
=============================================================================
