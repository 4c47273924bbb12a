--------------------------- MODULE DeviceRuntime ---------------------------
(***************************************************************************)
(* The device runtime: every thread has an active device, the backends     *)
(* hand out blocks of memory, and one memory tracker, shared by all        *)
(* threads, says to which device a block belongs.  The allocator of a      *)
(* backend and the tracker each have a lock of their own, so a call such   *)
(* as icicle_free is several steps.  A pointer is a number, a block an     *)
(* interval that begins at a multiple of Stride.                           *)
(***************************************************************************)
EXTENDS Integers, FiniteSets, FiniteSetsExt

CONSTANTS
  Threads,
  Devices,    \* devices of the registered backends
  NoDevice,   \* sCurDevice of a thread that has not set one
  Blocks,     \* how many blocks the backends can hand out
  MaxCount    \* largest block, in elements

ASSUME RuntimeAssumption ==
  /\ NoDevice \notin Devices /\ Devices # {}
  /\ Blocks \in Nat \ {0} /\ MaxCount \in Nat \ {0}

nullptr == 0
HostPointer == -1   \* any address the tracker has not been told of
Stride == MaxCount + 1
Bases == {b * Stride : b \in 1 .. Blocks}
Junk == 2           \* what an element holds before it is written

VARIABLES
  heap,             \* blocks handed out and not freed: base -> [size, device]
  mem,              \* what they hold: base -> sequence of elements
  allocations_,     \* the tracker: base -> [size_, device]
  sCurDevice,       \* of each thread
  m_default_device

memory == <<heap, mem, allocations_>>
runtime == <<memory, sCurDevice, m_default_device>>

RuntimeInit ==
  /\ heap = <<>> /\ mem = <<>> /\ allocations_ = <<>>
  /\ sCurDevice = [t \in Threads |-> NoDevice]
  /\ m_default_device \in Devices

Set(f, a, v) == [b \in DOMAIN f \cup {a} |-> IF b = a THEN v ELSE f[b]]
Drop(f, a) == [b \in DOMAIN f \ {a} |-> f[b]]

-----------------------------------------------------------------------------
get_thread_local_device(t) ==
  IF sCurDevice[t] # NoDevice THEN sCurDevice[t] ELSE m_default_device

\* Mutant: lower_bound in the place of upper_bound.
IdentifyInside(p) ==
  LET below == {b \in DOMAIN allocations_ : b < p}
  IN  IF below # {} /\ p < Max(below) + allocations_[Max(below)].size_
        THEN Max(below) ELSE nullptr

\* The tracked block a pointer points into, nullptr if there is none.
identify(p) ==
  LET below == {b \in DOMAIN allocations_ : b <= p}
  IN  IF below # {} /\ p < Max(below) + allocations_[Max(below)].size_
        THEN Max(below) ELSE nullptr

MemoryType(t, p) ==
  LET b == identify(p)
  IN  IF b = nullptr THEN "Untracked"
      ELSE IF allocations_[b].device = get_thread_local_device(t) THEN "ActiveDevice"
      ELSE "NonActiveDevice"

is_active_device_memory(t, p) == MemoryType(t, p) = "ActiveDevice"

\* icicle_copy is refused if one of its ends is known to be on another device.
\* Both ends are looked up before anything is copied; an end that is not tracked
\* counts as host memory.
copy_allowed(t, dst, src) ==
  "NonActiveDevice" \notin {MemoryType(t, dst), MemoryType(t, src)}

-----------------------------------------------------------------------------
\* allocate_memory of the thread's backend: any region that is free.
allocate_memory(t, base, n) ==
  /\ base \in Bases \ DOMAIN heap
  /\ heap' = Set(heap, base, [size |-> n, device |-> get_thread_local_device(t)])
  /\ mem' = Set(mem, base, [i \in 1 .. n |-> Junk])

\* map::insert: an entry that is there already stays as it is.
add_allocation(t, base, n) ==
  allocations_' = IF base \in DOMAIN allocations_ THEN allocations_
                  ELSE Set(allocations_, base,
                           [size_ |-> n, device |-> get_thread_local_device(t)])

free_memory(base) ==
  /\ heap' = Drop(heap, base)
  /\ mem' = Drop(mem, base)

\* Mutant: the entry stays when it is not the last one.
RemoveLast(base) ==
  allocations_' = IF base = Max(DOMAIN allocations_) THEN Drop(allocations_, base)
                  ELSE allocations_

remove_allocation(base) == allocations_' = Drop(allocations_, base)

set_thread_local_device(t, d) == sCurDevice' = [sCurDevice EXCEPT ![t] = d]

\* icicle_free remembers the active device by reference.  For a thread that has
\* set its device that is sCurDevice itself, which has changed by the time
\* icicle_free switches back; for a thread on the default device it is the
\* registry's default device.
switch_back(t, had_device) ==
  set_thread_local_device(t, IF had_device THEN sCurDevice[t] ELSE m_default_device)
=============================================================================
