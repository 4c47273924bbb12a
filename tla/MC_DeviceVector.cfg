CONSTANTS
  t1 = t1
  t2 = t2
  x1 = x1
  x2 = x2
  x3 = x3
  d1 = d1
  d2 = d2
  Threads = {t1, t2}
  Vectors = {x1, x2, x3}
  Devices = {d1, d2}
  NoDevice = NoDevice
  NoRequest = NoRequest
  Gone = Gone
  Lost = Lost
  Blocks = 3
  MaxCount = 2
  MaxLength = 2
  Owner <- MCOwner
  Requests <- MCRequests
  Switching = {t1}
CONSTRAINT EntriesNotKept
ACTION_CONSTRAINT FirstOfItsKind
VIEW Seen
SYMMETRY DeviceSymmetry
SPECIFICATION Spec
INVARIANTS
  BuffersOwned
  EndsWell
  NoLeak
PROPERTIES
  ImplementsVectorValues
