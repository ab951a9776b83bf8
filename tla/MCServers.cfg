\* One account and one server, which has changed its key; three calls, two
\* of them on one machine at a time, two moments at which a user changes a list, one Gist.
\* A client that has made its calls is at rest.
CONSTANTS
  Servers = {s1}
  s1 = s1
  Users = {u1}
  u1 = u1
  Machines = {"A", "B"}
  OfA = {a1, a2}
  a1 = a1
  a2 = a2
  b = b
  Threads = {a1, a2, b}
  MachineOf <- MCMachineOf
  FirstLists <- MCFirstLists
  FirstUsers = {u1}
  Key <- MCKey
  MaxCalls = 3
  MaxTime = 2
  MaxGists = 1
  None = None
SPECIFICATION Spec
SYMMETRY Symmetry

  
  
PROPERTIES
  KeptUnlessRemoved
CHECK_DEADLOCK FALSE
