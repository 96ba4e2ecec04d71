\* Two clients make every kind of request of one group.
SPECIFICATION Spec
CONSTANTS
  t1 = t1
  t2 = t2
  everywhere = everywhere
  d1 = d1
  d2 = d2
  d3 = d3
  Threads <- Clients
  Names = {everywhere}
  Devices <- AllDevices
  Arrays = {1, 2, 3, 4, 5}
  Requests <- AllRequests
  Saved <- AllSaved
  NoThread = NoThread
  NoGroup = NoGroup
  NoRequest = NoRequest
  Blank = Blank
  Garbled = Garbled
SYMMETRY Symmetric
INVARIANTS
  TypeOK
  UndisturbedPlayIsComplete
PROPERTIES
  ImplementsGroupList
