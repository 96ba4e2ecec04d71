\* One client next to syncPipeWire, every request and every fault.
SPECIFICATION ReportsSpec
CONSTANTS
  d1 = d1
  d2 = d2
  s1 = s1
  s2 = s2
  c1 = c1
  c2 = c2
  sync = sync
  Threads = {c1, sync}
  Devices = {d1, d2}
  Sinks = {s1, s2}
  Ids = {i1, i2, i3}
  Free = Free
  Output = Output
  Foreign = Foreign
  NoThread = NoThread
  NoDevice = NoDevice
  NoSink = NoSink
  NoModule = NoModule
  NoRoute = NoRoute
  Match <- OwnMatch
  Extensions <- OwnExtensions
  Rank <- OwnRank
  Leftover <- Nothing
  Faults <- AllFaults
  Env <- Nobody
  Ops <- ManagerOps
  Requests <- OneClient
  Levels <- SilentOrHalf
  Beginnings <- EitherOrHalf
SYMMETRY SymmetricIds
INVARIANTS
  VolumeTypeOK
  RecordedIsReported
  ReportedIsRecorded
  SetIsExclusive
  VolumesAgree
