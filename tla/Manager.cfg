\* Refresh, Route and Unroute; every command may fail, the daemon may crash, and
\* modules vanish while other applications load theirs.
SPECIFICATION Spec
CONSTANTS
  d1 = d1
  d2 = d2
  s1 = s1
  s2 = s2
  Threads = {t1, t2}
  Devices = {d1, d2}
  Sinks = {s1, s2}
  Ids = {i1, i2}
  Free = Free
  Output = Output
  Foreign = Foreign
  NoThread = NoThread
  NoDevice = NoDevice
  NoSink = NoSink
  NoModule = NoModule
  Match <- SharedMatch
  Extensions <- SharedExtensions
  Rank <- SharedRank
  Leftover <- Nothing
  Faults <- AllFaults
  Env <- VanishForeign
  Ops <- Routing
SYMMETRY Symmetric
INVARIANTS
  TypeOK
  OneLoopbackPerSink
  SweepSparesRecorded
  UnrouteSilences
  ManagerInv
PROPERTY
  ImplementsPlayback
  SparesForeign
