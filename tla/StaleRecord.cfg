\* Route after PipeWire has dropped the loopback the manager remembers.
SPECIFICATION FairSpec
CONSTANTS
  d1 = d1
  d2 = d2
  s1 = s1
  s2 = s2
  Threads = {t1}
  Devices = {d1}
  Sinks = {s1}
  Ids = {i1, i2, i3}
  Free = Free
  Output = Output
  Foreign = Foreign
  NoThread = NoThread
  NoDevice = NoDevice
  NoSink = NoSink
  NoModule = NoModule
  Match <- OneMatch
  Extensions <- OneExtensions
  Rank <- OneRank
  Leftover <- Nothing
  Faults <- NoFaults
  Env <- Vanish
  Ops <- OnDevices
PROPERTY
  RouteRepairs
