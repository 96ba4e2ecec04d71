\* Every operation on a device and every fault, each device with a sink of its own, and no
\* module that goes away by itself.
SPECIFICATION Spec
CONSTANTS
  d1 = d1
  d2 = d2
  s1 = s1
  s2 = s2
  Threads = {t1, t2}
  Devices = {d1, d2}
  Sinks = {s1, s2}
  Ids = {i1, i2, i3}
  Free = Free
  Output = Output
  Foreign = Foreign
  NoThread = NoThread
  NoDevice = NoDevice
  NoSink = NoSink
  NoModule = NoModule
  Match <- OwnMatch
  Extensions <- OwnExtensions
  Rank <- OwnRank
  Leftover <- Nothing
  Faults <- AllFaults
  Env <- NoVanish
  Ops <- OnDevices
SYMMETRY Symmetric
INVARIANTS
  RecordsLive
  RouteSounds
