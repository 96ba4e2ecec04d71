\* No failing commands, daemons that crash or stop, an output sink that someone
\* removes now and then, and whatever an earlier daemon left behind.
SPECIFICATION TickingSpec
CONSTANTS
  d1 = d1
  d2 = d2
  s1 = s1
  s2 = s2
  Threads = {t1, t2}
  Devices = {d1}
  Sinks = {s1}
  Ids = {i1, i2, i3}
  Free = Free
  Output = Output
  Foreign = Foreign
  NoThread = NoThread
  NoDevice = NoDevice
  NoSink = NoSink
  NoModule = NoModule
  Match <- OneMatch
  Extensions <- OneExtensions
  Rank <- OneRank
  Leftover <- Untidy
  Faults <- Crashes
  Env <- Vanish
  Ops <- Starting
INVARIANTS
  StartAdopts
  CleanupSilences
PROPERTIES
  CallsReturn
  OutputRestored
