\* Daemons that are started, stopped and killed at any step, with failing writes.
SPECIFICATION FairDesktopSpec
CONSTANTS
  user = user
  system = system
  a = a
  b = b
  Daemons = {user, system}
  Edits = {a, b}
  NoDaemon = NoDaemon
  NoEdit = NoEdit
  NoSocket = NoSocket
  DeadSocket = DeadSocket
  Missing = {missing}
  Garbled = {noise}
  Blank = {blank}
  Problem = {problem}
  Mishaps <- CrashAndDisk
  Setups <- ThreeSetups
INVARIANTS
  DesktopTypeOK
  AlwaysReadable
  AnsweredIsSaved
  AloneIsReachable
PROPERTIES
  ImplementsDurability
  FailedRecovers
  CommandsEnd
  WindowCatchesUp
