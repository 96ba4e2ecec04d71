\* Two receivers, whose announcements are handled in any order, and browsers that
\* may not start.
SPECIFICATION Spec
CONSTANTS
  p = p
  q = q
  a1 = a1
  a2 = a2
  b1 = b1
  b2 = b2
  pc = pc
  pp = pp
  qc = qc
  qp = qp
  Receivers = {p, q}
  Addresses = {a1, a2, b1, b2}
  Own <- OwnAddresses
  Ids = {pc, pp, qc, qp}
  IdOf <- TwoIds
  Weight <- ColonsFirst
  Saved <- SomeSaved
  MaxQueue = 3
  NoDevice = NoDevice
INVARIANTS
  JoinsInTurn
  DevicesTypeOK
  OnePerAddress
  ListedOnce
PROPERTY
  PreferredIDStays
