SPECIFICATION Spec
CONSTANTS
  d0 = d0
  d1 = d1
  NoDevice = NoDevice
  Devices = {d0}
  PoolDevices = {d0}
  Slack = 1
  Threads = {t1, t2}
  Pointers = {p1, p2, p3}
  Sizes = {4}
  MaxEntries = 2
  CacheBytes = 9
  Home <- FirstDevice
SYMMETRY ThreadSymmetry
INVARIANTS
  TypeOK
  SingleOwner
  NoLeak
  DisclosedNotReused
PROPERTIES
  ReuseStaysDisabled
  ImplementsProtocol
