SPECIFICATION Spec
CONSTANTS
  d0 = d0
  d1 = d1
  NoDevice = NoDevice
  Devices = {d0, d1}
  PoolDevices = {d1}
  Slack = 1
  Threads = {t1}
  Pointers = {p1, p2}
  Sizes = {0, 4, 5, 9}
  MaxEntries = 2
  CacheBytes = 8
  Home <- FirstDevice
SYMMETRY Symmetry
INVARIANTS
  CallsOnOwner
  DeviceRestored
  ReuseAccounted
