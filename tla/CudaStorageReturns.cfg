SPECIFICATION FairSpec
CONSTANTS
  d0 = d0
  d1 = d1
  NoDevice = NoDevice
  Devices = {d0}
  PoolDevices = {d0}
  Slack = 1
  Threads = {t1}
  Pointers = {p1, p2}
  Sizes = {4, 9}
  MaxEntries = 2
  CacheBytes = 8
  Home <- FirstDevice
PROPERTY OperationsReturn
