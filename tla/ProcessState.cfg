SPECIFICATION Spec
CONSTANTS
  t1 = t1
  t2 = t2
  u1 = u1
  c1 = c1
  c2 = c2
  NoPool = NoPool
  Threads = {t1, t2}
  Contexts = {c1, c2}
  Enables <- MCEnables
  Setters = {s1}
  Scopes <- MCScopes
  Callers = {u1, u2}
  Pools = {p1, p2, p3}
  MaxThreads = 3
  Sums <- MCSumsOf
  ParallelElements = 64
  Avx2 = TRUE
  MinPower = 1
  Buffers = 3
  Leases = 4
  Calls <- MCCalls
  RecompileLimit = 2
  PreparedBytes = 6
  m1 = m1
  NoMode = NoMode
  Modes = {m1, m2, m3}
  ClassmethodModes = {m3}
  RecursionLimit = 2
  Subclass <- MCSubclass
  ArgumentCalls <- MCArgumentCalls
  ArgumentModes <- MCArgumentModes
  ModeCalls <- MCModeCalls
  MaxModeCalls = 3
  MaxFrames = 4
SYMMETRY Symmetry
INVARIANTS
  ScopesAreOwned
  PoolOutlivesUse
  SumsInSerialOrder
  LeasesExclusive
  CacheConsistent
  EveryArgumentBound
  NativeNeverPanics
  AskedInOrder
  ScopesRestored
PROPERTY ClosingRestores
CHECK_DEADLOCK FALSE
