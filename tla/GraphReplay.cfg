SPECIFICATION FairSpec
CONSTANTS
  c0 = c0
  c1 = c1
  None = None
  Threads = {t1, t2}
  Contexts = {c0, c1}
  Args = {a}
  Graphs = {g1, g2, g3}
  Limit = 1
  Home <- FirstContext
INVARIANTS
  InUseNotDestroyed
  LaunchesWhatWasAsked
  ReplayBounded
  NoneLeaks
PROPERTY AdditionsReturn
