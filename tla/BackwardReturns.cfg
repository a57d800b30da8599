SPECIFICATION FairSpec
CONSTANTS
  None = None
  Threads = {t1, t2}
  Limit = 2
  Passes = 2
  Kinds = {"add_subtract", "multiply", "chunk"}
  Layouts = {"contiguous", "strided"}
PROPERTY BackwardReturns
