SPECIFICATION Spec
CONSTANTS
  None = None
  Threads = {t1}
  Limit = 3
  Passes = 1
  Kinds = {"add_subtract", "multiply", "chunk"}
  Layouts = {"strided"}
INVARIANT ConsumedMeansCommitted
