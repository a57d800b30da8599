SPECIFICATION Spec
CONSTANTS
  None = None
  Threads = {t1}
  Limit = 4
  Passes = 2
  Kinds = {"add_subtract", "multiply", "chunk"}
  Layouts = {"contiguous"}
INVARIANTS
  GradientsAreOwed
