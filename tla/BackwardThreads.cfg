SPECIFICATION Spec
CONSTANTS
  None = None
  Threads = {t1, t2}
  Limit = 4
  Passes = 2
  Kinds = {"multiply"}
  Layouts = {"contiguous"}
SYMMETRY Symmetry
INVARIANTS
  GradientsAreOwed
  Transaction
  FreedOnlyBySuccess
