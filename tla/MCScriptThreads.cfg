CONSTANTS
  Threads = {1, 2, 3}
  Entities = {e1}
  Level = level
  Names = {a}
  TimeKeys = 5
  Delays = {0, 1}
  Frame = 2
  Horizon = 2
  None = None
INIT Init
NEXT Next
INVARIANTS ThreadsLinked RefsBalance OnTime
PROPERTIES EndOnEnds
