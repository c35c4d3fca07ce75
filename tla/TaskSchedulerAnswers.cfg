CONSTANTS
  t1 = t1
  m1 = m1
  m2 = m2
  u1 = u1
  c1 = c1
  c2 = c2
  d2 = d2
  None = None
  Busy = Busy
  Tasks = {t1}
  Starts = {m1, m2}
  Subs = {u1, d2}
  Workers = {"w1", "w2"}
  TaskOf <- TwiceTask
  Body <- TwiceBody
  StartOf <- TwiceStartOf
  Kind <- TwiceKind
  Accepted = {"Start", "Success", "Failed", "Paused", "Continued", "Deleted"}
  Operations = {"Pause", "Continue", "Delete"}
  MaxOps = 1
  MaxTicks = 0
  MaxErrors = 0
  MaxCrashes = 1
SPECIFICATION Spec
CHECK_DEADLOCK FALSE
INVARIANTS SchedulerInv
PROPERTIES StartKnown DeletedStays
