CONSTANTS
  t1 = t1
  m1 = m1
  m2 = m2
  u1 = u1
  c1 = c1
  c2 = c2
  d2 = d2
  None = None
  Busy = Busy
  Tasks = {t1}
  Starts = {m1}
  Subs = {u1, c1, c2}
  Workers = {"w1", "w2"}
  TaskOf <- OneTask
  Body <- OneBody
  StartOf <- OneStartOf
  Kind <- OneKind
  Accepted = {"Start", "Success", "Failed", "Paused", "Continued", "Deleted"}
  Operations = {"Pause", "Continue", "Delete"}
  MaxOps = 0
  MaxTicks = 2
  MaxErrors = 1
  MaxCrashes = 1
SPECIFICATION FairSpec
CHECK_DEADLOCK FALSE
 
PROPERTIES InOrder EventuallyAnswered
