SPECIFICATION Spec
CONSTANTS
  a = a
  b = b
  c = c
  d = d
  s = s
  t = t
  Roots = {a, b, c, d}
  Subs = {}
  ParentOf <- NoSubs
  Relations <- Side
  NoActionNodes = {a}
  MilestoneNodes = {d}
  Workers = {w1, w2}
  Consumer = consumer
  NoNode = NoNode
  AutoTouch = FALSE
  AgentResults = {"Success", "Failed", "Paused", "Continued", "Deleted"}
  MaxStart = 2
  MaxOps = 1
  MaxPosts = 1
  MaxFail = 0
  MaxCrash = 1
INVARIANTS IInv DispatchedInOrder
PROPERTY OrderSpec
CHECK_DEADLOCK FALSE
