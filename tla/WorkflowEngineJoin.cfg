SPECIFICATION Spec
CONSTANTS
  a = a
  b = b
  c = c
  d = d
  s = s
  t = t
  Roots = {a, b, c}
  Subs = {}
  ParentOf <- NoSubs
  Relations <- Join
  NoActionNodes = {}
  MilestoneNodes = {}
  Workers = {w1}
  Consumer = consumer
  NoNode = NoNode
  AutoTouch = FALSE
  AgentResults = {"Success"}
  MaxStart = 1
  MaxOps = 0
  MaxPosts = 1
  MaxFail = 0
  MaxCrash = 0
INVARIANTS FinishedMeansAllDone
CHECK_DEADLOCK FALSE
