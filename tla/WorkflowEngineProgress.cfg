SPECIFICATION FairSpec
CONSTANTS
  a = a
  b = b
  c = c
  d = d
  s = s
  t = t
  Roots = {a, b, c}
  Subs = {s, t}
  ParentOf <- BatchOfA
  Relations <- Fan
  NoActionNodes = {c}
  MilestoneNodes = {}
  Workers = {w1, w2}
  Consumer = consumer
  NoNode = NoNode
  AutoTouch = TRUE
  AgentResults = {"Success"}
  MaxStart = 1
  MaxOps = 0
  MaxPosts = 1
  MaxFail = 1
  MaxCrash = 0
INVARIANTS CommitBeforeSend NoDoubleDispatch
PROPERTIES FinishedStays EventuallyAllFinished
CHECK_DEADLOCK FALSE
