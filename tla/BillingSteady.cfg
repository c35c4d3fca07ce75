SPECIFICATION FairSpec
CONSTANTS
  a = a
  b = b
  d = d
  Nodes = {a, b, d}
  Unbillable = {a}
  Price <- Prices
  Unit = 10
  Consumers = {c1}
  NoBill = NoBill
  NoNotice = NoNotice
  FailAt = {"total", "notify"}
  MaxPublish = 2
  MaxFail = 2
  MaxLeave = 0
INVARIANTS NoticeBalances
PROPERTY EventuallyCharged
CHECK_DEADLOCK FALSE
