SPECIFICATION Spec
CONSTANTS
  a = a
  b = b
  d = d
  Nodes = {a, b, d}
  Unbillable = {}
  Price <- Prices
  Unit = 10
  Consumers = {c1, c2}
  NoBill = NoBill
  NoNotice = NoNotice
  FailAt = {"flow", "open", "node", "save"}
  MaxPublish = 1
  MaxFail = 1
  MaxLeave = 1
INVARIANTS BillingInv NeverOvercharged
CHECK_DEADLOCK FALSE
