CONSTANTS
  a = a
  b = b
  u1 = u1
  u2 = u2
  m1 = m1
  m2 = m2
  h1 = h1
  h2 = h2
  Uploads = {u1, u2}
  Metas = {m1, m2}
  Hashes = {h1, h2}
  Parts = {1, 2}
  Handlers = {a, b}
  Asks <- RemovedWhileReused
  Runner = Runner
  None = None
  Bad = Bad
SPECIFICATION Spec
INVARIANT SnapshotKept
CHECK_DEADLOCK FALSE
