SPECIFICATION Spec
CONSTANTS
  u = u  v = v  d = d  f = f  m = m  n = n  x = x
  r1 = r1  r2 = r2  r3 = r3  t1 = t1  t2 = t2
  None = None
  Users = {u, v}
  Drafts = {d}
  Flows = {f}
  Nodes = {m, n}
  Owner <- OwnerC
  FlowOf <- FlowOfC
  Uploads = {r1, r2, r3}
  Names = {x}
  Stamps = {t1, t2}
  MaxTries = 2
  Requests <- RequestsC
SYMMETRY Symmetry
INVARIANTS
  Tree InPlace NamesApart RefusedOnce
CHECK_DEADLOCK FALSE
