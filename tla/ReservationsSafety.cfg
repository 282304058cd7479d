\* Parallel requests of guests and a verified user under one key, and an old row.
SPECIFICATION Spec
CONSTANTS
  q1 = q1  q2 = q2  q3 = q3  old = old  a1 = a1  a2 = a2
  l1 = l1  p1 = p1  p2 = p2  u1 = u1  k1 = k1  d1 = d1  d2 = d2
  Requests = {q1, q2, q3}
  OldRows = {old}
  Admins = {}
  Locations = {l1}
  Digits = {p1}
  Users = {u1}
  Keys = {k1}
  Details = {d1, d2}
  MaxCreated = 2
  MaxActive = 1
  None = None
SYMMETRY RequestSymmetry
INVARIANTS
  TypeOK
  IdempotentReplay
PROPERTIES
  RetryNotRefused
