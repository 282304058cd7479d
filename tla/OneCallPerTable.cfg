\* Two requests for the waiter of one table.
SPECIFICATION Spec
CONSTANTS
  A = A  B = B  R = R  S = S  N = N  x = x  y = y  z = z  b1 = b1  b2 = b2
  own = own  adm = adm  sup = sup  new = new  t1 = t1  t2 = t2  t3 = t3  t4 = t4  c1 = c1  c2 = c2  c3 = c3
  q1 = q1  q2 = q2  q3 = q3
  Requests = {q1, q2}
  Agencies = {A, B}
  Restaurants = {R, S, N}
  Slugs = {x, y, z}
  Bots = {b1, b2}
  Tokens = {own, adm, sup, new}
  MaxLocations = 3
  Tables = {t1, t2, t3, t4}
  Calls = {c1, c2, c3}
  Existing <- MCExisting
  CallStatuses = {"accepted", "cancelled"}
  Numbers = {1, 2, 3}
  MaxTime = 2
  TokenLife = 1
  None = None
INVARIANTS
  OneCallPerTable
CHECK_DEADLOCK FALSE
