\* Two guests and two admins who end and confirm reservations.
SPECIFICATION FairSpec
CONSTANTS
  q1 = q1  q2 = q2  q3 = q3  old = old  a1 = a1  a2 = a2
  l1 = l1  p1 = p1  p2 = p2  u1 = u1  k1 = k1  d1 = d1  d2 = d2
  Requests = {q1, q2}
  OldRows = {}
  Admins = {a1, a2}
  Locations = {l1}
  Digits = {p1}
  Users = {}
  Keys = {}
  Details = {d1}
  MaxCreated = 1
  MaxActive = 1
  None = None
INVARIANTS
  GuestLimits
  StampsTellHistory
PROPERTIES
  RequestsAnswered
