\* Three requests about one cart while prices and availability change.
SPECIFICATION FairSpec
CONSTANTS
  r1 = r1  r2 = r2  r3 = r3  r4 = r4  s1 = s1  s2 = s2  p1 = p1  p2 = p2  k1 = k1
  Requests = {r1, r2, r3}
  Sessions = {s1}
  Products = {p1}
  Prices = {1, 2}
  Quantities = {1}
  Keys = {k1}
  None = None
PROPERTIES
  BasketSpec
  RequestsAnswered
