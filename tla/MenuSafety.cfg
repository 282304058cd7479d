\* Three requests of an admin, interleaved, on a menu with one product.
SPECIFICATION Spec
CONSTANTS
  k1 = k1  k2 = k2  f = f  p1 = p1  p2 = p2  v1 = v1  v2 = v2  g1 = g1  g2 = g2  o1 = o1  o2 = o2  o3 = o3
  x = x  y = y  z = z  ru = ru  q1 = q1  q2 = q2  q3 = q3
  Requests = {q1, q2, q3}
  Categories = {k1, k2, f}
  Products = {p1, p2}
  Variants = {v1, v2}
  Groups = {g1, g2}
  Options = {o1, o2, o3}
  Photos = {x, y, z}
  Languages = {ru}
  Foreign = {f}
  Offered <- MCOffered
  Times = {1, 3}
  Selections = {0, 1, 2}
  Hours = 4
  Zones = {0, 3}
  Bad = Bad
  ProductsLimit = 2
  Existing <- MCExisting
  None = None
SYMMETRY RequestSymmetry
INVARIANTS
  TypeOK
  SoldAsShown
  ShownPhotosExist
  GroupBounds
CHECK_DEADLOCK FALSE
