\* Overlapping orders at the limit of the plan, a checkout, a change of plan, the turn of the month.
SPECIFICATION Spec
CONSTANTS
  q1 = q1  q2 = q2  q3 = q3  s1 = s1  s2 = s2
  l1 = l1  l2 = l2  far = far  t1 = t1  u1 = u1
  Requests = {q1, q2}
  Subscribers = {s1, s2}
  OwnLocations = {l1, l2}
  Locations = {l1, l2, far}
  Tables = {t1}
  TableLocation <- MCTableLocation
  Clients = {u1, Guest}
  Guest = Guest
  Inputs <- MCInputs
  Plans = {Free, Max}
  Free = Free  Max = Max
  OrdersPerMonth <- MCOrdersPerMonth
  OfferedPlans = {Free}
  MaxTime = 1
  MonthLength = 1
  Lead = 0
  AdminStatuses = {"accepted", "cancelled"}
  KdsLimit = 1
  None = None
SYMMETRY RequestSymmetry
INVARIANTS
  TypeOK
  OneActiveSubscription
  LocksReleased
  AcceptedIsServed
  NoticesTellTruth
  TablesServeLocation
PROPERTIES
  QuotaRespected
