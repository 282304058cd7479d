\* One scheduled order and the loop that should activate it.
SPECIFICATION LiveSpec
CONSTANTS
  q1 = q1  q2 = q2  q3 = q3  s1 = s1  s2 = s2
  l1 = l1  l2 = l2  far = far  t1 = t1  u1 = u1
  Requests = {q1}
  Subscribers = {}
  OwnLocations = {l1, l2}
  Locations = {l1, l2, far}
  Tables = {t1}
  TableLocation <- MCTableLocation
  Clients = {u1, Guest}
  Guest = Guest
  Inputs <- MCInputs
  Plans = {Free, Max}
  Free = Free  Max = Max
  OrdersPerMonth <- MCOrdersPerMonth
  OfferedPlans = {Free}
  MaxTime = 1
  MonthLength = 1
  Lead = 0
  AdminStatuses = {"accepted", "cancelled"}
  KdsLimit = 2
  None = None
PROPERTIES
  ScheduledOrderActivated
