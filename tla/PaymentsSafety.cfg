\* Two overlapping requests for one order, both providers, in production.
SPECIFICATION Spec
CONSTANTS
  o1 = o1  o2 = o2  r1 = r1  r2 = r2  r3 = r3  k1 = k1  m1 = m1  m2 = m2  c1 = c1
  Orders = {o1}
  Requests = {r1, r2}
  Keys = {k1}
  PaymeTx = {m1, m2}
  ClickTx = {c1}
  WrongAmount = {m2}
  Configured = {"payme", "click"}
  Sandbox = FALSE
  CrossPay = TRUE
  SandboxTx = SandboxTx
  Targets = {"new", "accepted", "preparing", "ready_for_delivery",
             "delivering", "completed", "cancelled"}
  None = None
SYMMETRY RequestSymmetry
INVARIANTS
  TypeOK
  OneActivePayment
  IdempotentReplay
  PaidProjection
  MoneyIsExact
  ProviderAgreement
  AttemptsAgree
PROPERTIES
  LedgerSpec
  PaidOrderNotCancelled
