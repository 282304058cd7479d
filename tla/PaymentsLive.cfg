\* Outside production: Payme and the sandbox callback; replies may be lost, the
\* worker may restart.
SPECIFICATION MonitoredSpec
CONSTANTS
  o1 = o1  o2 = o2  r1 = r1  r2 = r2  r3 = r3  k1 = k1  m1 = m1  m2 = m2  c1 = c1
  Orders = {o1}
  Requests = {r1, r2}
  Keys = {k1}
  PaymeTx = {m1}
  ClickTx = {}
  WrongAmount = {}
  Configured = {"payme", "sandbox"}
  Sandbox = TRUE
  CrossPay = FALSE
  SandboxTx = SandboxTx
  Targets = {"accepted", "cancelled"}
  None = None
PROPERTIES
  LedgerSpec
  RequestsAnswered
  CreatedIsSettled
