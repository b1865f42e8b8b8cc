SPECIFICATION Spec
CONSTANTS
  Users = {u1}
  TxnIds = {t1, t2, t3}
  Sessions = {s1, s2}
  Amounts = {1, 2}
  Ops <- TopupOnly
  WebhookOutcomes <- Callbacks
  None = None
INVARIANT ConfirmedIsCredited
CHECK_DEADLOCK TRUE
