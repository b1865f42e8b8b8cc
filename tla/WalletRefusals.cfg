SPECIFICATION Spec
CONSTANTS
  Users = {u1}
  TxnIds = {t1, t2, t3}
  Sessions = {s1, s2}
  Amounts = {1}
  Ops <- Deductions
  WebhookOutcomes <- Declines
  None = None
PROPERTY RefusalRecorded
CHECK_DEADLOCK TRUE
