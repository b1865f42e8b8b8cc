SPECIFICATION AccountLiveSpec
CONSTANTS
  Users = {u1}
  TxnIds = {t1, t2, t3}
  Sessions = {s1, s2}
  Amounts = {1}
  Ops <- AllRequests
  WebhookOutcomes <- Declines
  None = None
  Sockets = {w1, w2}
  Notes = {n1, n2}
  MaxQueue = 2
  MaxAttempts = 2
  Nobody = Nobody
INVARIANTS TypeOK Solvent BalanceIsLedger CompletedWasApplied
  MailTypeOK RegisteredIsWatched
PROPERTIES EveryCallEnds MailCallsEnd
CHECK_DEADLOCK TRUE
