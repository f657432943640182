SPECIFICATION FairSpec
CONSTANTS
  Tasks = {t1, t2}
  NoTask = NoTask
  Keys = {k1, bad}
  BadKeys = {bad}
  NoKey = NoKey
  Listeners = {l1}
  MaxCalls = 1
  MaxAttemptForBackoff = 2
INVARIANTS
  TypeOK
  ClosedStaysClosed
  OneLiveSocket
  RetryIsArmed
PROPERTIES
  LostIsRetried
