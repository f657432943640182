SPECIFICATION FairSpec
CONSTANTS
  r1 = r1
  r2 = r2
  r3 = r3
  t1 = t1
  t2 = t2
  Requests = {r1, r3}
  Transactions = {t1, t2}
  TransactionOf <- SharedAndSole
  Calls = {1, 2}
  None = None
  MaxBlocks = 2
INVARIANTS
  TypeOK
  AnsweredOnce
  AnswerIsUsable
  ReleasedIsGone
PROPERTIES
  EveryRequestAnswered
