SPECIFICATION FairSpec
CONSTANTS
  t1 = t1
  t2 = t2
  claim = claim
  fail = fail
  None = None
  Tasks = {t1, t2}
  Kinds = {claim, fail}
  Wanted = {fail}
  BatchLimit = 2
  EventLimit = 3
  PollInterval = 2
  HeartbeatInterval = 4
  IdleLimit = 8
  MaxAppends = 4
INVARIANTS
  NothingSkipped
  InLedgerOrder
  NeverSilentForLong
PROPERTIES
  EveryEventArrives
