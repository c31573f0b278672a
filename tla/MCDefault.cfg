CONSTANTS
  Events = {e1, e2}
  Threads = {t1, t2}
  Delays = {0, 1, 2}
  UidModulus = 6
SPECIFICATION FairSpec
INVARIANTS
  ExpiredExact
  NoEventLost
  AccountingOK
  FlagHonest
  PostingOrderKept
PROPERTIES
  RevokedNeverRuns
  SchedulerContract
  EveryEventSettles
