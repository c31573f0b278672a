SPECIFICATION FairSpec
CONSTANTS r1 = r1  r2 = r2  a = a  b = b  c = c  d = d
          Ranks = {r1, r2}
          Links = {a, b, c, d}
          From <- SmallFrom
          To <- SmallTo
          Delay <- SmallDelay
          TxTime <- SmallTxTime
          Tune = 100
          FlowControl = TRUE
          StopTime = 5
          Starts = {1}
          Delays = {0, 1}
          MaxSends = 2
          MaxScheds = 1
CHECK_DEADLOCK FALSE
INVARIANTS TypeOK NeverInPast GuaranteeKept
PROPERTY EveryRankStops
