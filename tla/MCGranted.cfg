SPECIFICATION FairSpec
CONSTANTS r1 = r1  r2 = r2  r3 = r3  a = a  b = b  c = c  d = d
          Ranks = {r1, r2, r3}
          Links = {a, b, c, d}
          From <- RowFrom
          To <- RowTo
          Delay <- RowDelay
          TxTime <- RowTxTime
          MaximumTime = 50
          LookAheadBound = 50
          Stops = {3, 50}
          Starts = {0}
          Delays = {2}
          MaxCalls = 2
          MaxRuns = 2
CHECK_DEADLOCK FALSE
INVARIANTS NeverInPast LeaveTogether
PROPERTY EveryRankFinishes
