SPECIFICATION FairSpec
CONSTANTS NTxQueues = {1, 2}
          Sizes = {1, 3}
          MaxPackets = 4
          DiscSize = 3
          QueueSizes <- SmallQueueSizes
          Mtu = 2
          Quota = 2
          Limits = {0, 3}
CHECK_DEADLOCK FALSE
INVARIANTS NeverDiscards NoneStranded OrderKept WorkConserving
PROPERTIES QueueSpec EveryPacketLeaves
