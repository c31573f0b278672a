CONSTANTS
          Addresses = {a1, a2}
          Jitters = {0, 1}
          WaitReplyTimeout = 2
          AliveTimeout = 3
          DeadTimeout = 2
          MaxRetries = 2
          PendingQueueSize = 2
          MaxPackets = 4
          MaxChanges = 1
SPECIFICATION FairSpec
INVARIANTS TypeOK WaitIsTimed
PROPERTIES GivenUpInTime EveryPacketSettles
