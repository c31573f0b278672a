------------------------------ MODULE ArpCache ------------------------------
(***************************************************************************)
(* Address resolution on one interface: ArpCache (arp-cache.cc) and        *)
(* ArpL3Protocol (arp-l3-protocol.cc) of src/internet/model, with what     *)
(* Ipv4L3Protocol and NeighborCacheHelper do to the entries of the cache.  *)
(*                                                                         *)
(* A packet whose destination is not resolved waits in its entry; requests *)
(* go out after a jitter and are repeated by one timer for all entries     *)
(* that wait, until a reply comes or the retries are used up.              *)
(*                                                                         *)
(* Time is relative to now: how long ago an entry was last seen, which is  *)
(* not counted beyond the longest timeout, and how long until an event.    *)
(* Events of one instant run in any order.  The network is external: it    *)
(* may answer a request that was sent at any later time, again or never.   *)
(* Abstracted: hardware addresses, and malformed or foreign ARP packets.   *)
(***************************************************************************)
EXTENDS Naturals, Sequences, FiniteSets

CONSTANTS Addresses,        \* destinations on the link
          Jitters,          \* the values of RequestJitter
          WaitReplyTimeout, AliveTimeout, DeadTimeout,
          MaxRetries, PendingQueueSize,
          MaxPackets,       \* bound: packets that the node sends
          MaxChanges        \* bound: link changes and neighbour updates

ASSUME ArpAssumption ==
  /\ Jitters \subseteq Nat /\ Jitters # {}
  /\ WaitReplyTimeout \in Nat \ {0} /\ AliveTimeout \in Nat
  /\ DeadTimeout \in Nat /\ MaxRetries \in Nat /\ PendingQueueSize \in Nat
  /\ MaxPackets \in Nat /\ MaxChanges \in Nat

VARIABLES
  m_arpCache,       \* the entry of each address, or NoEntry
  m_waitReplyTimer, \* time until HandleWaitReplyTimeout runs, or NotPending
  requests,         \* the events that will send a request: for whom, and when
  asked,            \* the addresses for which a request was sent
  nPackets,         \* the packets sent so far, which number them
  fate,             \* what became of each: see Fates
  nChanges          \* what MaxChanges bounds

vars == <<m_arpCache, m_waitReplyTimer, requests, asked, nPackets, fate,
          nChanges>>

NoEntry == [state |-> "NONE"]
NotPending == WaitReplyTimeout + 1

\* Pending, handed to the traffic control, dropped under a trace, deleted with
\* its entry, or held by an entry that waits for nothing any more.
Fates == {"pending", "sent", "dropped", "deleted", "held"}

Larger(a, b) == IF a >= b THEN a ELSE b
LongestWait == (MaxRetries + 1) * WaitReplyTimeout
LongestTimeout ==
  Larger(WaitReplyTimeout, Larger(AliveTimeout, DeadTimeout))

-----------------------------------------------------------------------------
(* Entries.  waited counts the time since MarkWaitReply.                   *)

IsIn(a, state) == m_arpCache[a].state = state

GetTimeout(entry) == CASE entry.state = "WAIT_REPLY" -> WaitReplyTimeout
                       [] entry.state = "DEAD" -> DeadTimeout
                       [] entry.state = "ALIVE" -> AliveTimeout

\* delta > timeout; PERMANENT and STATIC_AUTOGENERATED entries never expire.
IsExpired(entry) == entry.state # "STATIC_AUTOGENERATED"
                      /\ entry.age > GetTimeout(entry)

\* The constructor, and what is kept of an entry that is marked.
NewEntry == [state |-> "ALIVE", age |-> 0, retries |-> 0, waited |-> 0,
             pending |-> <<>>]

Waiting(entry, p) == [entry EXCEPT !.state = "WAIT_REPLY", !.age = 0,
                                   !.waited = 0, !.pending = Append(@, p)]

\* Mutant: the retries are not cleared.
MarkedAsItWas(entry, state) == [entry EXCEPT !.state = state, !.age = 0]

\* MarkAlive, MarkDead and MarkAutoGenerated.
Marked(entry, state) ==
  [entry EXCEPT !.state = state, !.age = 0, !.retries = 0]

Retried(entry) == [entry EXCEPT !.retries = @ + 1, !.age = 0]

Emptied(entry) == [entry EXCEPT !.pending = <<>>]

Pending(a) == IF IsIn(a, "NONE") THEN {}
              ELSE {m_arpCache[a].pending[i] :
                      i \in DOMAIN m_arpCache[a].pending}

\* The fates when the packets of the addresses A come to theirs.
FateOf(packets, f) ==
  [p \in 1 .. MaxPackets |-> IF p \in packets THEN f ELSE fate[p]]

-----------------------------------------------------------------------------
Init == /\ m_arpCache = [a \in Addresses |-> NoEntry]
        /\ m_waitReplyTimer = NotPending
        /\ requests = {} /\ asked = {}
        /\ nPackets = 0
        /\ fate = [p \in 1 .. MaxPackets |-> "none"]
        /\ nChanges = 0

\* Mutant: the timer is started anew.
TimerRestarted == WaitReplyTimeout

\* StartWaitReplyTimer.
TimerStarted == IF m_waitReplyTimer = NotPending THEN WaitReplyTimeout
                ELSE m_waitReplyTimer

\* A packet for a, which Ipv4Interface::Send gives to Lookup.
NextPacket(f) == /\ nPackets < MaxPackets
                 /\ nPackets' = nPackets + 1
                 /\ fate' = [fate EXCEPT ![nPackets'] = f]

\* Lookup finds no entry, or one that has expired: the packet waits, and a
\* request goes out after the jitter.
LookupUnresolved(a) ==
  /\ \/ IsIn(a, "NONE")
     \/ (IsIn(a, "ALIVE") \/ IsIn(a, "DEAD")) /\ IsExpired(m_arpCache[a])
  /\ NextPacket("pending")
  /\ LET entry == IF IsIn(a, "NONE") THEN NewEntry ELSE m_arpCache[a]
     IN m_arpCache' = [m_arpCache EXCEPT ![a] = Waiting(entry, nPackets')]
  /\ m_waitReplyTimer' = TimerStarted
  /\ \E jitter \in Jitters :
       requests' = requests \cup {[to |-> a, left |-> jitter]}
  /\ UNCHANGED <<asked, nChanges>>

\* Mutant: the limit is compared before the packet is counted.
HasRoomForOne(a) == Len(m_arpCache[a].pending) <= PendingQueueSize

\* The test of UpdateWaitReply.
HasRoom(a) == Len(m_arpCache[a].pending) < PendingQueueSize

\* UpdateWaitReply: the packet waits with those before it, if there is room.
LookupWaiting(a) ==
  /\ IsIn(a, "WAIT_REPLY") /\ ~IsExpired(m_arpCache[a])
  /\ IF HasRoom(a)
     THEN /\ NextPacket("pending")
          /\ m_arpCache' = [m_arpCache EXCEPT
                              ![a].pending = Append(@, nPackets')]
     ELSE NextPacket("dropped") /\ UNCHANGED m_arpCache
  /\ UNCHANGED <<m_waitReplyTimer, requests, asked, nChanges>>

\* A dead entry drops the packet, an entry with an address lets it go.
LookupKnown(a) ==
  /\ \/ IsIn(a, "DEAD") /\ ~IsExpired(m_arpCache[a]) /\ NextPacket("dropped")
     \/ IsIn(a, "ALIVE") /\ ~IsExpired(m_arpCache[a]) /\ NextPacket("sent")
     \/ IsIn(a, "STATIC_AUTOGENERATED") /\ NextPacket("sent")
  /\ UNCHANGED <<m_arpCache, m_waitReplyTimer, requests, asked, nChanges>>

\* SendArpRequest, when its jitter is over.
SendArpRequest ==
  /\ \E r \in requests : /\ r.left = 0
                         /\ requests' = requests \ {r}
                         /\ asked' = asked \cup {r.to}
  /\ UNCHANGED <<m_arpCache, m_waitReplyTimer, nPackets, fate, nChanges>>

\* Receive, for a reply: the packets go out if it was waited for.  (A reply that
\* comes too late is dropped, and changes nothing.)
ReceiveReply(a) ==
  /\ a \in asked /\ IsIn(a, "WAIT_REPLY")
  /\ m_arpCache' = [m_arpCache EXCEPT ![a] = Emptied(Marked(@, "ALIVE"))]
  /\ fate' = FateOf(Pending(a), "sent")
  /\ UNCHANGED <<m_waitReplyTimer, requests, asked, nPackets, nChanges>>

\* HandleWaitReplyTimeout, for all entries that wait.
Waiters == {a \in Addresses : IsIn(a, "WAIT_REPLY")}
ToRetry == {a \in Waiters : m_arpCache[a].retries < MaxRetries}

\* Mutant: the timer goes on only for an entry that waits alone.
RestartsForOne == Cardinality(ToRetry) = 1

RestartWaitReplyTimer == ToRetry # {}

HandleWaitReplyTimeout ==
  /\ m_waitReplyTimer = 0
  /\ m_arpCache' =
       [a \in Addresses |->
          IF a \in ToRetry THEN Retried(m_arpCache[a])
          ELSE IF a \in Waiters THEN Emptied(Marked(m_arpCache[a], "DEAD"))
          ELSE m_arpCache[a]]
  /\ fate' = FateOf(UNION {Pending(a) : a \in Waiters \ ToRetry}, "dropped")
  /\ asked' = asked \cup ToRetry
  /\ m_waitReplyTimer' =
       IF RestartWaitReplyTimer THEN WaitReplyTimeout ELSE NotPending
  /\ UNCHANGED <<requests, nPackets, nChanges>>

-----------------------------------------------------------------------------
(* What others do to the cache.                                            *)

\* Ipv4L3Protocol::Receive: a packet of a neighbour keeps its entry alive.
UpdateSeen(a) ==
  /\ IsIn(a, "ALIVE")
  /\ m_arpCache' = [m_arpCache EXCEPT ![a].age = 0]
  /\ UNCHANGED <<m_waitReplyTimer, requests, asked, nPackets, fate, nChanges>>

Change == nChanges < MaxChanges /\ nChanges' = nChanges + 1

\* Flush, when the link goes up or down: entries are deleted with their
\* packets.
Flush ==
  /\ Change
  /\ m_arpCache' = [a \in Addresses |-> NoEntry]
  /\ fate' = FateOf(UNION {Pending(a) : a \in Addresses}, "deleted")
  /\ m_waitReplyTimer' = NotPending
  /\ UNCHANGED <<requests, asked, nPackets>>

\* NeighborCacheHelper::AddEntry, when a neighbour gets an address: packets that
\* wait in the entry stay there.
AddAutoGenerated(a) ==
  /\ Change
  /\ LET entry == IF IsIn(a, "NONE") THEN NewEntry ELSE m_arpCache[a]
     IN m_arpCache' = [m_arpCache EXCEPT
                         ![a] = Marked(entry, "STATIC_AUTOGENERATED")]
  /\ fate' = FateOf(Pending(a), "held")
  /\ UNCHANGED <<m_waitReplyTimer, requests, asked, nPackets>>

\* Remove, when a neighbour loses its address, and RemoveAutoGeneratedEntries.
RemoveEntries(A) ==
  /\ Change
  /\ \/ \E a \in Addresses : A = {a} /\ ~IsIn(a, "NONE")
     \/ A = {a \in Addresses : IsIn(a, "STATIC_AUTOGENERATED")}
  /\ m_arpCache' = [a \in Addresses |->
                      IF a \in A THEN NoEntry ELSE m_arpCache[a]]
  /\ fate' = FateOf(UNION {Pending(a) : a \in A}, "deleted")
  /\ UNCHANGED <<m_waitReplyTimer, requests, asked, nPackets>>

-----------------------------------------------------------------------------
\* Time goes on to the next instant when no event of this one is left.
Aged(entry) ==
  IF entry = NoEntry THEN entry
  ELSE [entry EXCEPT
          !.age = IF @ > LongestTimeout THEN @ ELSE @ + 1,
          !.waited = IF entry.state # "WAIT_REPLY" THEN 0
                     ELSE IF @ > LongestWait THEN @ ELSE @ + 1]

Tick ==
  /\ m_waitReplyTimer # 0 /\ \A r \in requests : r.left # 0
  /\ m_arpCache' = [a \in Addresses |-> Aged(m_arpCache[a])]
  /\ m_waitReplyTimer' =
       IF m_waitReplyTimer = NotPending THEN NotPending
       ELSE m_waitReplyTimer - 1
  /\ requests' = {[r EXCEPT !.left = @ - 1] : r \in requests}
  /\ UNCHANGED <<asked, nPackets, fate, nChanges>>

Lookup(a) == LookupUnresolved(a) \/ LookupWaiting(a) \/ LookupKnown(a)

Next == \/ \E a \in Addresses : \/ Lookup(a) \/ ReceiveReply(a)
                                \/ UpdateSeen(a) \/ AddAutoGenerated(a)
        \/ SendArpRequest \/ HandleWaitReplyTimeout \/ Flush \/ Tick
        \/ \E A \in SUBSET Addresses : RemoveEntries(A)

Spec == Init /\ [][Next]_vars

\* The simulation goes on: events that are due run, and time passes.  Nothing
\* is assumed of the network.
FairSpec == Spec /\ WF_vars(SendArpRequest \/ HandleWaitReplyTimeout \/ Tick)

-----------------------------------------------------------------------------
Entries == [state : {"ALIVE", "WAIT_REPLY", "DEAD", "STATIC_AUTOGENERATED"},
            age : 0 .. LongestTimeout + 1, retries : 0 .. MaxRetries,
            waited : 0 .. LongestWait + 1, pending : Seq(1 .. MaxPackets)]

\* Every variable has its type.  No queue of an entry is longer than it may be,
\* nor does a packet that waits have another fate.
TypeOK ==
  /\ m_arpCache \in [Addresses -> Entries \cup {NoEntry}]
  /\ m_waitReplyTimer \in 0 .. NotPending
  /\ requests \subseteq [to : Addresses, left : Nat]
  /\ asked \subseteq Addresses
  /\ nPackets \in 0 .. MaxPackets /\ nChanges \in 0 .. MaxChanges
  /\ fate \in [1 .. MaxPackets -> Fates \cup {"none"}]
  /\ \A a \in Addresses : Cardinality(Pending(a)) <= Larger(1, PendingQueueSize)
  /\ {p \in 1 .. MaxPackets : fate[p] = "pending"}
       = UNION {Pending(a) : a \in Waiters}

\* The one timer serves every entry that waits: it is pending, and comes before
\* the entry expires, which Lookup takes for unreachable (NS_FATAL_ERROR at
\* arp-l3-protocol.cc:314).
WaitIsTimed ==
  \A a \in Waiters : /\ m_waitReplyTimer # NotPending
                     /\ m_arpCache[a].age + m_waitReplyTimer <= WaitReplyTimeout

\* An address is given up after MaxRetries repeated requests, no sooner than as
\* many timeouts and no later than one more, although the timer was started for
\* another address.
GivenUpInTime ==
  [][\A a \in Addresses :
       IsIn(a, "WAIT_REPLY") /\ m_arpCache'[a].state = "DEAD"
         => /\ m_arpCache[a].retries = MaxRetries
            /\ m_arpCache[a].waited >= MaxRetries * WaitReplyTimeout
            /\ m_arpCache[a].waited <= (MaxRetries + 1) * WaitReplyTimeout
    ]_vars

\* A packet that waits for an address is sent or dropped in the end, whatever
\* the network does, unless its entry is deleted or made static.
EveryPacketSettles ==
  \A p \in 1 .. MaxPackets : fate[p] = "pending" ~> fate[p] # "pending"

=============================================================================
