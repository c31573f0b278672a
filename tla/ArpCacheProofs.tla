--------------------------- MODULE ArpCacheProofs ---------------------------
(***************************************************************************)
(* What holds of ArpCache for any destinations, jitters and timeouts.      *)
(***************************************************************************)
EXTENDS ArpCache, FiniteSetTheorems, TLAPS

LEMMA ConstantsTyped ==
  /\ WaitReplyTimeout \in Nat \ {0} /\ AliveTimeout \in Nat
  /\ DeadTimeout \in Nat /\ MaxRetries \in Nat /\ PendingQueueSize \in Nat
  /\ MaxPackets \in Nat /\ MaxChanges \in Nat
  /\ Jitters \subseteq Nat /\ Jitters # {}
BY ArpAssumption

\* The longest times, of which only this is used.
LEMMA Longest ==
  /\ LongestTimeout \in Nat /\ WaitReplyTimeout <= LongestTimeout
  /\ LongestWait \in Nat /\ NotPending \in Nat
  /\ NotPending = WaitReplyTimeout + 1
BY ConstantsTyped DEF LongestTimeout, LongestWait, Larger, NotPending

\* What a number of retries takes.
LEMMA Product ==
  ASSUME NEW r \in Nat
  PROVE  /\ r * WaitReplyTimeout \in Nat
         /\ (r + 1) * WaitReplyTimeout = r * WaitReplyTimeout + WaitReplyTimeout
         /\ r = 0 => r * WaitReplyTimeout = 0
BY ConstantsTyped

LEMMA ProductBound ==
  ASSUME NEW r \in 0 .. MaxRetries
  PROVE  r * WaitReplyTimeout + WaitReplyTimeout <= LongestWait
<1>1. PICK d \in Nat : MaxRetries = r + d
  BY ConstantsTyped
<1>2. (r + d) * WaitReplyTimeout = r * WaitReplyTimeout + d * WaitReplyTimeout
  BY ConstantsTyped
<1>3. r * WaitReplyTimeout \in Nat /\ d * WaitReplyTimeout \in Nat
  BY ConstantsTyped
<1> QED
  BY <1>1, <1>2, <1>3, Product, ConstantsTyped DEF LongestWait

-----------------------------------------------------------------------------
(* Entries.                                                                *)

\* The packets an entry holds.
Held(e) == {e.pending[i] : i \in DOMAIN e.pending}

\* Only an entry that waits has retries, and an entry that is alive or dead
\* holds nothing.
Sound(e) ==
  /\ e \in Entries
  /\ Len(e.pending) <= Larger(1, PendingQueueSize)
  /\ e.state \in {"ALIVE", "DEAD"} => e.pending = <<>>
  /\ e.state # "WAIT_REPLY" => e.retries = 0

LEMMA EntryTyped ==
  ASSUME NEW e \in Entries
  PROVE  /\ e.state \in {"ALIVE", "WAIT_REPLY", "DEAD", "STATIC_AUTOGENERATED"}
         /\ e.age \in 0 .. LongestTimeout + 1 /\ e.retries \in 0 .. MaxRetries
         /\ e.waited \in 0 .. LongestWait + 1
         /\ e.pending \in Seq(1 .. MaxPackets)
BY DEF Entries

LEMMA EntrySet ==
  ASSUME NEW e \in Entries,
         NEW s \in {"ALIVE", "WAIT_REPLY", "DEAD", "STATIC_AUTOGENERATED"},
         NEW n \in 0 .. LongestTimeout + 1, NEW r \in 0 .. MaxRetries,
         NEW w \in 0 .. LongestWait + 1, NEW p \in Seq(1 .. MaxPackets),
         NEW u, u = [e EXCEPT !.state = s, !.age = n, !.retries = r,
                              !.waited = w, !.pending = p]
  PROVE  /\ u \in Entries
         /\ u.state = s /\ u.age = n /\ u.retries = r /\ u.waited = w
         /\ u.pending = p
BY DEF Entries

LEMMA Zeros ==
  /\ 0 \in 0 .. LongestTimeout + 1 /\ 0 \in 0 .. LongestWait + 1
  /\ 0 \in 0 .. MaxRetries
BY ConstantsTyped, Longest

LEMMA NewEntrySound == Sound(NewEntry) /\ NewEntry.state = "ALIVE"
BY ConstantsTyped, Longest DEF Sound, NewEntry, Entries, Larger

\* A packet is added to an entry.
LEMMA AppendHeld ==
  ASSUME NEW q \in Seq(1 .. MaxPackets), NEW p \in 1 .. MaxPackets
  PROVE  /\ Append(q, p) \in Seq(1 .. MaxPackets)
         /\ Len(Append(q, p)) = Len(q) + 1
         /\ {Append(q, p)[i] : i \in DOMAIN Append(q, p)}
              = {q[i] : i \in DOMAIN q} \cup {p}
OBVIOUS

LEMMA WaitingSound ==
  ASSUME NEW e, Sound(e), e.state \in {"ALIVE", "DEAD"},
         NEW p \in 1 .. MaxPackets, NEW u, u = Waiting(e, p)
  PROVE  /\ Sound(u) /\ Held(u) = {p} /\ Held(e) = {}
         /\ u.state = "WAIT_REPLY" /\ u.age = 0 /\ u.waited = 0
         /\ u.retries = 0
<1>1. e \in Entries /\ e.retries = 0 /\ e.pending = <<>>
  BY DEF Sound
<1>2. /\ Append(e.pending, p) \in Seq(1 .. MaxPackets)
      /\ Len(Append(e.pending, p)) = 1
      /\ {Append(e.pending, p)[i] : i \in DOMAIN Append(e.pending, p)} = {p}
  BY <1>1
<1>3. /\ u \in Entries /\ u.state = "WAIT_REPLY" /\ u.age = 0
      /\ u.waited = 0 /\ u.retries = 0 /\ u.pending = Append(e.pending, p)
  <2>1. PICK q : q = Append(e.pending, p)
    OBVIOUS
  <2>2. q \in Seq(1 .. MaxPackets)
    BY <1>2, <2>1
  <2>3. u = [e EXCEPT !.state = "WAIT_REPLY", !.age = 0, !.waited = 0,
                      !.pending = q]
    BY <2>1, Zenon DEF Waiting
  <2> QED
    BY <1>1, <2>1, <2>2, <2>3, Zeros DEF Entries
<1>4. 1 <= Larger(1, PendingQueueSize)
  BY ConstantsTyped DEF Larger
<1> QED
  BY <1>1, <1>2, <1>3, <1>4 DEF Sound, Held

LEMMA AppendedSound ==
  ASSUME NEW e, Sound(e), e.state = "WAIT_REPLY",
         Len(e.pending) < PendingQueueSize,
         NEW p \in 1 .. MaxPackets,
         NEW u, u = [e EXCEPT !.pending = Append(@, p)]
  PROVE  /\ Sound(u) /\ Held(u) = Held(e) \cup {p}
         /\ u.state = e.state /\ u.age = e.age /\ u.waited = e.waited
         /\ u.retries = e.retries
<1>1. e \in Entries
  BY DEF Sound
<1>2. /\ Append(e.pending, p) \in Seq(1 .. MaxPackets)
      /\ Len(Append(e.pending, p)) = Len(e.pending) + 1
      /\ {Append(e.pending, p)[i] : i \in DOMAIN Append(e.pending, p)}
           = {e.pending[i] : i \in DOMAIN e.pending} \cup {p}
  BY <1>1, EntryTyped, AppendHeld
<1>3. /\ u \in Entries /\ u.state = e.state /\ u.age = e.age
      /\ u.waited = e.waited /\ u.retries = e.retries
      /\ u.pending = Append(e.pending, p)
  BY <1>1, <1>2 DEF Entries
<1>4. Len(u.pending) <= Larger(1, PendingQueueSize)
  <2>1. Len(e.pending) \in Nat
    BY <1>1, EntryTyped
  <2> QED
    BY <1>2, <1>3, <2>1, ConstantsTyped DEF Larger
<1>5. Sound(u)
  BY <1>3, <1>4 DEF Sound
<1>6. Held(u) = Held(e) \cup {p}
  BY <1>2, <1>3 DEF Held
<1> QED
  BY <1>3, <1>5, <1>6

\* An entry that is marked and emptied, or made static with what it holds.
LEMMA MarkedSound ==
  ASSUME NEW e, Sound(e), NEW s \in {"ALIVE", "DEAD", "STATIC_AUTOGENERATED"},
         NEW u, \/ u = Emptied(Marked(e, s))
                \/ u = Marked(e, s) /\ s = "STATIC_AUTOGENERATED"
  PROVE  Sound(u) /\ u.state = s /\ Held(u) \subseteq Held(e)
<1>1. e \in Entries /\ <<>> \in Seq(1 .. MaxPackets) /\ Len(<<>>) = 0
  BY DEF Sound
<1>2. Larger(1, PendingQueueSize) \in Nat
  BY ConstantsTyped DEF Larger
<1>3. CASE u = Emptied(Marked(e, s))
  <2>1. u \in Entries /\ u.state = s /\ u.retries = 0 /\ u.pending = <<>>
    BY <1>1, <1>3, Zeros DEF Emptied, Marked, Entries
  <2>2. Held(u) = {}
    BY <2>1 DEF Held
  <2> QED
    BY <1>1, <1>2, <2>1, <2>2 DEF Sound
<1>4. CASE u = Marked(e, s) /\ s = "STATIC_AUTOGENERATED"
  <2>1. u \in Entries /\ u.state = s /\ u.retries = 0 /\ u.pending = e.pending
    BY <1>1, <1>4, Zeros DEF Marked, Entries
  <2> QED
    BY <1>4, <2>1 DEF Sound, Held
<1> QED
  BY <1>3, <1>4

LEMMA RetriedSound ==
  ASSUME NEW e, Sound(e), e.state = "WAIT_REPLY", e.retries < MaxRetries,
         NEW u, u = Retried(e)
  PROVE  /\ Sound(u) /\ Held(u) = Held(e) /\ u.state = "WAIT_REPLY"
         /\ u.age = 0 /\ u.waited = e.waited /\ u.retries = e.retries + 1
<1>1. e \in Entries /\ e.retries + 1 \in 0 .. MaxRetries
  BY ConstantsTyped, EntryTyped DEF Sound
<1>2. /\ u \in Entries /\ u.state = "WAIT_REPLY" /\ u.age = 0
      /\ u.waited = e.waited /\ u.retries = e.retries + 1
      /\ u.pending = e.pending
  BY <1>1, Zeros DEF Retried, Entries
<1> QED
  BY <1>2 DEF Sound, Held

LEMMA SeenSound ==
  ASSUME NEW e, Sound(e), NEW u, u = [e EXCEPT !.age = 0]
  PROVE  Sound(u) /\ Held(u) = Held(e) /\ u.state = e.state
<1>1. e \in Entries
  BY DEF Sound
<1>2. /\ u \in Entries /\ u.state = e.state /\ u.retries = e.retries
      /\ u.pending = e.pending
  BY <1>1, Longest DEF Entries
<1> QED
  BY <1>2 DEF Sound, Held

\* Time passes; the bounds on what is counted are not met by an entry that
\* waits.
LEMMA AgedSound ==
  ASSUME NEW e, Sound(e), NEW u, u = Aged(e)
  PROVE  /\ Sound(u) /\ Held(u) = Held(e) /\ u.state = e.state
         /\ u.retries = e.retries
         /\ e.age <= LongestTimeout => u.age = e.age + 1
         /\ e.state = "WAIT_REPLY" /\ e.waited <= LongestWait
              => u.waited = e.waited + 1
<1>1. e \in Entries /\ e # NoEntry
  BY DEF Sound, Entries, NoEntry
<1>2. PICK n : n = IF e.age > LongestTimeout THEN e.age ELSE e.age + 1
  OBVIOUS
<1>3. PICK w : w = IF e.state # "WAIT_REPLY" THEN 0
                   ELSE IF e.waited > LongestWait THEN e.waited
                        ELSE e.waited + 1
  OBVIOUS
<1>4. n \in 0 .. LongestTimeout + 1 /\ w \in 0 .. LongestWait + 1
  BY <1>1, <1>2, <1>3, EntryTyped, Longest
<1>5. u = [e EXCEPT !.age = n, !.waited = w]
  BY <1>1, <1>2, <1>3 DEF Aged, Entries
<1>6. /\ u \in Entries /\ u.state = e.state /\ u.retries = e.retries
      /\ u.pending = e.pending /\ u.age = n /\ u.waited = w
  BY <1>1, <1>4, <1>5 DEF Entries
<1> QED
  BY <1>1, <1>2, <1>3, <1>6, EntryTyped, Longest DEF Sound, Held

-----------------------------------------------------------------------------
(* The invariant.                                                          *)

\* The entries are sound.
CacheOK ==
  /\ m_arpCache = [a \in Addresses |-> m_arpCache[a]]
  /\ \A a \in Addresses : m_arpCache[a] = NoEntry \/ Sound(m_arpCache[a])

\* The clock of an entry that waits: the timer is pending and comes before the
\* entry expires, and each retry stands for one timeout that has passed.
Timed(a) ==
  IsIn(a, "WAIT_REPLY")
    => /\ m_waitReplyTimer # NotPending
       /\ m_arpCache[a].age + m_waitReplyTimer <= WaitReplyTimeout
       /\ m_arpCache[a].retries * WaitReplyTimeout
            <= m_arpCache[a].waited + m_waitReplyTimer
       /\ m_arpCache[a].waited + m_waitReplyTimer
            <= m_arpCache[a].retries * WaitReplyTimeout + WaitReplyTimeout

\* A packet waits in one entry, and its fate says whether it does.
Booked ==
  /\ \A a \in Addresses : Pending(a) \subseteq 1 .. nPackets
  /\ \A a, b \in Addresses : Pending(a) \cap Pending(b) # {} => a = b
  /\ \A p \in 1 .. MaxPackets :
       fate[p] = "pending"
         <=> \E a \in Addresses : IsIn(a, "WAIT_REPLY") /\ p \in Pending(a)

OthersTyped ==
  /\ m_waitReplyTimer \in 0 .. NotPending
  /\ requests \subseteq [to : Addresses, left : Nat]
  /\ asked \subseteq Addresses
  /\ nPackets \in 0 .. MaxPackets /\ nChanges \in 0 .. MaxChanges
  /\ fate \in [1 .. MaxPackets -> Fates \cup {"none"}]

Inv == /\ CacheOK /\ Booked /\ OthersTyped
       /\ \A a \in Addresses : Timed(a)

\* What the cache says of one address.
LEMMA EntryOf ==
  ASSUME CacheOK, NEW a \in Addresses
  PROVE  /\ IsIn(a, "NONE") <=> m_arpCache[a] = NoEntry
         /\ IsIn(a, "NONE") => Pending(a) = {}
         /\ ~IsIn(a, "NONE") => /\ Sound(m_arpCache[a])
                                /\ Pending(a) = Held(m_arpCache[a])
<1>1. NoEntry.state = "NONE"
  BY DEF NoEntry
<1>2. Sound(m_arpCache[a]) => m_arpCache[a].state # "NONE"
  BY EntryTyped DEF Sound
<1> QED
  BY <1>1, <1>2 DEF CacheOK, IsIn, Pending, Held

LEMMA ExceptAt ==
  ASSUME NEW S, NEW f, f = [x \in S |-> f[x]], NEW a \in S, NEW v,
         NEW g, g = [f EXCEPT ![a] = v]
  PROVE  /\ g = [x \in S |-> g[x]] /\ g[a] = v
         /\ \A b \in S : b # a => g[b] = f[b]
OBVIOUS

\* The entry of one address is replaced.
LEMMA CacheExcept ==
  ASSUME CacheOK, NEW a \in Addresses, NEW u, u = NoEntry \/ Sound(u),
         m_arpCache' = [m_arpCache EXCEPT ![a] = u]
  PROVE  /\ CacheOK' /\ m_arpCache'[a] = u
         /\ \A b \in Addresses : b # a => m_arpCache'[b] = m_arpCache[b]
<1>1. /\ m_arpCache' = [x \in Addresses |-> m_arpCache'[x]]
      /\ m_arpCache'[a] = u
      /\ \A b \in Addresses : b # a => m_arpCache'[b] = m_arpCache[b]
  BY ExceptAt, Zenon DEF CacheOK
<1> QED
  BY <1>1 DEF CacheOK

LEMMA SameEntry ==
  ASSUME NEW a \in Addresses, m_arpCache'[a] = m_arpCache[a]
  PROVE  /\ Pending(a)' = Pending(a)
         /\ \A s : IsIn(a, s)' <=> IsIn(a, s)
BY DEF Pending, IsIn

\* The packets of the entries X come to the fate f, and the other entries keep
\* theirs.
LEMMA BookedAfter ==
  ASSUME Booked, OthersTyped, NEW X \in SUBSET Addresses,
         NEW f, f # "pending",
         \/ fate' = FateOf(UNION {Pending(a) : a \in X}, f)
         \/ fate' = fate /\ X = {},
         nPackets' = nPackets,
         \A a \in Addresses : Pending(a)' \subseteq Pending(a),
         \A a \in Addresses \ X :
           /\ Pending(a)' = Pending(a)
           /\ IsIn(a, "WAIT_REPLY")' <=> IsIn(a, "WAIT_REPLY"),
         \A a \in X : ~IsIn(a, "WAIT_REPLY")'
  PROVE  Booked'
<1> DEFINE D == UNION {Pending(a) : a \in X}
<1>1. \A p \in 1 .. MaxPackets : fate'[p] = IF p \in D THEN f ELSE fate[p]
  BY DEF FateOf
<1>2. \A a \in Addresses \ X : \A p \in Pending(a) : p \notin D
  BY DEF Booked
<1> HIDE DEF D
<1>3. ASSUME NEW p \in 1 .. MaxPackets
      PROVE  fate'[p] = "pending"
               <=> \E a \in Addresses : IsIn(a, "WAIT_REPLY")' /\ p \in Pending(a)'
  <2>1. CASE p \in D
    <3>1. fate'[p] # "pending"
      BY <1>1, <2>1
    <3>2. ASSUME NEW a \in Addresses, IsIn(a, "WAIT_REPLY")', p \in Pending(a)'
          PROVE  FALSE
      <4>1. a \notin X
        BY <3>2
      <4>2. p \in Pending(a)
        BY <3>2
      <4> QED
        BY <1>2, <2>1, <4>1, <4>2
    <3> QED
      BY <3>1, <3>2
  <2>2. CASE p \notin D
    <3>1. fate'[p] = "pending" <=> fate[p] = "pending"
      BY <1>1, <2>2
    <3>2. \A a \in Addresses : p \in Pending(a) => a \notin X
      BY <2>2 DEF D
    <3> QED
      BY <3>1, <3>2 DEF Booked
  <2> QED
    BY <2>1, <2>2
<1>4. \A a \in Addresses : Pending(a)' \subseteq 1 .. nPackets'
  BY DEF Booked
<1>5. \A a, b \in Addresses : Pending(a)' \cap Pending(b)' # {} => a = b
  BY DEF Booked
<1> QED
  BY <1>3, <1>4, <1>5 DEF Booked

-----------------------------------------------------------------------------
(* Every step keeps it.                                                    *)

LEMMA InitInv == Init => Inv
<1> SUFFICES ASSUME Init PROVE Inv
  OBVIOUS
<1>1. \A a \in Addresses : /\ m_arpCache[a] = NoEntry /\ IsIn(a, "NONE")
                           /\ ~IsIn(a, "WAIT_REPLY") /\ Pending(a) = {}
  BY DEF Init, IsIn, NoEntry, Pending
<1>2. CacheOK
  BY <1>1 DEF Init, CacheOK
<1>3. Booked
  BY <1>1 DEF Init, Booked
<1>4. OthersTyped
  BY ConstantsTyped, Longest DEF Init, OthersTyped
<1> QED
  BY <1>1, <1>2, <1>3, <1>4 DEF Inv, Timed

\* A packet comes to the node.
LEMMA PacketTyped ==
  ASSUME OthersTyped, NEW f \in Fates, NextPacket(f)
  PROVE  /\ nPackets' = nPackets + 1 /\ nPackets' \in 1 .. MaxPackets
         /\ fate' \in [1 .. MaxPackets -> Fates \cup {"none"}]
         /\ fate'[nPackets'] = f
         /\ \A p \in 1 .. MaxPackets : p # nPackets' => fate'[p] = fate[p]
<1>1. nPackets' = nPackets + 1 /\ nPackets' \in 1 .. MaxPackets
  BY ConstantsTyped DEF NextPacket, OthersTyped
<1>2. PICK n : n = nPackets'
  OBVIOUS
<1>3. fate' = [fate EXCEPT ![n] = f] /\ n \in 1 .. MaxPackets
  BY <1>1, <1>2 DEF NextPacket
<1> QED
  BY <1>1, <1>2, <1>3 DEF OthersTyped

\* It goes at once.
LEMMA BookedWithout ==
  ASSUME Booked, OthersTyped, NEW f \in Fates, NextPacket(f), f # "pending",
         m_arpCache' = m_arpCache
  PROVE  Booked'
<1>1. \A a \in Addresses : /\ Pending(a)' = Pending(a)
                           /\ IsIn(a, "WAIT_REPLY")' <=> IsIn(a, "WAIT_REPLY")
  BY SameEntry, Zenon
<1>2. /\ nPackets' = nPackets + 1 /\ nPackets' \in 1 .. MaxPackets
      /\ nPackets \in Nat
      /\ fate'[nPackets'] = f
      /\ \A p \in 1 .. MaxPackets : p # nPackets' => fate'[p] = fate[p]
  BY PacketTyped DEF OthersTyped
<1>3. \A a \in Addresses : nPackets' \notin Pending(a)
  BY <1>2 DEF Booked
<1>4. \A a \in Addresses : Pending(a)' \subseteq 1 .. nPackets'
  BY <1>1, <1>2 DEF Booked
<1> QED
  BY <1>1, <1>2, <1>3, <1>4 DEF Booked

\* It waits in the entry of a.
LEMMA BookedWith ==
  ASSUME Booked, OthersTyped, NextPacket("pending"), NEW a \in Addresses,
         Pending(a)' = Pending(a) \cup {nPackets'}, IsIn(a, "WAIT_REPLY")',
         IsIn(a, "WAIT_REPLY") \/ Pending(a) = {},
         \A b \in Addresses \ {a} :
           /\ Pending(b)' = Pending(b)
           /\ IsIn(b, "WAIT_REPLY")' <=> IsIn(b, "WAIT_REPLY")
  PROVE  Booked'
<1>1. /\ nPackets' = nPackets + 1 /\ nPackets' \in 1 .. MaxPackets
      /\ nPackets \in Nat
      /\ fate'[nPackets'] = "pending"
      /\ \A p \in 1 .. MaxPackets : p # nPackets' => fate'[p] = fate[p]
  BY PacketTyped DEF OthersTyped, Fates
<1>2. \A b \in Addresses : nPackets' \notin Pending(b)
  BY <1>1 DEF Booked
<1>3. \A b \in Addresses : Pending(b)' \subseteq 1 .. nPackets'
  <2>1. \A b \in Addresses : Pending(b) \subseteq 1 .. nPackets'
    BY <1>1 DEF Booked
  <2> QED
    BY <1>1, <2>1
<1>4. \A b, c \in Addresses : Pending(b)' \cap Pending(c)' # {} => b = c
  BY <1>2 DEF Booked
<1>5. ASSUME NEW p \in 1 .. MaxPackets
      PROVE  fate'[p] = "pending"
               <=> \E b \in Addresses : IsIn(b, "WAIT_REPLY")' /\ p \in Pending(b)'
  <2>1. CASE p = nPackets'
    BY <1>1, <2>1
  <2>2. CASE p # nPackets'
    <3>1. fate'[p] = "pending"
            <=> \E b \in Addresses : IsIn(b, "WAIT_REPLY") /\ p \in Pending(b)
      BY <1>1, <2>2 DEF Booked
    <3>2. \A b \in Addresses : IsIn(b, "WAIT_REPLY") /\ p \in Pending(b)
                           <=> IsIn(b, "WAIT_REPLY")' /\ p \in Pending(b)'
      BY <2>2
    <3> QED
      BY <3>1, <3>2
  <2> QED
    BY <2>1, <2>2
<1> QED
  BY <1>3, <1>4, <1>5 DEF Booked

LEMMA LookupUnresolvedKeeps ==
  ASSUME Inv, NEW a \in Addresses, LookupUnresolved(a)
  PROVE  Inv'
<1> USE DEF Inv
<1>1. PICK entry : entry = IF IsIn(a, "NONE") THEN NewEntry ELSE m_arpCache[a]
  OBVIOUS
<1>2. Sound(entry) /\ entry.state \in {"ALIVE", "DEAD"}
  <2>1. CASE IsIn(a, "NONE")
    BY <1>1, <2>1, NewEntrySound
  <2>2. CASE ~IsIn(a, "NONE")
    BY <1>1, <2>2, EntryOf DEF LookupUnresolved, IsIn
  <2> QED
    BY <2>1, <2>2
<1>3. NextPacket("pending") /\ nPackets' \in 1 .. MaxPackets
  BY PacketTyped DEF LookupUnresolved, Fates
<1>4. PICK u : u = Waiting(entry, nPackets')
  OBVIOUS
<1>5. /\ Sound(u) /\ Held(u) = {nPackets'} /\ Held(entry) = {}
      /\ u.state = "WAIT_REPLY" /\ u.age = 0 /\ u.waited = 0 /\ u.retries = 0
  BY <1>2, <1>3, <1>4, WaitingSound
<1>6. m_arpCache' = [m_arpCache EXCEPT ![a] = u]
  BY <1>1, <1>4 DEF LookupUnresolved
<1>7. /\ CacheOK' /\ m_arpCache'[a] = u
      /\ \A b \in Addresses : b # a => m_arpCache'[b] = m_arpCache[b]
  BY <1>5, <1>6, CacheExcept
<1>8. Booked'
  <2>1. Pending(a) = {}
    <3>1. CASE IsIn(a, "NONE")
      BY <3>1, EntryOf
    <3>2. CASE ~IsIn(a, "NONE")
      BY <3>2, <1>1, <1>5, EntryOf
    <3> QED
      BY <3>1, <3>2
  <2>2. IsIn(a, "WAIT_REPLY")' /\ Pending(a)' = {nPackets'}
    BY <1>5, <1>7 DEF IsIn, Pending, Held
  <2>3. \A b \in Addresses \ {a} :
          /\ Pending(b)' = Pending(b)
          /\ IsIn(b, "WAIT_REPLY")' <=> IsIn(b, "WAIT_REPLY")
    BY <1>7, SameEntry
  <2> QED
    BY <1>3, <2>1, <2>2, <2>3, BookedWith
<1>9. /\ m_waitReplyTimer' \in 0 .. WaitReplyTimeout
      /\ m_waitReplyTimer # NotPending => m_waitReplyTimer' = m_waitReplyTimer
  BY ConstantsTyped, Longest DEF LookupUnresolved, TimerStarted, OthersTyped
<1>10. ASSUME NEW b \in Addresses PROVE Timed(b)'
  <2>1. CASE b = a
    BY <1>5, <1>7, <1>9, <2>1, ConstantsTyped, Longest, Product DEF Timed
  <2>2. CASE b # a
    BY <1>7, <1>9, <2>2 DEF Timed, IsIn
  <2> QED
    BY <2>1, <2>2
<1>11. OthersTyped'
  <2>1. /\ fate' \in [1 .. MaxPackets -> Fates \cup {"none"}]
        /\ nPackets' \in 0 .. MaxPackets
    BY <1>3, PacketTyped DEF Fates
  <2>2. requests' \subseteq [to : Addresses, left : Nat]
    BY ConstantsTyped DEF LookupUnresolved, OthersTyped
  <2> QED
    BY <1>9, <2>1, <2>2, ConstantsTyped, Longest DEF LookupUnresolved, OthersTyped
<1> QED
  BY <1>7, <1>8, <1>10, <1>11

LEMMA LookupWaitingKeeps ==
  ASSUME Inv, NEW a \in Addresses, LookupWaiting(a)
  PROVE  Inv'
<1> USE DEF Inv
<1>1. PICK f \in {"pending", "dropped"} : NextPacket(f)
  BY DEF LookupWaiting
<1>2. OthersTyped'
  <2>1. /\ fate' \in [1 .. MaxPackets -> Fates \cup {"none"}]
        /\ nPackets' \in 0 .. MaxPackets
    BY <1>1, PacketTyped DEF Fates
  <2> QED
    BY <2>1 DEF LookupWaiting, OthersTyped
<1>3. CASE HasRoom(a)
  <2>1. PICK entry : entry = m_arpCache[a]
    OBVIOUS
  <2>2. /\ Sound(entry) /\ entry.state = "WAIT_REPLY"
        /\ Pending(a) = Held(entry) /\ Len(entry.pending) < PendingQueueSize
    BY <1>3, <2>1, EntryOf DEF LookupWaiting, IsIn, HasRoom
  <2>3. NextPacket("pending") /\ nPackets' \in 1 .. MaxPackets
    BY <1>3, PacketTyped DEF LookupWaiting, Fates
  <2>4. PICK u : u = [entry EXCEPT !.pending = Append(@, nPackets')]
    OBVIOUS
  <2>5. /\ Sound(u) /\ Held(u) = Held(entry) \cup {nPackets'}
        /\ u.state = entry.state /\ u.age = entry.age
        /\ u.waited = entry.waited /\ u.retries = entry.retries
    BY <2>2, <2>3, <2>4, AppendedSound
  <2>6. m_arpCache' = [m_arpCache EXCEPT ![a] = u]
    BY <1>3, <2>1, <2>4, Zenon DEF LookupWaiting
  <2>7. /\ CacheOK' /\ m_arpCache'[a] = u
        /\ \A b \in Addresses : b # a => m_arpCache'[b] = m_arpCache[b]
    BY <2>5, <2>6, CacheExcept
  <2>8. Booked'
    <3>1. /\ IsIn(a, "WAIT_REPLY")' /\ IsIn(a, "WAIT_REPLY")
          /\ Pending(a)' = Pending(a) \cup {nPackets'}
      BY <2>1, <2>2, <2>5, <2>7 DEF IsIn, Pending, Held
    <3>2. \A b \in Addresses \ {a} :
            /\ Pending(b)' = Pending(b)
            /\ IsIn(b, "WAIT_REPLY")' <=> IsIn(b, "WAIT_REPLY")
      BY <2>7, SameEntry
    <3> QED
      BY <2>3, <3>1, <3>2, BookedWith
  <2>9. ASSUME NEW b \in Addresses PROVE Timed(b)'
    <3>1. m_waitReplyTimer' = m_waitReplyTimer
      BY DEF LookupWaiting
    <3>2. CASE b = a
      <4>1. /\ m_arpCache'[b].age = m_arpCache[b].age
            /\ m_arpCache'[b].waited = m_arpCache[b].waited
            /\ m_arpCache'[b].retries = m_arpCache[b].retries
            /\ m_arpCache'[b].state = m_arpCache[b].state
        BY <2>1, <2>5, <2>7, <3>2
      <4> QED
        BY <3>1, <4>1 DEF Timed, IsIn
    <3>3. CASE b # a
      BY <2>7, <3>1, <3>3 DEF Timed, IsIn
    <3> QED
      BY <3>2, <3>3
  <2> QED
    BY <1>2, <2>7, <2>8, <2>9
<1>4. CASE ~HasRoom(a)
  <2>1. NextPacket("dropped") /\ m_arpCache' = m_arpCache
        /\ m_waitReplyTimer' = m_waitReplyTimer
    BY <1>4 DEF LookupWaiting
  <2>2. Booked'
    BY <2>1, BookedWithout DEF Fates
  <2>3. CacheOK' /\ \A b \in Addresses : Timed(b)'
    BY <2>1 DEF CacheOK, Timed, IsIn
  <2> QED
    BY <1>2, <2>2, <2>3
<1> QED
  BY <1>3, <1>4

LEMMA LookupKnownKeeps ==
  ASSUME Inv, NEW a \in Addresses, LookupKnown(a)
  PROVE  Inv'
<1> USE DEF Inv
<1>1. PICK f \in {"dropped", "sent"} : NextPacket(f)
  BY DEF LookupKnown
<1>2. /\ m_arpCache' = m_arpCache /\ m_waitReplyTimer' = m_waitReplyTimer
      /\ requests' = requests /\ asked' = asked /\ nChanges' = nChanges
  BY DEF LookupKnown
<1>3. Booked'
  BY <1>1, <1>2, BookedWithout DEF Fates
<1>4. CacheOK' /\ \A b \in Addresses : Timed(b)'
  BY <1>2 DEF CacheOK, Timed, IsIn
<1>5. /\ fate' \in [1 .. MaxPackets -> Fates \cup {"none"}]
      /\ nPackets' \in 0 .. MaxPackets
  BY <1>1, PacketTyped DEF Fates
<1>6. OthersTyped'
  BY <1>2, <1>5 DEF OthersTyped
<1> QED
  BY <1>3, <1>4, <1>6

LEMMA SendArpRequestKeeps ==
  ASSUME Inv, SendArpRequest
  PROVE  Inv'
<1>1. /\ m_arpCache' = m_arpCache /\ m_waitReplyTimer' = m_waitReplyTimer
      /\ nPackets' = nPackets /\ fate' = fate /\ nChanges' = nChanges
      /\ requests' \subseteq requests
  BY DEF SendArpRequest
<1>2. asked' \subseteq Addresses
  BY DEF SendArpRequest, Inv, OthersTyped
<1>3. OthersTyped'
  BY <1>1, <1>2 DEF Inv, OthersTyped
<1>4. CacheOK' /\ \A b \in Addresses : Timed(b)'
  BY <1>1 DEF Inv, CacheOK, Timed, IsIn
<1>5. Booked'
  <2>1. \A a \in Addresses :
          /\ Pending(a)' = Pending(a)
          /\ IsIn(a, "WAIT_REPLY")' <=> IsIn(a, "WAIT_REPLY")
    BY <1>1, SameEntry, Zenon
  <2> QED
    BY <1>1, <2>1 DEF Inv, Booked
<1> QED
  BY <1>3, <1>4, <1>5 DEF Inv

\* The fates after some packets came to theirs.
LEMMA FateOfTyped ==
  ASSUME OthersTyped, NEW P, NEW f \in Fates
  PROVE  FateOf(P, f) \in [1 .. MaxPackets -> Fates \cup {"none"}]
BY DEF FateOf, OthersTyped

\* One entry is marked, and waits no more.
LEMMA MarkedKeeps ==
  ASSUME Inv, NEW a \in Addresses, NEW e, Sound(e),
         Held(e) = Pending(a),
         NEW s \in {"ALIVE", "DEAD", "STATIC_AUTOGENERATED"},
         NEW f \in Fates \ {"pending"},
         NEW u, \/ u = Emptied(Marked(e, s))
                \/ u = Marked(e, s) /\ s = "STATIC_AUTOGENERATED",
         m_arpCache' = [m_arpCache EXCEPT ![a] = u],
         fate' = FateOf(Pending(a), f),
         m_waitReplyTimer' = m_waitReplyTimer,
         nPackets' = nPackets, requests' = requests, asked' = asked,
         nChanges' \in 0 .. MaxChanges
  PROVE  Inv'
<1> USE DEF Inv
<1>1. Sound(u) /\ u.state = s /\ Held(u) \subseteq Held(e)
  BY MarkedSound
<1>2. /\ CacheOK' /\ m_arpCache'[a] = u
      /\ \A b \in Addresses : b # a => m_arpCache'[b] = m_arpCache[b]
  BY <1>1, CacheExcept
<1>3. Pending(a)' \subseteq Pending(a) /\ ~IsIn(a, "WAIT_REPLY")'
  BY <1>1, <1>2 DEF Pending, IsIn, Held
<1>4. \A b \in Addresses \ {a} :
        /\ Pending(b)' = Pending(b)
        /\ IsIn(b, "WAIT_REPLY")' <=> IsIn(b, "WAIT_REPLY")
  BY <1>2, SameEntry
<1>5. Booked'
  <2>1. Pending(a) = UNION {Pending(b) : b \in {a}}
    OBVIOUS
  <2>2. \A b \in Addresses : Pending(b)' \subseteq Pending(b)
    BY <1>3, <1>4
  <2>3. PICK X : X = {a}
    OBVIOUS
  <2>4. /\ X \in SUBSET Addresses /\ f # "pending"
        /\ fate' = FateOf(UNION {Pending(b) : b \in X}, f)
    BY <2>1, <2>3
  <2>5. /\ \A b \in Addresses \ X :
             /\ Pending(b)' = Pending(b)
             /\ IsIn(b, "WAIT_REPLY")' <=> IsIn(b, "WAIT_REPLY")
        /\ \A b \in X : ~IsIn(b, "WAIT_REPLY")'
    BY <1>3, <1>4, <2>3
  <2> QED
    BY <2>2, <2>4, <2>5, BookedAfter
<1>6. ASSUME NEW b \in Addresses PROVE Timed(b)'
  <2>1. CASE b = a
    BY <1>3, <2>1 DEF Timed
  <2>2. CASE b # a
    BY <1>2, <2>2 DEF Timed, IsIn
  <2> QED
    BY <2>1, <2>2
<1>7. OthersTyped'
  BY FateOfTyped DEF OthersTyped
<1> QED
  BY <1>2, <1>5, <1>6, <1>7

LEMMA ReceiveReplyKeeps ==
  ASSUME Inv, NEW a \in Addresses, ReceiveReply(a)
  PROVE  Inv'
<1>1. PICK e : e = m_arpCache[a]
  OBVIOUS
<1>2. Sound(e) /\ Held(e) = Pending(a)
  BY <1>1, EntryOf DEF ReceiveReply, IsIn, Inv
<1>3. PICK u : u = Emptied(Marked(e, "ALIVE"))
  OBVIOUS
<1>4. m_arpCache' = [m_arpCache EXCEPT ![a] = u]
  BY <1>1, <1>3, Zenon DEF ReceiveReply
<1>5. /\ fate' = FateOf(Pending(a), "sent") /\ nPackets' = nPackets
      /\ m_waitReplyTimer' = m_waitReplyTimer /\ requests' = requests
      /\ asked' = asked /\ nChanges' \in 0 .. MaxChanges
  BY DEF ReceiveReply, Inv, OthersTyped
<1> QED
  BY <1>2, <1>3, <1>4, <1>5, MarkedKeeps DEF Fates

LEMMA AddAutoGeneratedKeeps ==
  ASSUME Inv, NEW a \in Addresses, AddAutoGenerated(a)
  PROVE  Inv'
<1>1. PICK e : e = IF IsIn(a, "NONE") THEN NewEntry ELSE m_arpCache[a]
  OBVIOUS
<1>2. Sound(e) /\ Held(e) = Pending(a)
  <2>1. CASE IsIn(a, "NONE")
    <3>1. Held(NewEntry) = {}
      BY DEF Held, NewEntry
    <3> QED
      BY <1>1, <2>1, <3>1, NewEntrySound, EntryOf DEF Inv
  <2>2. CASE ~IsIn(a, "NONE")
    BY <1>1, <2>2, EntryOf DEF Inv
  <2> QED
    BY <2>1, <2>2
<1>3. PICK u : u = Marked(e, "STATIC_AUTOGENERATED")
  OBVIOUS
<1>4. m_arpCache' = [m_arpCache EXCEPT ![a] = u]
  BY <1>1, <1>3 DEF AddAutoGenerated
<1>5. /\ fate' = FateOf(Pending(a), "held") /\ nPackets' = nPackets
      /\ m_waitReplyTimer' = m_waitReplyTimer /\ requests' = requests
      /\ asked' = asked /\ nChanges' \in 0 .. MaxChanges
  BY ConstantsTyped DEF AddAutoGenerated, Change, Inv, OthersTyped
<1> QED
  BY <1>2, <1>3, <1>4, <1>5, MarkedKeeps DEF Fates

LEMMA HandleWaitReplyTimeoutKeeps ==
  ASSUME Inv, HandleWaitReplyTimeout
  PROVE  Inv'
<1> USE DEF Inv
<1>1. ASSUME NEW a \in ToRetry
      PROVE  /\ a \in Addresses /\ IsIn(a, "WAIT_REPLY")
             /\ Sound(m_arpCache[a]) /\ Pending(a) = Held(m_arpCache[a])
             /\ m_arpCache'[a] = Retried(m_arpCache[a])
             /\ m_arpCache[a].retries < MaxRetries
  BY EntryOf DEF HandleWaitReplyTimeout, ToRetry, Waiters, IsIn
<1>2. ASSUME NEW a \in Waiters \ ToRetry
      PROVE  /\ a \in Addresses
             /\ Sound(m_arpCache[a]) /\ Pending(a) = Held(m_arpCache[a])
             /\ m_arpCache'[a] = Emptied(Marked(m_arpCache[a], "DEAD"))
  BY EntryOf DEF HandleWaitReplyTimeout, Waiters, IsIn
<1>3. ASSUME NEW a \in Addresses, a \notin Waiters
      PROVE  m_arpCache'[a] = m_arpCache[a] /\ ~IsIn(a, "WAIT_REPLY")
  <2>1. a \notin ToRetry /\ ~IsIn(a, "WAIT_REPLY")
    BY <1>3, Zenon DEF Waiters, ToRetry
  <2> QED
    BY <1>3, <2>1 DEF HandleWaitReplyTimeout
<1>4. ASSUME NEW a \in ToRetry
      PROVE  /\ Sound(m_arpCache'[a]) /\ Pending(a)' = Pending(a)
             /\ IsIn(a, "WAIT_REPLY")' /\ m_arpCache'[a].age = 0
             /\ m_arpCache'[a].waited = m_arpCache[a].waited
             /\ m_arpCache'[a].retries = m_arpCache[a].retries + 1
  <2>1. PICK e : e = m_arpCache[a]
    OBVIOUS
  <2>2. PICK u : u = m_arpCache'[a]
    OBVIOUS
  <2>3. /\ Sound(e) /\ e.state = "WAIT_REPLY" /\ e.retries < MaxRetries
        /\ u = Retried(e) /\ Pending(a) = Held(e)
    BY <1>1, <2>1, <2>2 DEF IsIn
  <2>4. /\ Sound(u) /\ Held(u) = Held(e) /\ u.state = "WAIT_REPLY"
        /\ u.age = 0 /\ u.waited = e.waited /\ u.retries = e.retries + 1
    BY <2>3, RetriedSound
  <2>5. Pending(a)' = Held(u)
    BY <2>2, <2>4 DEF Pending, IsIn, Held
  <2> QED
    BY <2>1, <2>2, <2>3, <2>4, <2>5 DEF IsIn
<1>5. ASSUME NEW a \in Waiters \ ToRetry
      PROVE  /\ Sound(m_arpCache'[a]) /\ Pending(a)' \subseteq Pending(a)
             /\ ~IsIn(a, "WAIT_REPLY")'
  <2>1. PICK e : e = m_arpCache[a]
    OBVIOUS
  <2>2. PICK u : u = m_arpCache'[a]
    OBVIOUS
  <2>3. Sound(e) /\ u = Emptied(Marked(e, "DEAD")) /\ Pending(a) = Held(e)
    BY <1>2, <2>1, <2>2
  <2>4. Sound(u) /\ u.state = "DEAD" /\ Held(u) \subseteq Held(e)
    BY <2>3, MarkedSound
  <2>5. Pending(a)' = Held(u)
    BY <2>2, <2>4 DEF Pending, IsIn, Held
  <2> QED
    BY <2>2, <2>3, <2>4, <2>5 DEF IsIn
<1>6. CacheOK'
  <2>1. m_arpCache' = [a \in Addresses |-> m_arpCache'[a]]
    BY DEF HandleWaitReplyTimeout
  <2>2. \A a \in Addresses : m_arpCache'[a] = NoEntry \/ Sound(m_arpCache'[a])
    BY <1>3, <1>4, <1>5 DEF CacheOK
  <2> QED
    BY <2>1, <2>2 DEF CacheOK
<1>7. Booked'
  <2>1. PICK X : X = Waiters \ ToRetry
    OBVIOUS
  <2>2. /\ X \in SUBSET Addresses
        /\ fate' = FateOf(UNION {Pending(a) : a \in X}, "dropped")
        /\ nPackets' = nPackets
    BY <2>1 DEF HandleWaitReplyTimeout, Waiters
  <2>3. ASSUME NEW a \in Addresses \ X
        PROVE  /\ Pending(a)' = Pending(a)
               /\ IsIn(a, "WAIT_REPLY")' <=> IsIn(a, "WAIT_REPLY")
    <3>1. CASE a \in ToRetry
      BY <1>1, <1>4, <3>1
    <3>2. CASE a \notin ToRetry
      BY <1>3, <2>1, <3>2, SameEntry
    <3> QED
      BY <3>1, <3>2
  <2>4. \A a \in X : Pending(a)' \subseteq Pending(a) /\ ~IsIn(a, "WAIT_REPLY")'
    BY <1>5, <2>1
  <2>5. \A a \in Addresses : Pending(a)' \subseteq Pending(a)
    BY <2>3, <2>4
  <2> QED
    BY <2>2, <2>3, <2>4, <2>5, BookedAfter
<1>8. ASSUME NEW a \in Addresses PROVE Timed(a)'
  <2>1. CASE a \in ToRetry
    <3>1. m_waitReplyTimer = 0 /\ m_waitReplyTimer' = WaitReplyTimeout
      BY <2>1 DEF HandleWaitReplyTimeout, RestartWaitReplyTimer
    <3>2. /\ m_arpCache[a].retries \in Nat /\ m_arpCache[a].waited \in Nat
      BY <1>1, <2>1, EntryTyped, ConstantsTyped, Longest DEF Sound
    <3>3. /\ m_arpCache[a].retries * WaitReplyTimeout <= m_arpCache[a].waited
          /\ m_arpCache[a].waited
               <= m_arpCache[a].retries * WaitReplyTimeout + WaitReplyTimeout
      BY <1>1, <2>1, <3>1, <3>2, ConstantsTyped DEF Timed
    <3>4. PICK r \in Nat : r = m_arpCache[a].retries
      BY <3>2
    <3>5. PICK w \in Nat : w = m_arpCache[a].waited
      BY <3>2
    <3>6. PICK n \in Nat : n = r * WaitReplyTimeout
      BY Product
    <3>7. (r + 1) * WaitReplyTimeout = n + WaitReplyTimeout
      BY <3>6, Product
    <3>8. /\ m_arpCache'[a].age = 0 /\ m_arpCache'[a].waited = w
          /\ m_arpCache'[a].retries = r + 1
      BY <1>4, <2>1, <3>4, <3>5
    <3>9. n <= w /\ w <= n + WaitReplyTimeout
      BY <3>3, <3>4, <3>5, <3>6
    <3>10. /\ WaitReplyTimeout # NotPending
           /\ m_arpCache'[a].age + WaitReplyTimeout <= WaitReplyTimeout
           /\ n + WaitReplyTimeout <= w + WaitReplyTimeout
           /\ w + WaitReplyTimeout <= n + WaitReplyTimeout + WaitReplyTimeout
      BY <3>8, <3>9, ConstantsTyped, Longest
    <3> QED
      BY <3>1, <3>7, <3>8, <3>10 DEF Timed
  <2>2. CASE a \notin ToRetry
    <3>1. ~IsIn(a, "WAIT_REPLY")'
      BY <1>3, <1>5, <2>2 DEF IsIn
    <3> QED
      BY <3>1 DEF Timed
  <2> QED
    BY <2>1, <2>2
<1>9. OthersTyped'
  <2>1. /\ m_waitReplyTimer' \in 0 .. NotPending
        /\ requests' = requests /\ nPackets' = nPackets
        /\ nChanges' = nChanges /\ asked' \subseteq Addresses
    BY ConstantsTyped, Longest
       DEF HandleWaitReplyTimeout, OthersTyped, ToRetry, Waiters
  <2>2. fate' \in [1 .. MaxPackets -> Fates \cup {"none"}]
    BY FateOfTyped DEF HandleWaitReplyTimeout, Fates
  <2> QED
    BY <2>1, <2>2 DEF OthersTyped
<1> QED
  BY <1>6, <1>7, <1>8, <1>9

LEMMA UpdateSeenKeeps ==
  ASSUME Inv, NEW a \in Addresses, UpdateSeen(a)
  PROVE  Inv'
<1> USE DEF Inv
<1>1. PICK e : e = m_arpCache[a]
  OBVIOUS
<1>2. Sound(e) /\ Held(e) = Pending(a) /\ e.state = "ALIVE"
  BY <1>1, EntryOf DEF UpdateSeen, IsIn
<1>3. PICK u : u = [e EXCEPT !.age = 0]
  OBVIOUS
<1>4. Sound(u) /\ Held(u) = Held(e) /\ u.state = e.state
  BY <1>2, <1>3, SeenSound
<1>5. m_arpCache' = [m_arpCache EXCEPT ![a] = u]
  BY <1>1, <1>3, Zenon DEF UpdateSeen
<1>6. /\ CacheOK' /\ m_arpCache'[a] = u
      /\ \A b \in Addresses : b # a => m_arpCache'[b] = m_arpCache[b]
  BY <1>4, <1>5, CacheExcept
<1>7. /\ m_waitReplyTimer' = m_waitReplyTimer /\ requests' = requests
      /\ asked' = asked /\ nPackets' = nPackets /\ fate' = fate
      /\ nChanges' = nChanges
  BY DEF UpdateSeen
<1>8. /\ Pending(a)' = Pending(a) /\ ~IsIn(a, "WAIT_REPLY")'
      /\ ~IsIn(a, "WAIT_REPLY")
  <2>1. m_arpCache[a] = e /\ m_arpCache'[a] = u
    BY <1>1, <1>6
  <2>2. e.state = "ALIVE" /\ u.state = "ALIVE"
    BY <1>2, <1>4
  <2>3. ~IsIn(a, "WAIT_REPLY")' /\ ~IsIn(a, "WAIT_REPLY")
    BY <2>1, <2>2 DEF IsIn
  <2>4. Pending(a)' = Held(u)
    BY <2>1, <2>2 DEF Pending, IsIn, Held
  <2> QED
    BY <1>2, <1>4, <2>3, <2>4
<1>9. \A b \in Addresses :
        /\ Pending(b)' = Pending(b)
        /\ IsIn(b, "WAIT_REPLY")' <=> IsIn(b, "WAIT_REPLY")
  BY <1>6, <1>8, SameEntry
<1>10. Booked'
  BY <1>7, <1>9 DEF Booked
<1>11. \A b \in Addresses : Timed(b)'
  BY <1>6, <1>7, <1>8 DEF Timed, IsIn
<1> QED
  BY <1>6, <1>7, <1>10, <1>11 DEF OthersTyped

\* The entries A are deleted.
LEMMA DeletedKeeps ==
  ASSUME Inv, NEW A \in SUBSET Addresses,
         m_arpCache' = [a \in Addresses |->
                          IF a \in A THEN NoEntry ELSE m_arpCache[a]],
         fate' = FateOf(UNION {Pending(a) : a \in A}, "deleted"),
         nPackets' = nPackets, requests' = requests, asked' = asked,
         nChanges' \in 0 .. MaxChanges,
         \/ m_waitReplyTimer' = m_waitReplyTimer
         \/ m_waitReplyTimer' = NotPending /\ A = Addresses
  PROVE  Inv'
<1> USE DEF Inv
<1>1. ASSUME NEW a \in A
      PROVE  /\ m_arpCache'[a] = NoEntry /\ ~IsIn(a, "WAIT_REPLY")'
             /\ Pending(a)' = {}
  BY DEF IsIn, NoEntry, Pending
<1>2. ASSUME NEW a \in Addresses \ A
      PROVE  /\ m_arpCache'[a] = m_arpCache[a] /\ Pending(a)' = Pending(a)
             /\ IsIn(a, "WAIT_REPLY")' <=> IsIn(a, "WAIT_REPLY")
  BY SameEntry
<1>3. CacheOK'
  BY <1>1, <1>2 DEF CacheOK
<1>4. Booked'
  <2>1. \A a \in Addresses : Pending(a)' \subseteq Pending(a)
    BY <1>1, <1>2
  <2> QED
    BY <1>1, <1>2, <2>1, BookedAfter
<1>5. ASSUME NEW a \in Addresses PROVE Timed(a)'
  <2>1. CASE a \in A
    BY <1>1, <2>1 DEF Timed
  <2>2. CASE a \notin A
    BY <1>2, <2>2 DEF Timed, IsIn
  <2> QED
    BY <2>1, <2>2
<1>6. OthersTyped'
  BY FateOfTyped, Longest DEF OthersTyped, Fates
<1> QED
  BY <1>3, <1>4, <1>5, <1>6

LEMMA FlushKeeps ==
  ASSUME Inv, Flush
  PROVE  Inv'
<1>1. m_arpCache' = [a \in Addresses |-> IF a \in Addresses THEN NoEntry
                                         ELSE m_arpCache[a]]
  BY DEF Flush
<1>2. nChanges' \in 0 .. MaxChanges
  BY ConstantsTyped DEF Flush, Change, Inv, OthersTyped
<1>3. /\ fate' = FateOf(UNION {Pending(a) : a \in Addresses}, "deleted")
      /\ m_waitReplyTimer' = NotPending /\ nPackets' = nPackets
      /\ requests' = requests /\ asked' = asked
  BY DEF Flush
<1>4. Addresses \in SUBSET Addresses
  OBVIOUS
<1> QED
  BY <1>1, <1>2, <1>3, <1>4, DeletedKeeps

LEMMA RemoveEntriesKeeps ==
  ASSUME Inv, NEW A \in SUBSET Addresses, RemoveEntries(A)
  PROVE  Inv'
<1>1. nChanges' \in 0 .. MaxChanges
  BY ConstantsTyped DEF RemoveEntries, Change, Inv, OthersTyped
<1>2. /\ m_arpCache' = [a \in Addresses |->
                          IF a \in A THEN NoEntry ELSE m_arpCache[a]]
      /\ fate' = FateOf(UNION {Pending(a) : a \in A}, "deleted")
      /\ m_waitReplyTimer' = m_waitReplyTimer /\ nPackets' = nPackets
      /\ requests' = requests /\ asked' = asked
  BY DEF RemoveEntries
<1> QED
  BY <1>1, <1>2, DeletedKeeps

LEMMA TickKeeps ==
  ASSUME Inv, Tick
  PROVE  Inv'
<1> USE DEF Inv
<1>1. ASSUME NEW a \in Addresses, IsIn(a, "NONE")
      PROVE  /\ m_arpCache'[a] = NoEntry /\ IsIn(a, "NONE")'
             /\ ~IsIn(a, "WAIT_REPLY") /\ ~IsIn(a, "WAIT_REPLY")'
             /\ Pending(a) = {} /\ Pending(a)' = {}
  <2>1. m_arpCache[a] = NoEntry
    BY <1>1, EntryOf
  <2>2. m_arpCache'[a] = NoEntry
    BY <2>1 DEF Tick, Aged
  <2> QED
    BY <2>1, <2>2 DEF IsIn, NoEntry, Pending
<1>2. ASSUME NEW a \in Addresses, ~IsIn(a, "NONE")
      PROVE  LET e == m_arpCache[a]
                 u == m_arpCache'[a]
             IN /\ Sound(e) /\ Sound(u) /\ Pending(a)' = Pending(a)
                /\ u.state = e.state /\ u.retries = e.retries
                /\ e.age <= LongestTimeout => u.age = e.age + 1
                /\ e.state = "WAIT_REPLY" /\ e.waited <= LongestWait
                     => u.waited = e.waited + 1
  <2>1. PICK e : e = m_arpCache[a]
    OBVIOUS
  <2>2. PICK u : u = m_arpCache'[a]
    OBVIOUS
  <2>3. Sound(e) /\ Pending(a) = Held(e) /\ u = Aged(e)
    BY <1>2, <2>1, <2>2, EntryOf DEF Tick
  <2>4. /\ Sound(u) /\ Held(u) = Held(e) /\ u.state = e.state
        /\ u.retries = e.retries
        /\ e.age <= LongestTimeout => u.age = e.age + 1
        /\ e.state = "WAIT_REPLY" /\ e.waited <= LongestWait
             => u.waited = e.waited + 1
    BY <2>3, AgedSound
  <2>5. Pending(a)' = Held(u)
    BY <1>2, <2>1, <2>2, <2>4 DEF Pending, IsIn, Held
  <2> QED
    BY <2>1, <2>2, <2>3, <2>4, <2>5
<1>3. CacheOK'
  <2>1. m_arpCache' = [a \in Addresses |-> m_arpCache'[a]]
    BY DEF Tick
  <2>2. \A a \in Addresses : m_arpCache'[a] = NoEntry \/ Sound(m_arpCache'[a])
    BY <1>1, <1>2
  <2> QED
    BY <2>1, <2>2 DEF CacheOK
<1>4. \A a \in Addresses :
        /\ Pending(a)' = Pending(a)
        /\ IsIn(a, "WAIT_REPLY")' <=> IsIn(a, "WAIT_REPLY")
  BY <1>1, <1>2 DEF IsIn
<1>5. /\ nPackets' = nPackets /\ fate' = fate /\ asked' = asked
      /\ nChanges' = nChanges
  BY DEF Tick
<1>6. Booked'
  BY <1>4, <1>5 DEF Booked
<1>7. ASSUME NEW a \in Addresses, IsIn(a, "WAIT_REPLY")'
      PROVE  Timed(a)'
  <2>1. IsIn(a, "WAIT_REPLY") /\ ~IsIn(a, "NONE")
    BY <1>4, <1>7 DEF IsIn
  <2>2. PICK e : e = m_arpCache[a]
    OBVIOUS
  <2>3. PICK u : u = m_arpCache'[a]
    OBVIOUS
  <2>4. /\ Sound(e) /\ u.retries = e.retries /\ e.state = "WAIT_REPLY"
        /\ e.age <= LongestTimeout => u.age = e.age + 1
        /\ e.waited <= LongestWait => u.waited = e.waited + 1
    BY <1>2, <2>1, <2>2, <2>3 DEF IsIn
  <2>5. PICK n \in Nat : n = e.retries * WaitReplyTimeout
    BY <2>4, EntryTyped, ConstantsTyped, Product DEF Sound
  <2>6. n + WaitReplyTimeout <= LongestWait
    BY <2>4, <2>5, EntryTyped, ProductBound DEF Sound
  <2>7. /\ m_waitReplyTimer # NotPending
        /\ e.age + m_waitReplyTimer <= WaitReplyTimeout
        /\ n <= e.waited + m_waitReplyTimer
        /\ e.waited + m_waitReplyTimer <= n + WaitReplyTimeout
    BY <2>1, <2>2, <2>5 DEF Timed
  <2>8. /\ m_waitReplyTimer \in 1 .. WaitReplyTimeout
        /\ m_waitReplyTimer' = m_waitReplyTimer - 1
    <3>1. m_waitReplyTimer \in 0 .. NotPending /\ m_waitReplyTimer # 0
      BY DEF Tick, OthersTyped
    <3>2. m_waitReplyTimer' = m_waitReplyTimer - 1
      BY <2>7 DEF Tick
    <3>3. WaitReplyTimeout \in Nat /\ NotPending = WaitReplyTimeout + 1
      BY ConstantsTyped, Longest
    <3> QED
      BY <2>7, <3>1, <3>2, <3>3
  <2>9. e.age \in Nat /\ e.waited \in Nat
    BY <2>4, EntryTyped, Longest DEF Sound
  <2>10. e.age <= LongestTimeout /\ e.waited <= LongestWait
    BY <2>6, <2>7, <2>8, <2>9, ConstantsTyped, Longest
  <2>11. u.age = e.age + 1 /\ u.waited = e.waited + 1
    BY <2>4, <2>10
  <2>12. /\ m_waitReplyTimer' # NotPending
         /\ u.age + m_waitReplyTimer' <= WaitReplyTimeout
         /\ n <= u.waited + m_waitReplyTimer'
         /\ u.waited + m_waitReplyTimer' <= n + WaitReplyTimeout
    BY <2>7, <2>8, <2>9, <2>11, ConstantsTyped, Longest
  <2>13. n = u.retries * WaitReplyTimeout
    BY <2>4, <2>5
  <2> QED
    BY <2>3, <2>12, <2>13 DEF Timed
<1>8. \A a \in Addresses : Timed(a)'
  BY <1>7 DEF Timed
<1>9. OthersTyped'
  <2>1. m_waitReplyTimer' \in 0 .. NotPending
    BY ConstantsTyped, Longest DEF Tick, OthersTyped
  <2>2. ASSUME NEW r \in requests
        PROVE  [r EXCEPT !.left = @ - 1] \in [to : Addresses, left : Nat]
    <3>1. r \in [to : Addresses, left : Nat] /\ r.left # 0
      BY DEF Tick, OthersTyped
    <3>2. PICK n : n = r.left - 1
      OBVIOUS
    <3>3. n \in Nat
      BY <3>1, <3>2
    <3>4. [r EXCEPT !.left = @ - 1] = [r EXCEPT !.left = n]
      BY <3>2
    <3> QED
      BY <3>1, <3>3, <3>4
  <2>3. requests' \subseteq [to : Addresses, left : Nat]
    BY <2>2 DEF Tick
  <2> QED
    BY <1>5, <2>1, <2>3 DEF OthersTyped
<1> QED
  BY <1>3, <1>6, <1>8, <1>9

LEMMA StutterKeeps ==
  ASSUME Inv, UNCHANGED vars
  PROVE  Inv'
<1>1. /\ m_arpCache' = m_arpCache /\ m_waitReplyTimer' = m_waitReplyTimer
      /\ requests' = requests /\ asked' = asked /\ nPackets' = nPackets
      /\ fate' = fate /\ nChanges' = nChanges
  BY DEF vars
<1>2. CacheOK' /\ \A a \in Addresses : Timed(a)'
  BY <1>1 DEF Inv, CacheOK, Timed, IsIn
<1>3. Booked'
  BY <1>1 DEF Inv, Booked, Pending, IsIn
<1>4. OthersTyped'
  BY <1>1 DEF Inv, OthersTyped
<1> QED
  BY <1>2, <1>3, <1>4 DEF Inv

LEMMA NextKeeps ==
  ASSUME Inv, Next
  PROVE  Inv'
<1>1. ASSUME NEW a \in Addresses, Lookup(a)
      PROVE  Inv'
  BY <1>1, LookupUnresolvedKeeps, LookupWaitingKeeps, LookupKnownKeeps
     DEF Lookup
<1>2. ASSUME NEW a \in Addresses,
             ReceiveReply(a) \/ UpdateSeen(a) \/ AddAutoGenerated(a)
      PROVE  Inv'
  BY <1>2, ReceiveReplyKeeps, UpdateSeenKeeps, AddAutoGeneratedKeeps
<1>3. CASE SendArpRequest \/ HandleWaitReplyTimeout \/ Flush \/ Tick
  BY <1>3, SendArpRequestKeeps, HandleWaitReplyTimeoutKeeps, FlushKeeps,
     TickKeeps
<1>4. ASSUME NEW A \in SUBSET Addresses, RemoveEntries(A)
      PROVE  Inv'
  BY <1>4, RemoveEntriesKeeps
<1> QED
  BY <1>1, <1>2, <1>3, <1>4 DEF Next

LEMMA InvCorrect == Spec => []Inv
<1>1. Inv /\ [Next]_vars => Inv'
  BY NextKeeps, StutterKeeps
<1> QED
  BY InitInv, <1>1, PTL DEF Spec

-----------------------------------------------------------------------------
(* The theorems.                                                           *)

\* No more packets wait than the queue of an entry is long.
LEMMA HeldBound ==
  ASSUME NEW e, Sound(e)
  PROVE  Cardinality(Held(e)) <= Larger(1, PendingQueueSize)
<1>1. /\ e.pending \in Seq(1 .. MaxPackets) /\ Len(e.pending) \in Nat
      /\ DOMAIN e.pending = 1 .. Len(e.pending)
      /\ Len(e.pending) <= Larger(1, PendingQueueSize)
  BY EntryTyped DEF Sound
<1>2. e.pending \in Surjection(1 .. Len(e.pending), Held(e))
  BY <1>1 DEF Held, Surjection
<1>3. ExistsSurjection(1 .. Len(e.pending), Held(e))
  BY <1>2 DEF ExistsSurjection
<1>4. /\ IsFiniteSet(1 .. Len(e.pending))
      /\ Cardinality(1 .. Len(e.pending)) = Len(e.pending)
  BY <1>1, FS_Interval
<1>5. /\ IsFiniteSet(Held(e))
      /\ Cardinality(Held(e)) <= Cardinality(1 .. Len(e.pending))
  BY <1>2, <1>4, FS_Surjection
<1>6. Cardinality(Held(e)) \in Nat /\ Larger(1, PendingQueueSize) \in Nat
  BY <1>5, FS_CardinalityType, ConstantsTyped DEF Larger
<1> QED
  BY <1>1, <1>4, <1>5, <1>6

\* For any addresses, timeouts and sizes, the variables keep their types, no
\* entry holds more packets than PendingQueueSize (ArpCache::Entry), and a
\* packet is pending exactly if an entry that waits holds it.
THEOREM TypeCorrect == Spec => []TypeOK
<1>1. Inv => TypeOK
  <2> SUFFICES ASSUME Inv PROVE TypeOK
    OBVIOUS
  <2>1. m_arpCache \in [Addresses -> Entries \cup {NoEntry}]
    BY DEF Inv, CacheOK, Sound
  <2>2. ASSUME NEW a \in Addresses
        PROVE  Cardinality(Pending(a)) <= Larger(1, PendingQueueSize)
    <3>1. CASE IsIn(a, "NONE")
      <4>1. Cardinality(Pending(a)) = 0
        BY <3>1, FS_EmptySet, EntryOf DEF Inv
      <4> QED
        BY <4>1, ConstantsTyped DEF Larger
    <3>2. CASE ~IsIn(a, "NONE")
      BY <3>2, HeldBound, EntryOf DEF Inv
    <3> QED
      BY <3>1, <3>2
  <2>3. {p \in 1 .. MaxPackets : fate[p] = "pending"}
          = UNION {Pending(a) : a \in Waiters}
    <3>1. \A a \in Addresses : Pending(a) \subseteq 1 .. MaxPackets
      BY ConstantsTyped DEF Inv, Booked, OthersTyped
    <3> QED
      BY <3>1 DEF Inv, Booked, Waiters
  <2> QED
    BY <2>1, <2>2, <2>3 DEF Inv, OthersTyped, TypeOK
<1> QED
  BY <1>1, InvCorrect, PTL

\* The one timer of HandleWaitReplyTimeout serves every entry that waits, and
\* comes before Lookup could find the entry expired, for any timeout and any
\* number of addresses, whatever flushes and removals come between.
THEOREM WaitIsTimedCorrect == Spec => []WaitIsTimed
<1>1. Inv => WaitIsTimed
  BY DEF Inv, Timed, WaitIsTimed, Waiters
<1> QED
  BY <1>1, InvCorrect, PTL

\* An address is given up after MaxRetries repeated requests, which took as
\* many timeouts and at most one more (HandleWaitReplyTimeout).
THEOREM GivenUpInTimeCorrect == Spec => GivenUpInTime
<1> DEFINE GivenUp ==
      \A a \in Addresses :
        IsIn(a, "WAIT_REPLY") /\ m_arpCache'[a].state = "DEAD"
          => /\ m_arpCache[a].retries = MaxRetries
             /\ m_arpCache[a].waited >= MaxRetries * WaitReplyTimeout
             /\ m_arpCache[a].waited <= (MaxRetries + 1) * WaitReplyTimeout
<1>1. ASSUME Inv, HandleWaitReplyTimeout
      PROVE  GivenUp
  <2> SUFFICES ASSUME NEW a \in Addresses, IsIn(a, "WAIT_REPLY"),
                      m_arpCache'[a].state = "DEAD"
               PROVE  /\ m_arpCache[a].retries = MaxRetries
                      /\ m_arpCache[a].waited >= MaxRetries * WaitReplyTimeout
                      /\ m_arpCache[a].waited
                           <= (MaxRetries + 1) * WaitReplyTimeout
    OBVIOUS
  <2>1. PICK e : e = m_arpCache[a]
    OBVIOUS
  <2>2. Sound(e) /\ e.state = "WAIT_REPLY"
    BY <1>1, <2>1, EntryOf DEF IsIn, Inv
  <2>3. a \notin ToRetry
    <3>1. ASSUME a \in ToRetry
          PROVE  FALSE
      <4>1. m_arpCache'[a] = Retried(e)
        BY <1>1, <2>1, <3>1 DEF HandleWaitReplyTimeout
      <4>2. e \in Entries
        BY <2>2 DEF Sound
      <4>3. Retried(e).state = e.state
        BY <4>2 DEF Retried, Entries
      <4> QED
        BY <2>2, <4>1, <4>3
    <3> QED
      BY <3>1
  <2>4. e.retries = MaxRetries
    <3>1. ~(e.retries < MaxRetries)
      BY <2>1, <2>3 DEF ToRetry, Waiters
    <3> QED
      BY <2>2, <3>1, EntryTyped, ConstantsTyped DEF Sound
  <2>5. /\ m_waitReplyTimer = 0
        /\ e.retries * WaitReplyTimeout <= e.waited + m_waitReplyTimer
        /\ e.waited + m_waitReplyTimer
             <= e.retries * WaitReplyTimeout + WaitReplyTimeout
    BY <1>1, <2>1 DEF HandleWaitReplyTimeout, Inv, Timed
  <2>6. PICK n \in Nat : n = MaxRetries * WaitReplyTimeout
    BY Product, ConstantsTyped
  <2>7. (MaxRetries + 1) * WaitReplyTimeout = n + WaitReplyTimeout
    BY <2>6, Product, ConstantsTyped
  <2>8. e.waited \in Nat
    BY <2>2, EntryTyped, Longest DEF Sound
  <2>9. n <= e.waited + m_waitReplyTimer
    BY <2>4, <2>5, <2>6
  <2>10. e.waited + m_waitReplyTimer <= n + WaitReplyTimeout
    BY <2>4, <2>5, <2>6
  <2>11. e.waited >= n /\ e.waited <= n + WaitReplyTimeout
    BY <2>5, <2>8, <2>9, <2>10
  <2> QED
    BY <2>1, <2>4, <2>6, <2>7, <2>11
<1>2. ASSUME Inv, Next, ~HandleWaitReplyTimeout,
             NEW a \in Addresses, IsIn(a, "WAIT_REPLY")
      PROVE  m_arpCache'[a].state # "DEAD"
  <2>1. /\ m_arpCache = [b \in Addresses |-> m_arpCache[b]]
        /\ m_arpCache[a] \in Entries /\ m_arpCache[a].state = "WAIT_REPLY"
        /\ NoEntry.state = "NONE"
    BY <1>2, EntryOf DEF Inv, CacheOK, IsIn, Sound, NoEntry
  <2>2. ASSUME NEW b \in Addresses, Lookup(b)
        PROVE  m_arpCache'[a].state # "DEAD"
    <3>1. CASE LookupUnresolved(b)
      BY <1>2, <2>1, <3>1 DEF LookupUnresolved, IsIn
    <3>2. CASE LookupWaiting(b)
      <4>1. PICK q : q = Append(m_arpCache[b].pending, nPackets')
        OBVIOUS
      <4>2. \/ m_arpCache' = m_arpCache
            \/ m_arpCache' = [m_arpCache EXCEPT ![b].pending = q]
        BY <3>2, <4>1 DEF LookupWaiting
      <4>3. [m_arpCache[a] EXCEPT !.pending = q].state = "WAIT_REPLY"
        BY <2>1 DEF Entries
      <4> QED
        BY <2>1, <4>2, <4>3
    <3>3. CASE LookupKnown(b)
      BY <2>1, <3>3 DEF LookupKnown
    <3> QED
      BY <2>2, <3>1, <3>2, <3>3 DEF Lookup
  <2>3. ASSUME NEW b \in Addresses,
               ReceiveReply(b) \/ UpdateSeen(b) \/ AddAutoGenerated(b)
        PROVE  m_arpCache'[a].state # "DEAD"
    <3>1. CASE ReceiveReply(b)
      <4>1. Emptied(Marked(m_arpCache[a], "ALIVE")).state = "ALIVE"
        BY <2>1 DEF Emptied, Marked, Entries
      <4>2. PICK u : u = Emptied(Marked(m_arpCache[b], "ALIVE"))
        OBVIOUS
      <4>3. m_arpCache' = [m_arpCache EXCEPT ![b] = u]
        BY <3>1, <4>2, Zenon DEF ReceiveReply
      <4> QED
        BY <2>1, <4>1, <4>2, <4>3
    <3>2. CASE UpdateSeen(b)
      BY <2>1, <3>2 DEF UpdateSeen, IsIn
    <3>3. CASE AddAutoGenerated(b)
      <4>1. ASSUME b = a
            PROVE  m_arpCache'[a] = Marked(m_arpCache[a], "STATIC_AUTOGENERATED")
        BY <1>2, <2>1, <3>3, <4>1 DEF AddAutoGenerated, IsIn
      <4>2. Marked(m_arpCache[a], "STATIC_AUTOGENERATED").state
              = "STATIC_AUTOGENERATED"
        BY <2>1 DEF Marked, Entries
      <4>3. b # a => m_arpCache'[a] = m_arpCache[a]
        BY <2>1, <3>3 DEF AddAutoGenerated
      <4> QED
        BY <2>1, <4>1, <4>2, <4>3
    <3> QED
      BY <2>3, <3>1, <3>2, <3>3
  <2>4. CASE SendArpRequest
    BY <2>1, <2>4 DEF SendArpRequest
  <2>5. CASE Flush
    BY <2>1, <2>5 DEF Flush
  <2>6. CASE Tick
    <3>1. Aged(m_arpCache[a]).state = "WAIT_REPLY"
      <4>1. Sound(m_arpCache[a])
        BY <1>2, <2>1, EntryOf DEF Inv, IsIn
      <4> QED
        BY <2>1, <4>1, AgedSound
    <3> QED
      BY <2>6, <3>1 DEF Tick
  <2>7. ASSUME NEW A \in SUBSET Addresses, RemoveEntries(A)
        PROVE  m_arpCache'[a].state # "DEAD"
    BY <2>1, <2>7 DEF RemoveEntries
  <2> QED
    BY <1>2, <2>2, <2>3, <2>4, <2>5, <2>6, <2>7 DEF Next
<1>3. Inv /\ [Next]_vars => [GivenUp]_vars
  BY <1>1, <1>2
<1> QED
  BY <1>3, InvCorrect, PTL DEF Spec, GivenUpInTime

=============================================================================
