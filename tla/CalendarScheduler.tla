-------------------------- MODULE CalendarScheduler --------------------------
(***************************************************************************)
(* The event list as a calendar queue: class CalendarScheduler of          *)
(* src/core/model/calendar-scheduler.cc.  A calendar has a bucket for each *)
(* "day" of m_width time steps; days that are a "year" apart share one.    *)
(*                                                                         *)
(* Abstracted: the Reverse attribute, which stores the buckets back to     *)
(* front, and the widths of the integers.  A calendar is a record of the   *)
(* class's members: buckets, numbered from 0, of the keys that are filed   *)
(* there; the width of a day; the time stamp and the bucket of the last    *)
(* event taken, and where the day of that bucket ends; and the number of   *)
(* events.  EventLists drives the operations.                              *)
(***************************************************************************)
EXTENDS EventKey, Naturals, SequencesExt, FiniteSetsExt

NBuckets(c) == Cardinality(DOMAIN c.buckets)
Hash(c, ts) == (ts \div c.width) % NBuckets(c)

\* Insert in the bucket of the time stamp, before the first later event.
DoInsert(c, ev) ==
  LET b     == Hash(c, ev.ts)
      later == {i \in DOMAIN c.buckets[b] : KeyLess(ev, c.buckets[b][i])}
      at    == IF later = {} THEN Len(c.buckets[b]) + 1 ELSE Min(later)
  IN [c EXCEPT !.buckets[b] = InsertAt(@, at, ev)]

\* The end of the given day of the scan, counted from the last event's day.
Today(c, day) == c.bucketTop + day * c.width

\* The scan of PeekNext and DoRemoveNext: a year from the day of the last event,
\* for a bucket whose first event is due on its day; failing that, the earliest
\* of all first events.
Bucket(c, day) == (c.lastBucket + day) % NBuckets(c)
First(c, day) == Head(c.buckets[Bucket(c, day)])
Filled(c) == {d \in 0 .. NBuckets(c) - 1 : c.buckets[Bucket(c, d)] # <<>>}
Due(c) == {d \in Filled(c) : First(c, d).ts < Today(c, d)}
NextDay(c) ==
  IF Due(c) # {} THEN Min(Due(c))
  ELSE CHOOSE d \in Filled(c) :
         \A e \in Filled(c) : ~KeyLess(First(c, e), First(c, d))

PeekNext(c) == First(c, NextDay(c))

\* The scan is moved to the day of the event that is taken.
DoRemoveNext(c) ==
  LET day  == NextDay(c)
      next == First(c, day)
  IN [event |-> next,
      list |->
        [c EXCEPT !.buckets[Bucket(c, day)] = Tail(@),
                  !.lastPrio = next.ts,
                  !.lastBucket = IF Due(c) # {} THEN Bucket(c, day)
                                 ELSE Hash(c, next.ts),
                  !.bucketTop = IF Due(c) # {} THEN Today(c, day)
                                ELSE (next.ts \div c.width + 1) * c.width]]

\* The next n events, as CalculateNewWidth takes them out.
Sample(s) ==
  LET next == DoRemoveNext(s.list)
  IN [list |-> next.list, samples |-> Append(s.samples, next.event)]

TakeOut(c, n) ==
  LET taken[k \in 0 .. n] == IF k = 0 THEN [list |-> c, samples |-> <<>>]
                             ELSE Sample(taken[k - 1])
  IN taken[n].samples

\* The sum of the distances between samples that are at most the limit.
Separation(samples, limit) ==
  LET sum[i \in 0 .. Len(samples) - 1] ==
        IF i = 0 THEN 0
        ELSE LET diff == samples[i + 1].ts - samples[i].ts
             IN sum[i - 1] + IF diff <= limit THEN diff ELSE 0
  IN sum[Len(samples) - 1]

\* Three times the sum of the distances of the next events, leaving out those
\* of more than twice the average.  All of them add up to the distance of the
\* last sample from the first.  (The samples are put back, which restores the
\* calendar.)
CalculateNewWidth(c) ==
  IF c.qSize < 2 THEN 1
  ELSE LET n == Min({25, IF c.qSize <= 5 THEN c.qSize
                         ELSE 5 + c.qSize \div 10})
           samples == TakeOut(c, n)
           twiceAvg == ((samples[n].ts - samples[1].ts) \div (n - 1)) * 2
       IN Max({1, 3 * Separation(samples, twiceAvg)})

\* Mutant of NewCalendar: the scan starts in the first bucket.
CalendarFromZero(nBuckets, width, startPrio, qSize) ==
  [buckets |-> [b \in 0 .. nBuckets - 1 |-> <<>>], width |-> width,
   lastPrio |-> startPrio, lastBucket |-> 0,
   bucketTop |-> (startPrio \div width + 1) * width, qSize |-> qSize]

\* Init: an empty calendar whose day is that of startPrio.
NewCalendar(nBuckets, width, startPrio, qSize) ==
  [buckets |-> [b \in 0 .. nBuckets - 1 |-> <<>>], width |-> width,
   lastPrio |-> startPrio, lastBucket |-> (startPrio \div width) % nBuckets,
   bucketTop |-> (startPrio \div width + 1) * width, qSize |-> qSize]

\* File the events of an old bucket.
FileAll(c, events) ==
  LET filed[i \in 0 .. Len(events)] ==
        IF i = 0 THEN c ELSE DoInsert(filed[i - 1], events[i])
  IN filed[Len(events)]

\* Move every event, bucket by bucket, to a calendar of another size.
Resize(c, newSize) ==
  LET filed[b \in 0 .. NBuckets(c)] ==
        IF b = 0 THEN NewCalendar(newSize, CalculateNewWidth(c), c.lastPrio,
                                  c.qSize)
        ELSE FileAll(filed[b - 1], c.buckets[b - 1])
  IN filed[NBuckets(c)]

ResizeUp(c) == IF c.qSize > 2 * NBuckets(c) /\ NBuckets(c) < 32768
               THEN Resize(c, 2 * NBuckets(c)) ELSE c

ResizeDown(c) == IF c.qSize < NBuckets(c) \div 2
                 THEN Resize(c, NBuckets(c) \div 2) ELSE c

-----------------------------------------------------------------------------
EmptyCalendar == NewCalendar(2, 1, 0, 0)

Insert(c, ev) == ResizeUp([DoInsert(c, ev) EXCEPT !.qSize = @ + 1])

RemoveNext(c) ==
  LET r == DoRemoveNext(c)
  IN [event |-> r.event, list |-> ResizeDown([r.list EXCEPT !.qSize = @ - 1])]

\* Remove the event, which is found by its uid in the bucket of its time.
RemoveEvent(c, ev) ==
  LET b == Hash(c, ev.ts)
      i == CHOOSE j \in DOMAIN c.buckets[b] : c.buckets[b][j].uid = ev.uid
  IN ResizeDown([c EXCEPT !.buckets[b] = RemoveAt(@, i), !.qSize = @ - 1])

\* The events in the buckets, and their places.
Keys(c) == UNION {ToSet(c.buckets[b]) : b \in DOMAIN c.buckets}
Slots(c) == UNION {{b} \X DOMAIN c.buckets[b] : b \in DOMAIN c.buckets}

=============================================================================
