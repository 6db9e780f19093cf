------------------------ MODULE SensorsLightsProofs ------------------------
(***************************************************************************)
(* What the sensors and the lights promise.  First the circular buffer of  *)
(* the input events: for every size it is a queue, filling appends what was *)
(* read and next drops the first event, wherever the buffer wraps.  Then    *)
(* the thread that reads the drivers: what a call of poll leaves behind is  *)
(* marked, it writes no more than it may, and it hands out the samples of   *)
(* accelerometer and magnetometer as SensorFifo promises, for every size of *)
(* the readers and every number of samples and calls.  Last the lights: the *)
(* LEDs show what was set, however often, in whatever order and whatever    *)
(* failed.                                                                  *)
(***************************************************************************)
EXTENDS Sensors, Lights, FiniteSetTheorems, SequenceTheorems, TLAPS

-----------------------------------------------------------------------------
(* The circular buffer.                                                     *)

\* Where a read of k events to the head h leaves an unread event alone: it lies
\* neither where the read went nor where the overrun is copied to.
LEMMA UnreadSpared ==
  ASSUME NEW n \in Nat \ {0}, NEW h \in 0 .. n, NEW c \in 0 .. n - 1, NEW a \in 0 .. n,
         h - c - a \in {0, -n, n}, NEW k \in 0 .. n - a, NEW i \in 1 .. a
  PROVE  LET p == Place(n, c, i)
         IN /\ p \in 0 .. n - 1
            /\ ~(p >= h /\ p < h + k)
            /\ ~(h + k > n /\ p < h + k - n)
  BY DEF Place

\* The buffer after the read and after the copy.
LEMMA ReadBuffer ==
  ASSUME NEW n \in Nat \ {0}, NEW Event, NEW m \in [0 .. 2 * n - 1 -> Event],
         NEW h \in 0 .. n, NEW events \in Seq(Event), NEW k \in 0 .. n, k = Len(events),
         NEW b, b = [p \in 0 .. 2 * n - 1 |->
                       IF p >= h /\ p < h + k THEN events[p - h + 1] ELSE m[p]]
  PROVE  b \in [0 .. 2 * n - 1 -> Event]
<1>1. \A p \in 0 .. 2 * n - 1 : p >= h /\ p < h + k => events[p - h + 1] \in Event
  <2> TAKE p \in 0 .. 2 * n - 1
  <2> HAVE p >= h /\ p < h + k
  <2>1. p - h + 1 \in 1 .. Len(events)
    OBVIOUS
  <2> QED
    BY <2>1
<1> QED
  BY <1>1

LEMMA CopiedBuffer ==
  ASSUME NEW n \in Nat \ {0}, NEW Event, NEW b \in [0 .. 2 * n - 1 -> Event],
         NEW o \in 1 .. n,
         NEW w, w = [p \in 0 .. 2 * n - 1 |-> IF p < o THEN b[n + p] ELSE b[p]]
  PROVE  w \in [0 .. 2 * n - 1 -> Event]
<1>1. \A p \in 0 .. 2 * n - 1 : p < o => n + p \in 0 .. 2 * n - 1
  OBVIOUS
<1> QED
  BY <1>1

LEMMA WrappedOver ==
  ASSUME NEW r, NEW b, NEW h, ~(h <= r.numEvents)
  PROVE  Wrapped(r, b, h)
           = [buffer |-> [p \in DOMAIN b |-> IF p < h - r.numEvents
                                             THEN b[r.numEvents + p] ELSE b[p]],
              head |-> h - r.numEvents]
  BY DEF Wrapped

\* A new reader is well formed and empty.
THEOREM NewIsEmpty ==
  ASSUME NEW n \in Nat \ {0}, NEW Event, NEW e \in Event
  PROVE  ReaderOK(NewReader(n, e), n, Event) /\ Unread(NewReader(n, e)) = <<>>
<1> DEFINE r == NewReader(n, e)
<1>1. r = [numEvents |-> n, mBuffer |-> [p \in 0 .. 2 * n - 1 |-> e],
           mHead |-> 0, mCurr |-> 0, mFreeSpace |-> n]
  BY DEF NewReader
<1> HIDE DEF r
<1>2. Available(r) = 0
  BY <1>1 DEF Available
<1>3. ReaderOK(r, n, Event)
  BY <1>1, <1>2 DEF ReaderOK
<1> QED
  BY <1>2, <1>3 DEF Unread, r

\* fill keeps the reader well formed and appends the events that were read to
\* those that were there: the copy to the front overwrites no unread event.
THEOREM FillAppends ==
  ASSUME NEW n \in Nat \ {0}, NEW Event, NEW r, ReaderOK(r, n, Event),
         NEW events \in Seq(Event), Len(events) <= r.mFreeSpace
  PROVE  /\ ReaderOK(fill(r, events), n, Event)
         /\ Unread(fill(r, events)) = Unread(r) \o events
<1>1. PICK m \in [0 .. 2 * n - 1 -> Event], h \in 0 .. n, c \in 0 .. n - 1, s \in 0 .. n :
        r = [numEvents |-> n, mBuffer |-> m, mHead |-> h, mCurr |-> c, mFreeSpace |-> s]
  BY DEF ReaderOK
<1>a. PICK a \in 0 .. n : a = n - s
  OBVIOUS
<1>2. PICK k \in 0 .. n - a : k = Len(events) /\ a = n - s
  <2>1. Len(events) <= s
    BY <1>1
  <2> QED
    BY <2>1, <1>a
<1>3. Available(r) = a /\ h - c - a \in {0, -n, n}
  BY <1>1, <1>2 DEF Available, ReaderOK
<1>4. PICK b : b = [p \in 0 .. 2 * n - 1 |->
                      IF p >= h /\ p < h + k THEN events[p - h + 1] ELSE m[p]]
  OBVIOUS
<1>5. Read(r, events) = b /\ b \in [0 .. 2 * n - 1 -> Event]
  BY <1>1, <1>2, <1>4, ReadBuffer DEF Read
<1>6. PICK w : w = IF h + k <= n THEN b
                   ELSE [p \in 0 .. 2 * n - 1 |-> IF p < h + k - n THEN b[n + p] ELSE b[p]]
  OBVIOUS
<1>7. PICK g : g = IF h + k <= n THEN h + k ELSE h + k - n
  OBVIOUS
<1>8. Wrapped(r, b, h + k) = [buffer |-> w, head |-> g]
  <2>1. r.numEvents = n /\ DOMAIN b = 0 .. 2 * n - 1
    BY <1>1, <1>5
  <2>2. CASE h + k <= n
    BY <2>1, <2>2, <1>6, <1>7 DEF Wrapped
  <2>3. CASE ~(h + k <= n)
    <3>0. PICK x : x = h + k
      OBVIOUS
    <3>1. Wrapped(r, b, x)
            = [buffer |-> [p \in DOMAIN b |-> IF p < x - r.numEvents
                                              THEN b[r.numEvents + p] ELSE b[p]],
               head |-> x - r.numEvents]
      BY <2>1, <2>3, <3>0, WrappedOver
    <3>2. w = [p \in 0 .. 2 * n - 1 |-> IF p < x - n THEN b[n + p] ELSE b[p]]
      BY <2>3, <3>0, <1>6
    <3>3. g = x - n
      BY <2>3, <3>0, <1>7
    <3> QED
      BY <2>1, <3>0, <3>1, <3>2, <3>3
  <2> QED
    BY <2>2, <2>3
<1>9. w \in [0 .. 2 * n - 1 -> Event]
  <2>1. CASE h + k <= n
    BY <2>1, <1>5, <1>6
  <2>2. CASE ~(h + k <= n)
    <3>1. h + k - n \in 1 .. n
      BY <2>2
    <3> QED
      BY <2>2, <3>1, <1>5, <1>6, CopiedBuffer
  <2> QED
    BY <2>1, <2>2
<1>10. fill(r, events) = [numEvents |-> n, mBuffer |-> w, mHead |-> g, mCurr |-> c,
                          mFreeSpace |-> s - k]
  <2>1. r.mHead = h /\ Len(events) = k
    BY <1>1, <1>2
  <2>2. PICK x : x = Wrapped(r, Read(r, events), r.mHead + Len(events))
    OBVIOUS
  <2>4. x.buffer = w /\ x.head = g
    <3>1. x = [buffer |-> w, head |-> g]
      BY <2>1, <2>2, <1>5, <1>8
    <3> QED
      BY <3>1
  <2>5. fill(r, events) = [r EXCEPT !.mBuffer = x.buffer, !.mHead = x.head,
                                    !.mFreeSpace = @ - Len(events)]
    BY <2>2 DEF fill
  <2>3. fill(r, events) = [r EXCEPT !.mBuffer = w, !.mHead = g, !.mFreeSpace = @ - k]
    BY <2>1, <2>4, <2>5
  <2> QED
    BY <2>3, <1>1
<1>11. Available(fill(r, events)) = a + k
  BY <1>2, <1>10 DEF Available
<1>12. ReaderOK(fill(r, events), n, Event)
  <2>1. g \in 0 .. n /\ s - k \in 0 .. n
    BY <1>2, <1>7
  <2>2. g - c - (a + k) \in {0, -n, n}
    <3>1. CASE h + k <= n
      <4>1. g - c - (a + k) = h - c - a
        BY <3>1, <1>7
      <4> QED
        BY <4>1, <1>3
    <3>2. CASE ~(h + k <= n)
      <4>1. g - c - (a + k) = h - c - a - n
        BY <3>2, <1>7
      <4>2. h - c - a # -n
        BY <3>2
      <4> QED
        BY <4>1, <4>2, <1>3
    <3> QED
      BY <3>1, <3>2
  <2>3. fill(r, events) \in [numEvents : {n}, mBuffer : [0 .. 2 * n - 1 -> Event],
                             mHead : 0 .. n, mCurr : 0 .. n - 1, mFreeSpace : 0 .. n]
    BY <2>1, <1>9, <1>10
  <2>4. fill(r, events).mHead = g /\ fill(r, events).mCurr = c
    BY <1>10
  <2> QED
    BY <2>2, <2>3, <2>4, <1>11 DEF ReaderOK
<1>13. \A p \in 0 .. 2 * n - 1 : w[p] = IF h + k > n /\ p < h + k - n THEN b[n + p] ELSE b[p]
  BY <1>5, <1>6
<1>b. \A p \in 0 .. 2 * n - 1 : b[p] = IF p >= h /\ p < h + k THEN events[p - h + 1] ELSE m[p]
  BY <1>4
<1>14. [i \in 1 .. a + k |-> w[Place(n, c, i)]] = [i \in 1 .. a |-> m[Place(n, c, i)]] \o events
  <2>1. \A i \in 1 .. a : w[Place(n, c, i)] = m[Place(n, c, i)] /\ m[Place(n, c, i)] \in Event
    <3> TAKE i \in 1 .. a
    <3>1. PICK p : p = Place(n, c, i)
      OBVIOUS
    <3>2. p \in 0 .. n - 1 /\ ~(p >= h /\ p < h + k) /\ ~(h + k > n /\ p < h + k - n)
      BY <3>1, <1>3, UnreadSpared
    <3>3. p \in 0 .. 2 * n - 1
      BY <3>2
    <3> QED
      BY <3>1, <3>2, <3>3, <1>b, <1>13
  <2>2. \A j \in 1 .. k : w[Place(n, c, a + j)] = events[j] /\ events[j] \in Event
    <3> TAKE j \in 1 .. k
    <3>1. PICK p : p = Place(n, c, a + j)
      OBVIOUS
    <3>2. /\ p \in 0 .. n - 1
          /\ h + k > n /\ p < h + k - n => n + p = h + j - 1
          /\ ~(h + k > n /\ p < h + k - n) => p = h + j - 1
      BY <3>1, <1>3 DEF Place
    <3>3. CASE h + k > n /\ p < h + k - n
      <4>1. p \in 0 .. 2 * n - 1 /\ n + p \in 0 .. 2 * n - 1
        BY <3>2, <3>3
      <4>2. n + p >= h /\ n + p < h + k /\ n + p - h + 1 = j
        BY <3>2, <3>3
      <4>3. w[p] = b[n + p]
        BY <1>13, <3>3, <4>1
      <4>4. b[n + p] = events[n + p - h + 1]
        BY <1>b, <4>1, <4>2
      <4> QED
        BY <1>2, <3>1, <4>2, <4>3, <4>4
    <3>4. CASE ~(h + k > n /\ p < h + k - n)
      <4>1. p \in 0 .. 2 * n - 1
        BY <3>2
      <4>2. p >= h /\ p < h + k /\ p - h + 1 = j
        BY <3>2, <3>4
      <4>3. w[p] = b[p]
        BY <1>13, <3>4, <4>1
      <4>4. b[p] = events[p - h + 1]
        BY <1>b, <4>1, <4>2
      <4> QED
        BY <1>2, <3>1, <4>2, <4>3, <4>4
    <3> QED
      BY <3>3, <3>4
  <2> DEFINE u == [i \in 1 .. a |-> m[Place(n, c, i)]]
             v == [i \in 1 .. a + k |-> w[Place(n, c, i)]]
  <2>3. u \in Seq(Event) /\ Len(u) = a /\ \A i \in 1 .. a : u[i] = m[Place(n, c, i)]
    BY <2>1
  <2>4. \A i \in 1 .. a + k : /\ w[Place(n, c, i)] = IF i <= a THEN u[i] ELSE events[i - a]
                              /\ w[Place(n, c, i)] \in Event
    <3> HIDE DEF u
    <3> TAKE i \in 1 .. a + k
    <3>1. CASE i <= a
      <4>1. i \in 1 .. a
        BY <3>1
      <4> QED
        BY <3>1, <4>1, <2>1, <2>3
    <3>2. CASE ~(i <= a)
      <4>1. i - a \in 1 .. k /\ a + (i - a) = i
        BY <3>2
      <4> QED
        BY <3>2, <4>1, <2>2
    <3> QED
      BY <3>1, <3>2
  <2>5. v \in Seq(Event) /\ Len(v) = a + k /\ \A i \in 1 .. a + k : v[i] = w[Place(n, c, i)]
    <3> HIDE DEF u
    <3>1. (\A i \in 1 .. a + k : w[Place(n, c, i)] \in Event) /\ a + k \in Nat
      BY <2>4
    <3> QED
      BY <3>1
  <2> HIDE DEF u, v
  <2>6. /\ u \o events \in Seq(Event) /\ Len(u \o events) = a + k
        /\ \A i \in 1 .. a + k : (u \o events)[i] = IF i <= a THEN u[i] ELSE events[i - a]
    <3>1. /\ u \o events \in Seq(Event) /\ Len(u \o events) = Len(u) + Len(events)
          /\ \A i \in 1 .. Len(u) + Len(events) :
               (u \o events)[i] = IF i <= Len(u) THEN u[i] ELSE events[i - Len(u)]
      BY <2>3, ConcatProperties
    <3> QED
      BY <1>2, <2>3, <3>1
  <2>7. v = u \o events
    <3>1. \A i \in 1 .. Len(v) : v[i] = (u \o events)[i]
      BY <2>4, <2>5, <2>6
    <3>2. Len(v) = Len(u \o events)
      BY <2>5, <2>6
    <3> QED
      BY <3>1, <3>2, <2>5, <2>6, SeqEqual
  <2> QED
    BY <2>7 DEF u, v
<1>15. Unread(r) = [i \in 1 .. a |-> m[Place(n, c, i)]]
  BY <1>1, <1>3 DEF Unread
<1>16. Unread(fill(r, events)) = [i \in 1 .. a + k |-> w[Place(n, c, i)]]
  BY <1>10, <1>11 DEF Unread
<1> QED
  BY <1>12, <1>14, <1>15, <1>16

\* next drops the first event, which is the one readEvent points at.
THEOREM NextDrops ==
  ASSUME NEW n \in Nat \ {0}, NEW Event, NEW r, ReaderOK(r, n, Event), Available(r) > 0
  PROVE  /\ ReaderOK(next(r), n, Event)
         /\ Current(r) = Head(Unread(r)) /\ Unread(next(r)) = Tail(Unread(r))
<1>1. PICK m \in [0 .. 2 * n - 1 -> Event], h \in 0 .. n, c \in 0 .. n - 1, s \in 0 .. n :
        r = [numEvents |-> n, mBuffer |-> m, mHead |-> h, mCurr |-> c, mFreeSpace |-> s]
  BY DEF ReaderOK
<1>2. PICK a \in 1 .. n : a = n - s
  <2>1. n - s > 0
    BY <1>1 DEF Available
  <2> QED
    BY <2>1
<1>3. Available(r) = a /\ h - c - a \in {0, -n, n}
  BY <1>1, <1>2 DEF Available, ReaderOK
<1>4. PICK d \in 0 .. n - 1 : d = IF c + 1 >= n THEN 0 ELSE c + 1
  OBVIOUS
<1>5. next(r) = [numEvents |-> n, mBuffer |-> m, mHead |-> h, mCurr |-> d, mFreeSpace |-> s + 1]
  <2>1. r.numEvents = n /\ r.mCurr = c
    BY <1>1
  <2>2. next(r) = [r EXCEPT !.mCurr = d, !.mFreeSpace = @ + 1]
    BY <2>1, <1>4 DEF next
  <2> QED
    BY <2>2, <1>1
<1>6. Available(next(r)) = a - 1
  BY <1>2, <1>5 DEF Available
<1>7. ReaderOK(next(r), n, Event)
  <2>1. s + 1 \in 0 .. n /\ h - d - (a - 1) \in {0, -n, n}
    BY <1>2, <1>3, <1>4
  <2> QED
    BY <2>1, <1>5, <1>6 DEF ReaderOK
<1>8. \A i \in 1 .. a - 1 : Place(n, d, i) = Place(n, c, i + 1)
  BY <1>4 DEF Place
<1>9. PICK u : u = [i \in 1 .. a |-> m[Place(n, c, i)]]
  OBVIOUS
<1>10. Unread(r) = u
  BY <1>1, <1>3, <1>9 DEF Unread
<1>11. \A i \in 1 .. a : m[Place(n, c, i)] \in Event
  BY DEF Place
<1>12. u \in Seq(Event) /\ Len(u) = a /\ \A i \in 1 .. a : u[i] = m[Place(n, c, i)]
  BY <1>9, <1>11
<1>13. Current(r) = Head(u)
  <2>1. Place(n, c, 1) = c
    BY DEF Place
  <2>2. Head(u) = u[1] /\ 1 \in 1 .. a
    BY <1>12
  <2>3. u[1] = m[c]
    <3>1. u[1] = m[Place(n, c, 1)]
      BY <1>12, <2>2
    <3> QED
      BY <2>1, <3>1
  <2>4. Current(r) = m[c]
    BY <1>1 DEF Current
  <2> QED
    BY <2>2, <2>3, <2>4
<1>14. /\ Tail(u) \in Seq(Event) /\ Len(Tail(u)) = a - 1
       /\ \A i \in 1 .. a - 1 : Tail(u)[i] = u[i + 1]
  <2>1. u # <<>>
    BY <1>12
  <2>2. /\ Tail(u) \in Seq(Event) /\ Len(Tail(u)) = Len(u) - 1
        /\ \A i \in 1 .. Len(Tail(u)) : Tail(u)[i] = u[i + 1]
    BY <1>12, <2>1, HeadTailProperties
  <2> QED
    BY <1>12, <2>2
<1>15. \A i \in 1 .. a - 1 : u[i + 1] = m[Place(n, d, i)]
  <2> TAKE i \in 1 .. a - 1
  <2>1. i + 1 \in 1 .. a
    OBVIOUS
  <2> QED
    BY <2>1, <1>8, <1>12
<1>16. PICK q : q = [i \in 1 .. a - 1 |-> m[Place(n, d, i)]]
  OBVIOUS
<1>17. q \in Seq(Event) /\ Len(q) = a - 1 /\ \A i \in 1 .. a - 1 : q[i] = u[i + 1]
  <2>1. \A i \in 1 .. a - 1 : m[Place(n, d, i)] \in Event
    BY DEF Place
  <2>2. q \in Seq(Event) /\ Len(q) = a - 1 /\ \A i \in 1 .. a - 1 : q[i] = m[Place(n, d, i)]
    BY <1>16, <2>1
  <2> QED
    BY <1>15, <2>2
<1>18. q = Tail(u)
  BY <1>14, <1>17, SeqEqual
<1>19. Unread(next(r)) = q
  BY <1>5, <1>6, <1>16 DEF Unread
<1> QED
  BY <1>7, <1>10, <1>13, <1>18, <1>19

-----------------------------------------------------------------------------
(* The thread.  A driver is unmarked in two places only: where its reader    *)
(* has just been emptied, and by poll, which is called when the scan has     *)
(* emptied the readers of all drivers.                                       *)

Data == [s : ToSet(Drivers), v : Nat \cup Mpl]

TypeInv ==
  /\ made \in [ToSet(Drivers) -> Nat] /\ pend \in [Readers -> Nat]
  /\ kernel \in [Readers -> Seq(Nat)]
  /\ reader = [s \in Readers |-> reader[s]]
  /\ \A s \in Readers : ReaderOK(reader[s], Size[s], Nat)
  /\ revents \in [ToSet(Drivers) -> BOOLEAN]
  /\ pc \in {"idle", "scan", "read", "mpl", "return", "lost"}
  /\ at \in 1 .. 5 /\ got \in 0 .. Count
  /\ data \in Seq(Data)
  /\ pc # "lost" => count \in 0 .. Count

\* The scan has emptied the readers of the drivers it has passed, as long as
\* there is room; and it reads only from a driver that is marked.
ScanInv ==
  /\ pc \in {"scan", "read", "mpl"} /\ count > 0 =>
       \A j \in 1 .. at - 1 : Drivers[j] \in Readers => Available(reader[Drivers[j]]) = 0
  /\ pc = "read" => at \in 1 .. 3 /\ revents[Drivers[at]] /\ got <= count /\ count > 0
  /\ pc = "mpl" => at = 4 /\ count > 0

\* What has been written and what room is left make up the room of the call.
RoomInv ==
  /\ pc \in {"scan", "mpl"} => Len(data) + count = Count
  /\ pc = "read" => Len(data) + count = Count + got
  /\ Len(data) <= Count

IInv == TypeInv /\ LeftoverMarked /\ ScanInv /\ RoomInv

\* A call of poll writes no event beyond the room it was given, and what is left
\* of the room for the next driver is no more than that, however many drivers have
\* samples left.  Until a read fails, which makes the room grow.
WithinRoom ==
  /\ pc # "lost" => Len(data) <= Count
  /\ pc = "scan" => Len(data) + count <= Count

LEMMA DriversAre ==
  /\ Len(Drivers) = 4 /\ Drivers[1] = "acc" /\ Drivers[2] = "mag" /\ Drivers[3] = "light"
  /\ Drivers[4] = "gyro" /\ ToSet(Drivers) = Readers \cup {"gyro"}
  /\ "gyro" \notin Readers /\ Readers = {"acc", "mag", "light"}
  BY DEF Drivers, ToSet, Readers, Lsm

LEMMA DriverPlaces ==
  /\ \A j \in 1 .. 3 : Drivers[j] \in Readers
  /\ \A i, j \in 1 .. 4 : Drivers[i] = Drivers[j] => i = j
  /\ \A j \in 1 .. 4 : Drivers[j] \in Readers => j \in 1 .. 3
<1>1. \A j \in 1 .. 4 : j = 1 \/ j = 2 \/ j = 3 \/ j = 4
  OBVIOUS
<1> QED
  BY <1>1, DriversAre

LEMMA PassedBefore ==
  ASSUME NEW a \in 1 .. 3, NEW j \in 1 .. a - 1
  PROVE  j \in 1 .. 4 /\ a \in 1 .. 4 /\ j # a
  OBVIOUS

LEMMA OneWritten ==
  ASSUME NEW room \in Nat, NEW c \in 0 .. room, NEW g \in 0 .. room, g < c,
         NEW l \in Nat, l + c = room + g
  PROVE  g + 1 \in 0 .. c /\ (l + 1) + c = room + (g + 1)
  OBVIOUS

LEMMA TwoWritten ==
  ASSUME NEW room \in Nat, NEW c \in 0 .. room, c > 0, NEW l \in {0, 1}, NEW g \in {0, 1},
         c = 1 => l = 0 \/ g = 0
  PROVE  l + g \in 0 .. c
  OBVIOUS

LEMMA AvailableNat ==
  ASSUME TypeInv, NEW s \in Readers
  PROVE  /\ Available(reader[s]) \in Nat /\ reader[s].mFreeSpace \in Nat
         /\ Size[s] \in Nat \ {0}
<1>1. Size[s] \in Nat \ {0}
  BY SensorsAssumption, DriversAre
<1>2. ReaderOK(reader[s], Size[s], Nat)
  BY DEF TypeInv
<1>3. PICK r : r = reader[s]
  OBVIOUS
<1>4. PICK n : n = Size[s]
  OBVIOUS
<1>5. r.numEvents = n /\ r.mFreeSpace \in 0 .. n
  BY <1>2, <1>3, <1>4 DEF ReaderOK
<1> QED
  BY <1>1, <1>3, <1>4, <1>5 DEF Available

LEMMA InvInit == Init => IInv
<1> SUFFICES ASSUME Init PROVE IInv
  OBVIOUS
<1>1. \A s \in Readers : /\ ReaderOK(reader[s], Size[s], Nat)
                         /\ Available(reader[s]) = 0
  <2> TAKE s \in Readers
  <2>1. Size[s] \in Nat \ {0} /\ Syn \in Nat
    BY SensorsAssumption, DriversAre DEF Syn
  <2>2. reader[s] = NewReader(Size[s], Syn)
    BY DEF Init
  <2>3. Available(NewReader(Size[s], Syn)) = 0
    BY <2>1 DEF Available, NewReader
  <2> QED
    BY <2>1, <2>2, <2>3, NewIsEmpty
<1>2. TypeInv
  BY <1>1, SensorsAssumption DEF Init, TypeInv
<1>3. LeftoverMarked
  BY <1>1 DEF LeftoverMarked
<1>4. ScanInv /\ RoomInv
  BY SensorsAssumption DEF Init, ScanInv, RoomInv
<1> QED
  BY <1>2, <1>3, <1>4 DEF IInv

\* A step that changes one reader and leaves revents and the thread's place in
\* the scan alone: the reader is that of the driver being read.
LEMMA OneReader ==
  ASSUME IInv, NEW s \in Readers, at \in 1 .. 3, Drivers[at] = s, revents[s], count > 0,
         pc \in {"scan", "read"}, pc' = "read",
         NEW r, reader' = [reader EXCEPT ![s] = r], ReaderOK(r, Size[s], Nat),
         UNCHANGED <<made, revents, at, count>>,
         kernel' \in [Readers -> Seq(Nat)], pend' \in [Readers -> Nat],
         got' \in 0 .. count, data' \in Seq(Data),
         Len(data') + count = Count + got'
  PROVE  IInv'
<1>1. reader'[s] = r /\ \A q \in Readers \ {s} : reader'[q] = reader[q]
  BY DEF IInv, TypeInv
<1>2. reader' = [q \in Readers |-> reader'[q]]
  BY DEF IInv, TypeInv
<1>3. count \in 0 .. Count /\ Count \in Nat
  BY SensorsAssumption DEF IInv, TypeInv
<1>4. TypeInv'
  <2>1. \A q \in Readers : ReaderOK(reader'[q], Size[q], Nat)
    BY <1>1 DEF IInv, TypeInv
  <2>2. got' \in 0 .. Count
    BY <1>3
  <2> QED
    BY <1>2, <2>1, <2>2 DEF IInv, TypeInv
<1>5. LeftoverMarked'
  BY <1>1 DEF IInv, LeftoverMarked
<1>6. ScanInv'
  <2>1. \A j \in 1 .. at - 1 : Drivers[j] \in Readers =>
          Drivers[j] # s /\ Available(reader[Drivers[j]]) = 0
    <3> TAKE j \in 1 .. at - 1
    <3> HAVE Drivers[j] \in Readers
    <3>1. j \in 1 .. 4 /\ at \in 1 .. 4 /\ j # at
      BY PassedBefore
    <3>2. Drivers[j] # s
      BY <3>1, DriverPlaces
    <3>3. Available(reader[Drivers[j]]) = 0
      BY DEF IInv, ScanInv
    <3> QED
      BY <3>2, <3>3
  <2>2. \A j \in 1 .. at - 1 : Drivers[j] \in Readers => Available(reader'[Drivers[j]]) = 0
    BY <1>1, <2>1
  <2>3. got' <= count
    BY <1>3
  <2> QED
    BY <2>2, <2>3 DEF ScanInv
<1>7. RoomInv'
  <2>1. Len(data') \in Nat
    OBVIOUS
  <2> QED
    BY <1>3, <2>1 DEF RoomInv
<1> QED
  BY <1>4, <1>5, <1>6, <1>7 DEF IInv

-----------------------------------------------------------------------------
(* The steps of the thread.                                                 *)

LEMMA InvFill ==
  ASSUME IInv, NEW s \in Readers, Fill(s)
  PROVE  IInv'
<1>1. PICK k : k = Filled(s)
  OBVIOUS
<1>2. /\ pc = "scan" /\ count > 0 /\ at <= Len(Drivers) /\ Drivers[at] = s /\ revents[s]
      /\ pc' = "read" /\ got' = 0
      /\ reader' = [reader EXCEPT ![s] = fill(@, SubSeq(kernel[s], 1, k))]
      /\ kernel' = [kernel EXCEPT ![s] = SubSeq(@, k + 1, Len(@))]
      /\ UNCHANGED <<made, pend, revents, at, count, data>>
  BY <1>1 DEF Fill, Due
<1>3. at \in 1 .. 3
  BY <1>2, DriversAre, DriverPlaces DEF IInv, TypeInv
<1>4. kernel[s] \in Seq(Nat) /\ Len(kernel[s]) \in Nat
  BY DEF IInv, TypeInv
<1>5. k \in 0 .. Len(kernel[s]) /\ k <= reader[s].mFreeSpace
  BY <1>1, <1>4, AvailableNat DEF Filled, Smaller, IInv
<1>6. PICK events : events = SubSeq(kernel[s], 1, k)
  OBVIOUS
<1>7. events \in Seq(Nat) /\ Len(events) = k
  BY <1>4, <1>5, <1>6
<1>8. SubSeq(kernel[s], k + 1, Len(kernel[s])) \in Seq(Nat)
  BY <1>4, <1>5
<1>9. kernel' \in [Readers -> Seq(Nat)]
  BY <1>2, <1>8 DEF IInv, TypeInv
<1>10. Size[s] \in Nat \ {0} /\ ReaderOK(reader[s], Size[s], Nat)
  BY AvailableNat DEF IInv, TypeInv
<1>11. ReaderOK(fill(reader[s], events), Size[s], Nat)
  BY <1>5, <1>7, <1>10, FillAppends
<1>12. reader' = [reader EXCEPT ![s] = fill(reader[s], events)]
  BY <1>2, <1>6
<1>13. count \in 0 .. Count /\ Count \in Nat /\ Len(data) + count = Count
  BY <1>2, SensorsAssumption DEF IInv, TypeInv, RoomInv
<1>14. /\ pend' \in [Readers -> Nat] /\ data' \in Seq(Data) /\ got' \in 0 .. count
       /\ Len(data') + count = Count + got'
  BY <1>2, <1>13 DEF IInv, TypeInv
<1> QED
  BY <1>2, <1>3, <1>9, <1>11, <1>12, <1>14, OneReader

\* What the three ways to take an event from the reader have in common.
LEMMA InvNextEvent ==
  ASSUME IInv, NEW s \in Readers, NEW event, NextEvent(s, event),
         pend' \in [Readers -> Nat],
         \/ UNCHANGED <<data, got>>
         \/ \E e \in Data : data' = Append(data, e) /\ got' = got + 1
  PROVE  IInv'
<1>1. /\ pc = "read" /\ Drivers[at] = s /\ got < count /\ Available(reader[s]) > 0
      /\ reader' = [reader EXCEPT ![s] = next(@)]
      /\ UNCHANGED <<kernel, made, revents, pc, at, count>>
  BY DEF NextEvent, More
<1>2. at \in 1 .. 3 /\ revents[s] /\ count > 0
  BY <1>1 DEF IInv, ScanInv
<1>3. Size[s] \in Nat \ {0} /\ ReaderOK(reader[s], Size[s], Nat)
  BY AvailableNat DEF IInv, TypeInv
<1>4. ReaderOK(next(reader[s]), Size[s], Nat)
  BY <1>1, <1>3, NextDrops
<1>5. reader' = [reader EXCEPT ![s] = next(reader[s])]
  BY <1>1
<1>6. /\ count \in 0 .. Count /\ Count \in Nat /\ Len(data) + count = Count + got
      /\ got \in 0 .. Count /\ data \in Seq(Data) /\ Len(data) \in Nat
  BY <1>1, SensorsAssumption DEF IInv, TypeInv, RoomInv
<1>7. data' \in Seq(Data) /\ got' \in 0 .. count /\ Len(data') + count = Count + got'
  <2>1. CASE UNCHANGED <<data, got>>
    BY <1>1, <1>6, <2>1
  <2>2. CASE \E e \in Data : data' = Append(data, e) /\ got' = got + 1
    <3>1. data' \in Seq(Data) /\ Len(data') = Len(data) + 1 /\ got' = got + 1
      BY <1>6, <2>2
    <3>a. got < count
      BY <1>1
    <3>b. got + 1 \in 0 .. count /\ (Len(data) + 1) + count = Count + (got + 1)
      BY <1>6, <3>a, OneWritten
    <3>2. got' \in 0 .. count /\ Len(data') + count = Count + got'
      BY <3>1, <3>b
    <3> QED
      BY <3>1, <3>2
  <2> QED
    BY <2>1, <2>2
<1>8. kernel' \in [Readers -> Seq(Nat)]
  BY <1>1 DEF IInv, TypeInv
<1> QED
  BY <1>1, <1>2, <1>4, <1>5, <1>7, <1>8, OneReader

LEMMA InvEvent ==
  ASSUME IInv, NEW s \in Readers, Value(s) \/ Sample(s) \/ NoSample(s)
  PROVE  IInv'
<1>1. CASE Value(s)
  <2>1. More(s) /\ NextEvent(s, Current(reader[s])) /\ UNCHANGED <<data, got>>
        /\ pend' = [pend EXCEPT ![s] = Current(reader[s])]
    BY <1>1 DEF Value, NextEvent
  <2>2. Current(reader[s]) \in Nat
    <3>1. Size[s] \in Nat \ {0} /\ ReaderOK(reader[s], Size[s], Nat)
      BY AvailableNat DEF IInv, TypeInv
    <3>2. PICK r, n : r = reader[s] /\ n = Size[s]
      OBVIOUS
    <3>3. r.mBuffer \in [0 .. 2 * n - 1 -> Nat] /\ r.mCurr \in 0 .. n - 1 /\ n \in Nat
      BY <3>1, <3>2 DEF ReaderOK
    <3>4. r.mCurr \in 0 .. 2 * n - 1
      BY <3>3
    <3>5. r.mBuffer[r.mCurr] \in Nat
      BY <3>3, <3>4
    <3> QED
      BY <3>2, <3>5 DEF Current
  <2>3. pend' \in [Readers -> Nat]
    BY <2>1, <2>2 DEF IInv, TypeInv
  <2> QED
    BY <2>1, <2>3, InvNextEvent
<1>2. CASE Sample(s)
  <2>1. /\ NextEvent(s, Syn) /\ UNCHANGED pend /\ got' = got + 1
        /\ data' = Append(data, [s |-> s, v |-> pend[s]])
    BY <1>2 DEF Sample
  <2>2. pend \in [Readers -> Nat]
    BY DEF IInv, TypeInv
  <2>3. [s |-> s, v |-> pend[s]] \in Data
    BY <2>2, DriversAre DEF Data
  <2> QED
    BY <2>1, <2>2, <2>3, InvNextEvent
<1>3. CASE NoSample(s)
  <2>1. NextEvent(s, Syn) /\ UNCHANGED <<data, got>> /\ UNCHANGED pend
    BY <1>3 DEF NoSample
  <2>2. pend' \in [Readers -> Nat]
    BY <2>1 DEF IInv, TypeInv
  <2> QED
    BY <2>1, <2>2, InvNextEvent
<1> QED
  BY <1>1, <1>2, <1>3

\* A driver that wrote less than there was room for has been emptied; the
\* others are passed over as they are.
LEMMA InvDone ==
  ASSUME IInv, NEW s \in Readers, Done(s)
  PROVE  IInv'
<1>1. /\ pc = "read" /\ Drivers[at] = s /\ (got >= count \/ ~(Available(reader[s]) > 0))
      /\ revents' = IF got < count THEN [revents EXCEPT ![s] = FALSE] ELSE revents
      /\ count' = count - got /\ at' = at + 1 /\ pc' = "scan" /\ got' = 0
      /\ UNCHANGED <<made, kernel, reader, pend, data>>
  <2>1. got \in Nat /\ count \in Nat
    BY SensorsAssumption DEF IInv, TypeInv, Done
  <2> QED
    BY <2>1 DEF Done, More, Back, After
<1>2. /\ at \in 1 .. 3 /\ count \in 0 .. Count /\ got \in 0 .. count /\ count > 0 /\ Count \in Nat
      /\ Len(data) + count = Count + got /\ Len(data) \in Nat
  BY <1>1, SensorsAssumption DEF IInv, TypeInv, ScanInv, RoomInv
<1>3. got < count => Available(reader[s]) = 0
  BY <1>1, <1>2, AvailableNat DEF IInv
<1>4. TypeInv'
  <2>1. revents' \in [ToSet(Drivers) -> BOOLEAN]
    BY <1>1 DEF IInv, TypeInv
  <2>2. at' \in 1 .. 5 /\ count' \in 0 .. Count /\ got' \in 0 .. Count
    BY <1>1, <1>2
  <2>3. pc' \in {"idle", "scan", "read", "mpl", "return", "lost"}
    BY <1>1
  <2> QED
    BY <1>1, <2>1, <2>2, <2>3 DEF IInv, TypeInv
<1>5. LeftoverMarked'
  <2> SUFFICES ASSUME NEW q \in Readers, Available(reader'[q]) > 0 PROVE revents'[q]
    BY DEF LeftoverMarked
  <2>1. revents[q] /\ Available(reader[q]) > 0
    BY <1>1 DEF IInv, LeftoverMarked
  <2>2. CASE got < count
    <3>1. q # s
      BY <1>3, <2>1, <2>2
    <3> QED
      BY <1>1, <2>1, <3>1 DEF IInv, TypeInv
  <2>3. CASE ~(got < count)
    BY <1>1, <2>1, <2>3
  <2> QED
    BY <2>2, <2>3
<1>6. ScanInv'
  <2> SUFFICES ASSUME count' > 0, NEW j \in 1 .. at' - 1, Drivers[j] \in Readers
               PROVE  Available(reader'[Drivers[j]]) = 0
    BY <1>1 DEF ScanInv
  <2>1. got < count
    BY <1>1, <1>2
  <2>2. CASE j = at
    BY <1>1, <1>3, <2>1, <2>2
  <2>3. CASE j # at
    <3>1. j \in 1 .. at - 1
      BY <1>1, <1>2, <2>3
    <3> QED
      BY <1>1, <1>2, <3>1 DEF IInv, ScanInv
  <2> QED
    BY <2>2, <2>3
<1>7. RoomInv'
  BY <1>1, <1>2 DEF RoomInv
<1> QED
  BY <1>4, <1>5, <1>6, <1>7 DEF IInv

\* The MPL sensors are not among the readers, and without room for two events
\* the temperature waits.
LEMMA InvReadMpl == IInv /\ ReadMpl => IInv'
<1> SUFFICES ASSUME IInv, ReadMpl PROVE IInv'
  OBVIOUS
<1>1. /\ at = 4 /\ pc = "mpl" /\ count \in 0 .. Count /\ count > 0 /\ Count \in Nat
      /\ Len(data) + count = Count /\ Len(data) \in Nat /\ data \in Seq(Data)
  BY SensorsAssumption DEF IInv, TypeInv, ScanInv, RoomInv, ReadMpl
<1>2. PICK n \in 0 .. count :
        /\ data' \in Seq(Data) /\ Len(data') = Len(data) + n
        /\ Back("gyro", n)
  <2> DEFINE pending == gyro.pending \cup MplOn
             room == count > 1 \/ "gyroscope" \notin pending \cap MplOn
             taken == IF room THEN pending ELSE pending \cap {"gyroscope"}
             event(h) == IF h \in taken \cap MplOn THEN <<[s |-> "gyro", v |-> h]>> ELSE <<>>
             written == event("gyroscope") \o event("temperature")
  <2>1. \A h \in Mpl : event(h) \in Seq(Data) /\ Len(event(h)) \in {0, 1}
    <3> TAKE h \in Mpl
    <3>1. [s |-> "gyro", v |-> h] \in Data
      BY DriversAre DEF Data
    <3> HIDE DEF taken
    <3> QED
      BY <3>1
  <2>2. count = 1 => event("gyroscope") = <<>> \/ event("temperature") = <<>>
    OBVIOUS
  <2> HIDE DEF event
  <2>3. PICK a, b : a = event("gyroscope") /\ b = event("temperature")
    OBVIOUS
  <2>4. /\ a \in Seq(Data) /\ Len(a) \in {0, 1} /\ b \in Seq(Data) /\ Len(b) \in {0, 1}
        /\ count = 1 => Len(a) = 0 \/ Len(b) = 0
    BY <2>1, <2>2, <2>3 DEF Mpl
  <2>5. /\ a \o b \in Seq(Data) /\ Len(a \o b) = Len(a) + Len(b)
        /\ data \o (a \o b) \in Seq(Data) /\ Len(data \o (a \o b)) = Len(data) + Len(a \o b)
    BY <1>1, <2>4
  <2>6. Len(a \o b) \in 0 .. count
    <3>1. Len(a) + Len(b) \in 0 .. count
      BY <1>1, <2>4, TwoWritten
    <3> QED
      BY <2>5, <3>1
  <2>7. CASE gyro.new
    <3>1. data' = data \o written /\ Back("gyro", Len(written))
      BY <2>7 DEF ReadMpl, event
    <3>2. written = a \o b
      BY <2>3
    <3> QED
      BY <2>5, <2>6, <3>1, <3>2
  <2>8. CASE ~gyro.new
    <3>1. data' = data /\ Back("gyro", 0)
      BY <2>8 DEF ReadMpl
    <3> QED
      BY <1>1, <3>1
  <2> QED
    BY <2>7, <2>8
<1>3. /\ revents' = IF n < count THEN [revents EXCEPT !["gyro"] = FALSE] ELSE revents
      /\ count' = count - n /\ at' = at + 1 /\ pc' = "scan" /\ got' = 0
      /\ UNCHANGED <<made, kernel, reader, pend>>
  BY <1>2 DEF ReadMpl, Back, After
<1>4. TypeInv'
  <2>1. revents' \in [ToSet(Drivers) -> BOOLEAN]
    BY <1>3 DEF IInv, TypeInv
  <2>2. at' \in 1 .. 5 /\ count' \in 0 .. Count /\ got' \in 0 .. Count
    BY <1>1, <1>2, <1>3
  <2>3. pc' \in {"idle", "scan", "read", "mpl", "return", "lost"}
    BY <1>3
  <2> QED
    BY <1>2, <1>3, <2>1, <2>2, <2>3 DEF IInv, TypeInv
<1>5. LeftoverMarked'
  <2>1. \A q \in Readers : revents'[q] = revents[q]
    BY <1>3, DriversAre DEF IInv, TypeInv
  <2>2. pc # "lost"
    BY DEF ReadMpl
  <2> QED
    BY <1>3, <2>1, <2>2 DEF IInv, LeftoverMarked
<1>6. ScanInv'
  <2> SUFFICES ASSUME NEW j \in 1 .. at' - 1, Drivers[j] \in Readers
               PROVE  Available(reader'[Drivers[j]]) = 0
    BY <1>3 DEF ScanInv
  <2>1. j \in 1 .. at - 1
    <3>1. j \in 1 .. 4
      BY <1>1, <1>3
    <3>2. j \in 1 .. 3
      BY <3>1, DriverPlaces
    <3> QED
      BY <1>1, <3>2
  <2> QED
    BY <1>1, <1>3, <2>1 DEF IInv, ScanInv
<1>7. RoomInv'
  BY <1>1, <1>2, <1>3 DEF RoomInv
<1> QED
  BY <1>4, <1>5, <1>6, <1>7 DEF IInv

\* poll is called when the scan is over and room is left: every reader is empty,
\* so that it may unmark what it does not find readable.
LEMMA InvPoll == IInv /\ Poll => IInv'
<1> SUFFICES ASSUME IInv, Poll PROVE IInv'
  OBVIOUS
<1>1. /\ pc = "scan" /\ count > 0 /\ at > Len(Drivers) /\ at' = 1
      /\ pc' \in {"scan", "return"}
      /\ UNCHANGED <<made, kernel, reader, pend, count, got, data>>
  BY DEF Poll
<1>2. revents' \in [ToSet(Drivers) -> BOOLEAN]
  BY DEF Poll
<1>3. \A s \in Readers : Available(reader[s]) = 0
  <2>1. at = 5
    BY <1>1, DriversAre DEF IInv, TypeInv
  <2>2. \A j \in 1 .. 4 : Drivers[j] \in Readers => Available(reader[Drivers[j]]) = 0
    BY <1>1, <2>1 DEF IInv, ScanInv
  <2> QED
    BY <2>2, DriversAre
<1>4. TypeInv'
  BY <1>1, <1>2 DEF IInv, TypeInv
<1>5. LeftoverMarked'
  BY <1>1, <1>3 DEF LeftoverMarked
<1>6. ScanInv'
  BY <1>1 DEF ScanInv
<1>7. RoomInv'
  BY <1>1 DEF IInv, RoomInv
<1> QED
  BY <1>4, <1>5, <1>6, <1>7 DEF IInv

\* The other steps of the thread.
LEMMA InvScan == IInv /\ (Call \/ Skip \/ Return \/ PollFails \/ UpdateMpl) => IInv'
<1> SUFFICES ASSUME IInv, Call \/ Skip \/ Return \/ PollFails \/ UpdateMpl PROVE IInv'
  OBVIOUS
<1>1. CASE Call
  <2>1. /\ pc = "idle" /\ pc' = "scan" /\ at' = 1 /\ count' = Count /\ data' = <<>>
        /\ UNCHANGED <<made, kernel, reader, pend, revents, got>>
    BY <1>1 DEF Call
  <2>2. Count \in Nat \ {0}
    BY SensorsAssumption
  <2>3. TypeInv' /\ LeftoverMarked'
    BY <2>1, <2>2 DEF IInv, TypeInv, LeftoverMarked
  <2>4. ScanInv'
    BY <2>1 DEF ScanInv
  <2>5. RoomInv'
    BY <2>1, <2>2 DEF RoomInv
  <2> QED
    BY <2>3, <2>4, <2>5 DEF IInv
<1>2. CASE Skip
  <2>1. /\ pc = "scan" /\ count > 0 /\ at <= Len(Drivers) /\ ~revents[Drivers[at]]
        /\ at' = at + 1
        /\ UNCHANGED <<made, kernel, reader, pend, revents, pc, count, got, data>>
    BY <1>2 DEF Skip
  <2>2. at \in 1 .. 4
    BY <2>1, DriversAre DEF IInv, TypeInv
  <2>3. TypeInv' /\ LeftoverMarked' /\ RoomInv'
    BY <2>1, <2>2 DEF IInv, TypeInv, LeftoverMarked, RoomInv
  <2>4. ScanInv'
    <3> SUFFICES ASSUME NEW j \in 1 .. at' - 1, Drivers[j] \in Readers
                 PROVE  Available(reader'[Drivers[j]]) = 0
      BY <2>1 DEF ScanInv
    <3>1. CASE j = at
      <4>1. ~(Available(reader[Drivers[j]]) > 0)
        BY <2>1, <3>1 DEF IInv, LeftoverMarked
      <4> QED
        BY <2>1, <4>1, AvailableNat DEF IInv
    <3>2. CASE j # at
      <4>1. j \in 1 .. at - 1
        BY <2>1, <2>2, <3>2
      <4> QED
        BY <2>1, <4>1 DEF IInv, ScanInv
    <3> QED
      BY <3>1, <3>2
  <2> QED
    BY <2>3, <2>4 DEF IInv
<1>3. CASE Return \/ PollFails
  <2>1. /\ pc' = "idle" /\ at' = 1 /\ data' = <<>>
        /\ UNCHANGED <<made, kernel, reader, pend, revents, count, got>>
    BY <1>3 DEF Return, PollFails, Ends
  <2>3. pc # "lost"
    BY <1>3 DEF Return, PollFails
  <2>2. Count \in Nat
    BY SensorsAssumption
  <2> QED
    BY <2>1, <2>2, <2>3 DEF IInv, TypeInv, LeftoverMarked, ScanInv, RoomInv
<1>4. CASE UpdateMpl
  <2>1. /\ pc = "scan" /\ count > 0 /\ at <= Len(Drivers) /\ Drivers[at] = "gyro" /\ pc' = "mpl"
        /\ UNCHANGED <<made, kernel, reader, pend, revents, at, count, got, data>>
    BY <1>4 DEF UpdateMpl, Due
  <2>2. at \in 1 .. 4 /\ Drivers[4] = "gyro"
    BY <2>1, DriversAre DEF IInv, TypeInv
  <2>3. at = 4
    BY <2>1, <2>2, DriverPlaces
  <2>4. TypeInv' /\ LeftoverMarked' /\ RoomInv'
    BY <2>1 DEF IInv, TypeInv, LeftoverMarked, RoomInv
  <2>5. ScanInv'
    BY <2>1, <2>3 DEF IInv, ScanInv
  <2> QED
    BY <2>4, <2>5 DEF IInv
<1> QED
  BY <1>1, <1>2, <1>3, <1>4

\* What the devices and activate do does not touch what the thread has read.
LEMMA InvOthers ==
  ASSUME IInv, Activate \/ Interrupt \/ (\E s \in Readers : MakeSample(s)) \/ UNCHANGED vars
  PROVE  IInv'
<1>1. /\ UNCHANGED <<reader, pend, revents, pc, at, count, got, data>>
      /\ made' \in [ToSet(Drivers) -> Nat] /\ kernel' \in [Readers -> Seq(Nat)]
  <2> USE DEF pollVars
  <2>1. made \in [ToSet(Drivers) -> Nat] /\ kernel \in [Readers -> Seq(Nat)]
    BY DEF IInv, TypeInv
  <2>2. CASE Activate
    BY <2>1, <2>2 DEF Activate, EnableLsm, ResetLight, EnableLight, EnableLightFails,
                     EnableMpl, WakeUp
  <2>3. CASE Interrupt
    BY <2>1, <2>3, DriversAre DEF Interrupt
  <2>4. CASE \E s \in Readers : MakeSample(s)
    <3> SUFFICES ASSUME NEW s \in Readers, MakeSample(s)
                 PROVE  /\ UNCHANGED <<reader, pend, revents, pc, at, count, got, data>>
                        /\ made' \in [ToSet(Drivers) -> Nat]
                        /\ kernel' \in [Readers -> Seq(Nat)]
      BY <2>4
    <3>1. made[s] \in Nat /\ NewSample(s) \in Nat /\ Syn \in Nat
      BY <2>1, DriversAre DEF NewSample, Syn
    <3>2. kernel[s] \o <<NewSample(s), Syn>> \in Seq(Nat)
      BY <2>1, <3>1
    <3>3. /\ UNCHANGED <<reader, pend, revents, pc, at, count, got, data>>
          /\ made' = [made EXCEPT ![s] = @ + 1]
          /\ kernel' = [kernel EXCEPT ![s] = @ \o <<NewSample(s), Syn>>]
      BY DEF MakeSample
    <3>4. made' \in [ToSet(Drivers) -> Nat]
      <4>1. PICK n \in Nat : n = made[s] + 1
        BY <3>1
      <4>2. made' = [made EXCEPT ![s] = n]
        BY <3>3, <4>1
      <4> QED
        BY <2>1, <4>2
    <3>5. kernel' \in [Readers -> Seq(Nat)]
      BY <2>1, <3>2, <3>3
    <3> QED
      BY <3>3, <3>4, <3>5
  <2>5. CASE UNCHANGED vars
    BY <2>1, <2>5 DEF vars
  <2> QED
    BY <2>2, <2>3, <2>4, <2>5
<1> QED
  BY <1>1 DEF IInv, TypeInv, LeftoverMarked, ScanInv, RoomInv

\* A read that fails leaves the room and the marks as it likes, and is the end.
LEMMA InvFails ==
  ASSUME IInv, NEW s \in Readers, FillFails(s)
  PROVE  IInv'
<1>1. /\ pc = "scan" /\ at <= Len(Drivers) /\ Drivers[at] = s
      /\ revents' = [revents EXCEPT ![s] = FALSE] /\ at' = at + 1 /\ pc' = "lost"
      /\ UNCHANGED <<made, kernel, reader, pend, got, data>>
  BY DEF FillFails, Due
<1>2. at' \in 1 .. 5
  BY <1>1, DriversAre DEF IInv, TypeInv
<1>3. revents' \in [ToSet(Drivers) -> BOOLEAN]
  BY <1>1 DEF IInv, TypeInv
<1> QED
  BY <1>1, <1>2, <1>3 DEF IInv, TypeInv, LeftoverMarked, ScanInv, RoomInv

LEMMA InvNext == IInv /\ [Next]_vars => IInv'
<1> SUFFICES ASSUME IInv, [Next]_vars PROVE IInv'
  OBVIOUS
<1>1. ASSUME NEW s \in Readers,
             Fill(s) \/ FillFails(s) \/ Value(s) \/ Sample(s) \/ NoSample(s) \/ Done(s)
      PROVE  IInv'
  BY <1>1, InvFill, InvFails, InvEvent, InvDone
<1> QED
  BY <1>1, InvReadMpl, InvPoll, InvScan, InvOthers DEF Next, PollEvents

LEMMA Invariant == Spec => []IInv
<1> QED
  BY InvInit, InvNext, PTL DEF Spec

\* Samples that the thread has read and not written out are never forgotten:
\* whatever the drivers deliver, whoever is switched on or off meanwhile, and
\* wherever a call runs out of room, the driver stays marked for the next call.
THEOREM LeftoversStayMarked == Spec => []LeftoverMarked
<1>1. IInv => LeftoverMarked
  BY DEF IInv
<1> QED
  BY <1>1, Invariant, PTL

\* Until a read of a driver fails, pollEvents fills no place beyond the count its
\* caller gave: every driver is asked for as many events as the drivers before it
\* have left room for.
THEOREM PollWithinRoom == Spec => []WithinRoom
<1>1. IInv => WithinRoom
  BY SensorsAssumption DEF IInv, RoomInv, WithinRoom
<1> QED
  BY <1>1, Invariant, PTL

-----------------------------------------------------------------------------
(* What a call of poll has written, of which driver.                       *)

\* A set that has 0 and with each number the next has all; from the finite
\* intervals, of which every set has a smallest.
LEMMA Induction ==
  ASSUME NEW T, 0 \in T, \A n \in Nat : n \in T => n + 1 \in T
  PROVE  Nat \subseteq T
<1> DEFINE Below == {0 .. n : n \in Nat \ T}
<1> SUFFICES ASSUME Below # {} PROVE FALSE
  OBVIOUS
<1>1. Below \subseteq FiniteSubsetsOf(Nat)
  <2>1. \A n \in Nat : IsFiniteSet(0 .. n)
    BY FS_Interval
  <2> QED
    BY <2>1 DEF FiniteSubsetsOf
<1>2. PICK m \in Below : \A y \in Below : <<y, m>> \notin StrictSubsetOrdering(Nat)
  BY <1>1, WFMin, FS_StrictSubsetOrderingWellFounded
<1>3. PICK x \in Nat \ T : m = 0 .. x
  OBVIOUS
<1>4. x # 0 /\ x - 1 \in Nat /\ x - 1 \notin T
  BY <1>3
<1>5. (0 .. (x - 1)) \in Below
  BY <1>4
<1>6. <<0 .. (x - 1), m>> \in StrictSubsetOrdering(Nat)
  BY <1>3, <1>4 DEF StrictSubsetOrdering
<1> QED
  BY <1>2, <1>5, <1>6

\* What s has written: g[i] is what it has of the first i events, as in ValuesOf.
Step(old, e, s) == IF e.s = s THEN Append(old, e.v) ELSE old
Picks(g, n, s, d) == g = [i \in 0 .. n |-> IF i = 0 THEN <<>> ELSE Step(g[i - 1], d[i], s)]

\* Each such function by its places; there is one, for as many events as there are.
LEMMA PicksAt ==
  ASSUME NEW n \in Nat, NEW s, NEW d, NEW g, Picks(g, n, s, d)
  PROVE  g[0] = <<>> /\ \A i \in 1 .. n : g[i] = Step(g[i - 1], d[i], s)
<1>1. 0 \in 0 .. n /\ \A i \in 1 .. n : i \in 0 .. n /\ i # 0
  OBVIOUS
<1> QED
  BY <1>1 DEF Picks

LEMMA PicksExist ==
  ASSUME NEW s, NEW d
  PROVE  \A n \in Nat : \E g : Picks(g, n, s, d)
<1> DEFINE T == {n \in Nat : \E g : Picks(g, n, s, d)}
<1>1. 0 \in T
  <2>1. Picks([i \in 0 .. 0 |-> <<>>], 0, s, d)
    BY DEF Picks
  <2> QED
    BY <2>1
<1>2. ASSUME NEW n \in Nat, n \in T
      PROVE  n + 1 \in T
  <2>1. PICK g : Picks(g, n, s, d)
    BY <1>2
  <2> DEFINE h == [i \in 0 .. (n + 1) |-> IF i = n + 1 THEN Step(g[n], d[n + 1], s) ELSE g[i]]
  <2>2. /\ \A i \in 0 .. n : h[i] = g[i]
        /\ h[n + 1] = Step(g[n], d[n + 1], s)
        /\ h = [i \in 0 .. (n + 1) |-> h[i]]
    OBVIOUS
  <2> HIDE DEF h
  <2>3. ASSUME NEW i \in 0 .. (n + 1)
        PROVE  h[i] = IF i = 0 THEN <<>> ELSE Step(h[i - 1], d[i], s)
    <3>1. CASE i = 0
      <4>1. 0 \in 0 .. n
        OBVIOUS
      <4>2. h[0] = g[0]
        BY <2>2, <4>1
      <4>3. g[0] = <<>>
        BY <2>1, PicksAt
      <4> QED
        BY <3>1, <4>2, <4>3
    <3>2. CASE i \in 1 .. n
      <4>0. PICK k : k = i - 1 /\ k \in 0 .. n /\ i \in 0 .. n /\ i # 0
        BY <3>2
      <4>1. h[i] = g[i] /\ h[i - 1] = g[i - 1] /\ i # 0
        BY <2>2, <4>0
      <4>2. g[i] = Step(g[i - 1], d[i], s)
        BY <2>1, <3>2, PicksAt
      <4> QED
        BY <4>1, <4>2
    <3>3. CASE i = n + 1
      <4>1. h[i - 1] = g[n] /\ i # 0
        BY <2>2, <3>3
      <4> QED
        BY <2>2, <3>3, <4>1
    <3> QED
      BY <3>1, <3>2, <3>3
  <2>4. Picks(h, n + 1, s, d)
    BY <2>2, <2>3 DEF Picks
  <2> QED
    BY <2>4
<1> HIDE DEF T
<1>3. Nat \subseteq T
  BY <1>1, <1>2, Induction
<1> QED
  BY <1>3 DEF T

\* It does not depend on what comes later.
LEMMA PicksAgree ==
  ASSUME NEW s, NEW n \in Nat, NEW d, NEW g, Picks(g, n, s, d),
         NEW m \in Nat, n <= m, NEW e, NEW h, Picks(h, m, s, e), \A i \in 1 .. n : d[i] = e[i]
  PROVE  \A i \in 0 .. n : g[i] = h[i]
<1> DEFINE T == {i \in Nat : i <= n => g[i] = h[i]}
<1>1. 0 \in T
  BY PicksAt
<1>2. ASSUME NEW i \in Nat, i \in T
      PROVE  i + 1 \in T
  <2>1. CASE i + 1 <= n
    <3>1. PICK j : j = i + 1 /\ j \in 1 .. n /\ j \in 1 .. m /\ j - 1 = i
      BY <2>1
    <3>2. g[j] = Step(g[j - 1], d[j], s) /\ h[j] = Step(h[j - 1], e[j], s)
      BY <3>1, PicksAt
    <3>3. g[i] = h[i] /\ d[j] = e[j]
      BY <1>2, <2>1, <3>1
    <3> QED
      BY <3>1, <3>2, <3>3
  <2> QED
    BY <2>1
<1> HIDE DEF T
<1>3. Nat \subseteq T
  BY <1>1, <1>2, Induction
<1> QED
  BY <1>3 DEF T

\* It gives sequences of the values that were written.
LEMMA PicksType ==
  ASSUME NEW s, NEW V, NEW S, NEW n \in Nat, NEW d, \A i \in 1 .. n : d[i].v \in V,
         NEW g, Picks(g, n, s, d)
  PROVE  \A i \in 0 .. n : g[i] \in Seq(V)
<1> DEFINE T == {i \in Nat : i <= n => g[i] \in Seq(V)}
<1>1. 0 \in T
  <2>1. g[0] = <<>>
    BY PicksAt
  <2>2. <<>> \in Seq(V)
    OBVIOUS
  <2> QED
    BY <2>1, <2>2
<1>2. ASSUME NEW i \in Nat, i \in T
      PROVE  i + 1 \in T
  <2>1. CASE i + 1 <= n
    <3>1. PICK j : j = i + 1 /\ j \in 1 .. n /\ j - 1 = i
      BY <2>1
    <3>2. g[j] = Step(g[j - 1], d[j], s)
      BY <3>1, PicksAt
    <3>3. PICK x, e : x = g[i] /\ x \in Seq(V) /\ e = d[j].v /\ e \in V
      BY <1>2, <2>1, <3>1
    <3>4. Append(x, e) \in Seq(V)
      BY <3>3
    <3>5. g[j] \in Seq(V)
      BY <3>1, <3>2, <3>3, <3>4 DEF Step
    <3> QED
      BY <3>1, <3>5
  <2> QED
    BY <2>1
<1> HIDE DEF T
<1>3. Nat \subseteq T
  BY <1>1, <1>2, Induction
<1> QED
  BY <1>3 DEF T

Written == Nat \cup Mpl

\* ValuesOf by such a function; its type, its first value and its next.
LEMMA ValuesOfPicks ==
  ASSUME NEW s, NEW d \in Seq(Data)
  PROVE  \E g : Picks(g, Len(d), s, d) /\ ValuesOf(s, d) = g[Len(d)]
<1> DEFINE of == CHOOSE g : Picks(g, Len(d), s, d)
<1>1. Len(d) \in Nat
  OBVIOUS
<1>2. Picks(of, Len(d), s, d)
  BY <1>1, PicksExist
<1>3. ValuesOf(s, d) = of[Len(d)]
  BY DEF ValuesOf, Picks, Step
<1> QED
  BY <1>2, <1>3

LEMMA ValuesOfType ==
  ASSUME NEW s, NEW d \in Seq(Data)
  PROVE  ValuesOf(s, d) \in Seq(Written)
<1>1. PICK g : Picks(g, Len(d), s, d) /\ ValuesOf(s, d) = g[Len(d)]
  BY ValuesOfPicks
<1>2. Len(d) \in Nat /\ \A i \in 1 .. Len(d) : d[i].v \in Written
  <2>1. \A e \in Data : e.v \in Written
    BY DEF Data, Written
  <2> QED
    BY <2>1
<1>3. Len(d) \in 0 .. Len(d)
  BY <1>2
<1> QED
  BY <1>1, <1>2, <1>3, PicksType

LEMMA ValuesOfNone == \A s : ValuesOf(s, <<>>) = <<>>
<1> TAKE s
<1>1. PICK d : d = <<>> /\ d \in Seq(Data) /\ Len(d) = 0
  <2>1. <<>> \in Seq(Data) /\ Len(<<>>) = 0
    OBVIOUS
  <2> QED
    BY <2>1
<1>2. PICK g : Picks(g, 0, s, d) /\ ValuesOf(s, d) = g[0]
  BY <1>1, ValuesOfPicks
<1> QED
  BY <1>1, <1>2, PicksAt

LEMMA ValuesOfMore ==
  ASSUME NEW s, NEW d \in Seq(Data), NEW e \in Data
  PROVE  ValuesOf(s, Append(d, e)) = Step(ValuesOf(s, d), e, s)
<1>1. PICK n, m, c : /\ n = Len(d) /\ n \in Nat /\ m = n + 1 /\ m \in Nat /\ c = Append(d, e)
                     /\ c \in Seq(Data) /\ Len(c) = m
  <2>1. Len(d) \in Nat /\ Len(d) + 1 \in Nat /\ Append(d, e) \in Seq(Data)
        /\ Len(Append(d, e)) = Len(d) + 1
    OBVIOUS
  <2> QED
    BY <2>1, Zenon
<1>2. (\A i \in 1 .. n : d[i] = c[i]) /\ c[m] = e
  BY <1>1
<1>3. PICK g : Picks(g, n, s, d) /\ ValuesOf(s, d) = g[n]
  BY <1>1, ValuesOfPicks
<1>4. PICK h : Picks(h, m, s, c) /\ ValuesOf(s, c) = h[m]
  BY <1>1, ValuesOfPicks
<1>5. n <= m /\ n \in 0 .. n /\ m \in 1 .. m /\ m - 1 = n
  BY <1>1
<1>6. g[n] = h[n]
  <2>0. n \in Nat /\ m \in Nat /\ n <= m
    BY <1>1, <1>5
  <2>2. Picks(g, n, s, d) /\ Picks(h, m, s, c) /\ \A i \in 1 .. n : d[i] = c[i]
    BY <1>2, <1>3, <1>4
  <2>1. \A i \in 0 .. n : g[i] = h[i]
    BY <2>0, <2>2, PicksAgree
  <2> QED
    BY <1>5, <2>1
<1>7. h[m] = Step(h[n], e, s)
  <2>0. m \in Nat /\ Picks(h, m, s, c)
    BY <1>1, <1>4
  <2>1. \A i \in 1 .. m : h[i] = Step(h[i - 1], c[i], s)
    BY <2>0, PicksAt
  <2> QED
    BY <1>2, <1>5, <2>1
<1> QED
  BY <1>1, <1>3, <1>4, <1>6, <1>7

-----------------------------------------------------------------------------
(* The samples in a stream of input events.                                *)

\* Each Syn comes after the value it ends: from the end, every second event is one.
Even(n) == n % 2 = 0
Paired(events) == \A i \in 1 .. Len(events) : events[i] = Syn <=> Even(Len(events) - i)

\* What the proofs need of even and odd.
LEMMA Parity ==
  /\ Even(0) /\ ~Even(1)
  /\ \A n \in Nat : Even(n + 2) <=> Even(n)
  /\ \A m \in Nat : Even(2 * m) /\ ~Even(2 * m + 1)
  BY DEF Even

LEMMA Halves == \A n \in Nat : \E m \in Nat : n = 2 * m \/ n = 2 * m + 1
<1> TAKE n \in Nat
<1>1. n \div 2 \in Nat /\ (n = 2 * (n \div 2) \/ n = 2 * (n \div 2) + 1)
  OBVIOUS
<1> QED
  BY <1>1

\* Decode by its places, of an even number of events and of an odd one.
Evens(q, events, m) ==
  q \in Seq(Nat) /\ Len(q) = m /\ \A j \in 1 .. m : q[j] = events[2 * j - 1]
Odds(q, begun, events, m) ==
  q \in Seq(Nat) /\ Len(q) = m + 1 /\ q[1] = begun /\ \A j \in 1 .. m : q[j + 1] = events[2 * j]

LEMMA DecodeEven ==
  ASSUME NEW begun \in Nat, NEW events \in Seq(Nat), NEW m \in Nat, Len(events) = 2 * m
  PROVE  Evens(Decode(begun, events), events, m)
<1>1. PICK n \in Nat : n = Len(events)
  OBVIOUS
<1>2. n = 2 * m /\ n % 2 = 0 /\ (n + 0) \div 2 = m
  BY <1>1
<1>3. PICK q : q = Decode(begun, events)
  OBVIOUS
<1>4. \A j \in 1 .. m : 2 * j - 1 \in 1 .. n /\ 2 * j - 1 - 0 = 2 * j - 1
  BY <1>2
<1>5. q = [j \in 1 .. (n + 0) \div 2 |-> IF 0 = 1 /\ j = 1 THEN begun ELSE events[2 * j - 1 - 0]]
  BY <1>1, <1>2, <1>3 DEF Decode
<1>6. q = [j \in 1 .. m |-> events[2 * j - 1]]
  BY <1>2, <1>4, <1>5
<1>7. \A i \in 1 .. n : events[i] \in Nat
  BY <1>1
<1>8. q \in [1 .. m -> Nat]
  BY <1>4, <1>6, <1>7
<1>9. q \in Seq(Nat) /\ Len(q) = m
  BY <1>8
<1>10. \A j \in 1 .. m : q[j] = events[2 * j - 1]
  BY <1>6
<1> QED
  BY <1>3, <1>9, <1>10 DEF Evens

LEMMA DecodeOdd ==
  ASSUME NEW begun \in Nat, NEW events \in Seq(Nat), NEW m \in Nat, Len(events) = 2 * m + 1
  PROVE  Odds(Decode(begun, events), begun, events, m)
<1>1. PICK n \in Nat : n = Len(events)
  OBVIOUS
<1>2. n = 2 * m + 1 /\ n % 2 = 1 /\ (n + 1) \div 2 = m + 1
  BY <1>1
<1>3. PICK q : q = Decode(begun, events)
  OBVIOUS
<1>4. \A j \in 1 .. m + 1 : j # 1 => 2 * j - 1 - 1 \in 1 .. n
  BY <1>2
<1>5. q = [j \in 1 .. (n + 1) \div 2 |-> IF 1 = 1 /\ j = 1 THEN begun ELSE events[2 * j - 1 - 1]]
  BY <1>1, <1>2, <1>3 DEF Decode
<1>6. q = [j \in 1 .. m + 1 |-> IF j = 1 THEN begun ELSE events[2 * j - 1 - 1]]
  BY <1>2, <1>5
<1>7. \A i \in 1 .. n : events[i] \in Nat
  BY <1>1
<1>8. q \in [1 .. m + 1 -> Nat]
  BY <1>4, <1>6, <1>7
<1>9. q \in Seq(Nat) /\ Len(q) = m + 1
  BY <1>8
<1>10. q[1] = begun
  BY <1>6
<1>11. \A j \in 1 .. m : q[j + 1] = events[2 * j]
  <2> TAKE j \in 1 .. m
  <2>1. j + 1 \in 1 .. m + 1 /\ j + 1 # 1 /\ 2 * (j + 1) - 1 - 1 = 2 * j
    OBVIOUS
  <2>2. q[j + 1] = events[2 * (j + 1) - 1 - 1]
    BY <1>6, <2>1
  <2> QED
    BY <2>1, <2>2
<1> QED
  BY <1>3, <1>9, <1>10, <1>11 DEF Odds

LEMMA DecodeType ==
  ASSUME NEW begun \in Nat, NEW events \in Seq(Nat)
  PROVE  Decode(begun, events) \in Seq(Nat)
<1>1. Len(events) \in Nat
  OBVIOUS
<1>2. PICK m \in Nat : Len(events) = 2 * m \/ Len(events) = 2 * m + 1
  BY <1>1, Halves
<1>3. CASE Len(events) = 2 * m
  BY <1>3, DecodeEven DEF Evens
<1>4. CASE Len(events) = 2 * m + 1
  BY <1>4, DecodeOdd DEF Odds
<1> QED
  BY <1>2, <1>3, <1>4

\* A sample is made.
Longer(c, events, n, v) ==
  /\ c \in Seq(Nat) /\ Len(events) = n /\ Len(c) = n + 2
  /\ c[n + 1] = v /\ c[n + 2] = Syn /\ \A i \in 1 .. n : c[i] = events[i]

LEMMA EventsMade ==
  ASSUME NEW events \in Seq(Nat), NEW v \in Nat
  PROVE  \E n \in Nat : Longer(events \o <<v, Syn>>, events, n, v)
<1>0. PICK n \in Nat : n = Len(events)
  OBVIOUS
<1>1. PICK b : b = <<v, Syn>>
  OBVIOUS
<1>2. b \in Seq(Nat) /\ Len(b) = 2 /\ b[1] = v /\ b[2] = Syn
  BY <1>1 DEF Syn
<1>3. PICK c : c = events \o b
  OBVIOUS
<1>4. /\ c \in Seq(Nat) /\ Len(c) = Len(events) + Len(b)
      /\ \A i \in 1 .. Len(events) + Len(b) :
           c[i] = IF i <= Len(events) THEN events[i] ELSE b[i - Len(events)]
  BY <1>2, <1>3, ConcatProperties
<1>5. Len(c) = n + 2 /\ \A i \in 1 .. n + 2 : c[i] = IF i <= n THEN events[i] ELSE b[i - n]
  BY <1>0, <1>2, <1>4
<1>6. c[n + 1] = v
  <2>1. n + 1 \in 1 .. n + 2 /\ ~(n + 1 <= n) /\ n + 1 - n = 1
    OBVIOUS
  <2>2. c[n + 1] = b[n + 1 - n]
    BY <1>5, <2>1
  <2> QED
    BY <1>2, <2>1, <2>2
<1>7. c[n + 2] = Syn
  <2>1. n + 2 \in 1 .. n + 2 /\ ~(n + 2 <= n) /\ n + 2 - n = 2
    OBVIOUS
  <2>2. c[n + 2] = b[n + 2 - n]
    BY <1>5, <2>1
  <2> QED
    BY <1>2, <2>1, <2>2
<1>8. \A i \in 1 .. n : c[i] = events[i]
  <2> TAKE i \in 1 .. n
  <2>1. i \in 1 .. n + 2 /\ i <= n
    OBVIOUS
  <2> QED
    BY <1>5, <2>1
<1> QED
  BY <1>0, <1>1, <1>3, <1>4, <1>5, <1>6, <1>7, <1>8 DEF Longer

LEMMA PairedMade ==
  ASSUME NEW events \in Seq(Nat), NEW v \in Nat, v # Syn, Paired(events)
  PROVE  Paired(events \o <<v, Syn>>)
<1>0. PICK n \in Nat : Longer(events \o <<v, Syn>>, events, n, v)
  BY EventsMade
<1>1. PICK c : c = events \o <<v, Syn>> /\ Longer(c, events, n, v)
  BY <1>0
<1>2. /\ c \in Seq(Nat) /\ Len(events) = n /\ Len(c) = n + 2
      /\ c[n + 1] = v /\ c[n + 2] = Syn /\ \A i \in 1 .. n : c[i] = events[i]
  BY <1>1 DEF Longer
<1>3. ASSUME NEW i \in 1 .. n + 2
      PROVE  c[i] = Syn <=> Even(n + 2 - i)
  <2>1. CASE i = n + 1
    <3>1. n + 2 - i = 1
      BY <2>1
    <3> QED
      BY <1>2, <2>1, <3>1, Parity
  <2>2. CASE i = n + 2
    <3>1. n + 2 - i = 0
      BY <2>2
    <3> QED
      BY <1>2, <2>2, <3>1, Parity
  <2>3. CASE i \in 1 .. n
    <3>1. c[i] = events[i]
      BY <1>2, <2>3
    <3>2. events[i] = Syn <=> Even(n - i)
      BY <1>2, <2>3 DEF Paired
    <3>3. n - i \in Nat /\ n + 2 - i = n - i + 2
      BY <2>3
    <3>4. Even(n + 2 - i) <=> Even(n - i)
      BY <3>3, Parity
    <3> QED
      BY <3>1, <3>2, <3>4
  <2> QED
    BY <2>1, <2>2, <2>3
<1>4. Paired(c)
  <2>1. Len(c) = n + 2
    BY <1>2
  <2> QED
    BY <1>3, <2>1 DEF Paired
<1> QED
  BY <1>1, <1>4

LEMMA DecodeMade ==
  ASSUME NEW begun \in Nat, NEW events \in Seq(Nat), NEW v \in Nat
  PROVE  Decode(begun, events \o <<v, Syn>>) = Append(Decode(begun, events), v)
<1>0. PICK n \in Nat : Longer(events \o <<v, Syn>>, events, n, v)
  BY EventsMade
<1>1. PICK c : c = events \o <<v, Syn>> /\ Longer(c, events, n, v)
  BY <1>0
<1>2. /\ c \in Seq(Nat) /\ Len(events) = n /\ Len(c) = n + 2
      /\ c[n + 1] = v /\ c[n + 2] = Syn /\ \A i \in 1 .. n : c[i] = events[i]
  BY <1>1 DEF Longer
<1>3. PICK q \in Seq(Nat) : q = Decode(begun, events)
  BY DecodeType
<1>4. PICK x \in Seq(Nat) : x = Decode(begun, c)
  BY <1>2, DecodeType
<1>5. PICK m \in Nat : n = 2 * m \/ n = 2 * m + 1
  BY Halves
<1>p. m + 1 \in Nat /\ c \in Seq(Nat)
  BY <1>2
<1>6. CASE n = 2 * m
  <2>1. Len(events) = 2 * m /\ Len(c) = 2 * (m + 1) /\ n + 1 = 2 * (m + 1) - 1
    BY <1>2, <1>6
  <2>2. Len(q) = m /\ \A j \in 1 .. m : q[j] = events[2 * j - 1]
    <3>1. Evens(Decode(begun, events), events, m)
      BY <2>1, DecodeEven, Zenon
    <3> QED
      BY <1>3, <3>1 DEF Evens
  <2>3. Len(x) = m + 1 /\ \A j \in 1 .. m + 1 : x[j] = c[2 * j - 1]
    <3>1. Evens(Decode(begun, c), c, m + 1)
      BY <1>p, <2>1, DecodeEven, Zenon
    <3> QED
      BY <1>4, <3>1 DEF Evens
  <2>4. x[m + 1] = v
    <3>1. x[m + 1] = c[2 * (m + 1) - 1]
      BY <2>3
    <3> QED
      BY <1>2, <2>1, <3>1
  <2>5. \A j \in 1 .. m : x[j] = q[j]
    <3> TAKE j \in 1 .. m
    <3>1. 2 * j - 1 \in 1 .. n /\ j \in 1 .. m + 1
      BY <1>6
    <3> QED
      BY <1>2, <2>2, <2>3, <3>1
  <2>6. x = Append(q, v)
    <3>1. Append(q, v) \in Seq(Nat) /\ Len(Append(q, v)) = m + 1
          /\ \A j \in 1 .. m + 1 : Append(q, v)[j] = IF j = m + 1 THEN v ELSE q[j]
      BY <2>2
    <3>2. \A j \in 1 .. m + 1 : x[j] = Append(q, v)[j]
      <4> TAKE j \in 1 .. m + 1
      <4>1. CASE j = m + 1
        BY <2>4, <3>1, <4>1
      <4>2. CASE j \in 1 .. m
        BY <2>5, <3>1, <4>2
      <4>3. j = m + 1 \/ j \in 1 .. m
        OBVIOUS
      <4> QED
        BY <4>1, <4>2, <4>3
    <3> QED
      BY <2>3, <3>1, <3>2, SeqEqual
  <2> QED
    BY <1>1, <1>3, <1>4, <2>6
<1>7. CASE n = 2 * m + 1
  <2>1. Len(events) = 2 * m + 1 /\ Len(c) = 2 * (m + 1) + 1 /\ n + 1 = 2 * (m + 1)
    BY <1>2, <1>7
  <2>2. Len(q) = m + 1 /\ q[1] = begun /\ \A j \in 1 .. m : q[j + 1] = events[2 * j]
    <3>1. Odds(Decode(begun, events), begun, events, m)
      BY <2>1, DecodeOdd, Zenon
    <3> QED
      BY <1>3, <3>1 DEF Odds
  <2>3. Len(x) = m + 1 + 1 /\ x[1] = begun /\ \A j \in 1 .. m + 1 : x[j + 1] = c[2 * j]
    <3>1. Odds(Decode(begun, c), begun, c, m + 1)
      BY <1>p, <2>1, DecodeOdd, Zenon
    <3> QED
      BY <1>4, <3>1 DEF Odds
  <2>4. x[m + 1 + 1] = v
    <3>1. m + 1 \in 1 .. m + 1
      OBVIOUS
    <3>2. x[m + 1 + 1] = c[2 * (m + 1)]
      BY <2>3, <3>1
    <3> QED
      BY <1>2, <2>1, <3>2
  <2>5. \A j \in 1 .. m + 1 : x[j] = q[j]
    <3> TAKE j \in 1 .. m + 1
    <3>1. CASE j = 1
      BY <2>2, <2>3, <3>1
    <3>2. CASE j # 1
      <4>1. PICK k : k = j - 1
        OBVIOUS
      <4>2. k \in 1 .. m /\ k \in 1 .. m + 1 /\ 2 * k \in 1 .. n /\ k + 1 = j
        BY <1>7, <3>2, <4>1
      <4>3. x[k + 1] = c[2 * k] /\ q[k + 1] = events[2 * k] /\ c[2 * k] = events[2 * k]
        BY <1>2, <2>2, <2>3, <4>2
      <4> QED
        BY <4>2, <4>3
    <3> QED
      BY <3>1, <3>2
  <2>6. x = Append(q, v)
    <3>1. Append(q, v) \in Seq(Nat) /\ Len(Append(q, v)) = m + 1 + 1
          /\ \A j \in 1 .. m + 1 + 1 : Append(q, v)[j] = IF j = m + 1 + 1 THEN v ELSE q[j]
      BY <2>2
    <3>2. \A j \in 1 .. m + 1 + 1 : x[j] = Append(q, v)[j]
      <4> TAKE j \in 1 .. m + 1 + 1
      <4>1. CASE j = m + 1 + 1
        BY <2>4, <3>1, <4>1
      <4>2. CASE j \in 1 .. m + 1
        BY <2>5, <3>1, <4>2
      <4>3. j = m + 1 + 1 \/ j \in 1 .. m + 1
        OBVIOUS
      <4> QED
        BY <4>1, <4>2, <4>3
    <3> QED
      BY <2>3, <3>1, <3>2, SeqEqual
  <2> QED
    BY <1>1, <1>3, <1>4, <2>6
<1> QED
  BY <1>5, <1>6, <1>7

\* The first event is taken.
LEMMA EventTaken ==
  ASSUME NEW events \in Seq(Nat), events # <<>>
  PROVE  \E n \in Nat, t \in Seq(Nat) :
           /\ n + 1 = Len(events) /\ t = Tail(events) /\ Len(t) = n
           /\ \A i \in 1 .. n : t[i] = events[i + 1]
<1>1. PICK n : n = Len(events) - 1
  OBVIOUS
<1>2. n \in Nat /\ n + 1 = Len(events)
  BY <1>1
<1>3. PICK t : t = Tail(events)
  OBVIOUS
<1>4. t \in Seq(Nat) /\ Len(t) = Len(events) - 1 /\ \A i \in 1 .. Len(t) : t[i] = events[i + 1]
  BY <1>3, HeadTailProperties
<1> QED
  BY <1>1, <1>2, <1>3, <1>4

LEMMA TailPaired ==
  ASSUME NEW events \in Seq(Nat), events # <<>>, Paired(events)
  PROVE  Paired(Tail(events))
<1>1. PICK n \in Nat, t \in Seq(Nat) : /\ n + 1 = Len(events) /\ t = Tail(events) /\ Len(t) = n
                                       /\ \A i \in 1 .. n : t[i] = events[i + 1]
  BY EventTaken
<1>2. ASSUME NEW i \in 1 .. n
      PROVE  t[i] = Syn <=> Even(n - i)
  <2>1. i + 1 \in 1 .. n + 1 /\ n + 1 - (i + 1) = n - i
    OBVIOUS
  <2>2. events[i + 1] = Syn <=> Even(n + 1 - (i + 1))
    BY <1>1, <2>1 DEF Paired
  <2> QED
    BY <1>1, <2>1, <2>2
<1>3. Paired(t)
  BY <1>1, <1>2 DEF Paired
<1> QED
  BY <1>1, <1>3

LEMMA ValueTaken ==
  ASSUME NEW begun \in Nat, NEW events \in Seq(Nat), events # <<>>, Paired(events),
         Head(events) # Syn
  PROVE  Decode(Head(events), Tail(events)) = Decode(begun, events)
<1>1. PICK n \in Nat, t \in Seq(Nat) : /\ n + 1 = Len(events) /\ t = Tail(events) /\ Len(t) = n
                                       /\ \A i \in 1 .. n : t[i] = events[i + 1]
  BY EventTaken
<1>2. PICK e \in Nat : e = Head(events) /\ e = events[1] /\ e # Syn
  <2>1. Head(events) = events[1] /\ 1 \in 1 .. Len(events)
    OBVIOUS
  <2> QED
    BY <2>1
<1>3. ~Even(n)
  <2>1. 1 \in 1 .. n + 1 /\ n + 1 - 1 = n
    OBVIOUS
  <2>2. events[1] = Syn <=> Even(n + 1 - 1)
    BY <1>1, <2>1 DEF Paired
  <2> QED
    BY <1>2, <2>1, <2>2
<1>4. PICK m \in Nat : n = 2 * m + 1
  <2>1. PICK m \in Nat : n = 2 * m \/ n = 2 * m + 1
    BY Halves
  <2>2. n # 2 * m
    BY <1>3, Parity
  <2> QED
    BY <2>1, <2>2
<1>5. m + 1 \in Nat /\ Len(events) = 2 * (m + 1) /\ Len(t) = 2 * m + 1
  BY <1>1, <1>4
<1>6. PICK q \in Seq(Nat) : q = Decode(begun, events)
  BY DecodeType
<1>7. PICK x \in Seq(Nat) : x = Decode(e, t)
  BY DecodeType
<1>8. Len(q) = m + 1 /\ \A j \in 1 .. m + 1 : q[j] = events[2 * j - 1]
  <2>1. Evens(Decode(begun, events), events, m + 1)
    BY <1>5, DecodeEven, Zenon
  <2> QED
    BY <1>6, <2>1 DEF Evens
<1>9. Len(x) = m + 1 /\ x[1] = e /\ \A j \in 1 .. m : x[j + 1] = t[2 * j]
  <2>1. Odds(Decode(e, t), e, t, m)
    BY <1>5, DecodeOdd, Zenon
  <2> QED
    BY <1>7, <2>1 DEF Odds
<1>10. \A j \in 1 .. m + 1 : x[j] = q[j]
  <2> TAKE j \in 1 .. m + 1
  <2>1. CASE j = 1
    <3>1. 2 * 1 - 1 = 1 /\ 1 \in 1 .. m + 1
      OBVIOUS
    <3>2. q[1] = events[2 * 1 - 1]
      BY <1>8, <3>1
    <3> QED
      BY <1>2, <1>9, <2>1, <3>1, <3>2
  <2>2. CASE j # 1
    <3>1. PICK k : k = j - 1
      OBVIOUS
    <3>2. k \in 1 .. m /\ k + 1 = j /\ 2 * k \in 1 .. n /\ 2 * k + 1 = 2 * j - 1
      BY <1>4, <2>2, <3>1
    <3>3. x[k + 1] = t[2 * k] /\ t[2 * k] = events[2 * k + 1] /\ q[j] = events[2 * j - 1]
      BY <1>1, <1>8, <1>9, <3>2
    <3> QED
      BY <3>2, <3>3
  <2> QED
    BY <2>1, <2>2
<1>11. x = q
  BY <1>8, <1>9, <1>10, SeqEqual
<1> QED
  BY <1>1, <1>2, <1>6, <1>7, <1>11

LEMMA SynTaken ==
  ASSUME NEW begun \in Nat, NEW events \in Seq(Nat), events # <<>>, Paired(events),
         Head(events) = Syn
  PROVE  <<begun>> \o Decode(begun, Tail(events)) = Decode(begun, events)
<1>1. PICK n \in Nat, t \in Seq(Nat) : /\ n + 1 = Len(events) /\ t = Tail(events) /\ Len(t) = n
                                       /\ \A i \in 1 .. n : t[i] = events[i + 1]
  BY EventTaken
<1>2. events[1] = Syn
  <2>1. Head(events) = events[1]
    OBVIOUS
  <2> QED
    BY <2>1
<1>3. Even(n)
  <2>1. 1 \in 1 .. n + 1 /\ n + 1 - 1 = n
    OBVIOUS
  <2>2. events[1] = Syn <=> Even(n + 1 - 1)
    BY <1>1, <2>1 DEF Paired
  <2> QED
    BY <1>2, <2>1, <2>2
<1>4. PICK m \in Nat : n = 2 * m
  <2>1. PICK m \in Nat : n = 2 * m \/ n = 2 * m + 1
    BY Halves
  <2>2. ~Even(2 * m + 1)
    BY Parity
  <2>3. n # 2 * m + 1
    BY <1>3, <2>2
  <2> QED
    BY <2>1, <2>3
<1>5. Len(events) = 2 * m + 1 /\ Len(t) = 2 * m
  BY <1>1, <1>4
<1>6. PICK q \in Seq(Nat) : q = Decode(begun, events)
  BY DecodeType
<1>7. PICK x \in Seq(Nat) : x = Decode(begun, t)
  BY DecodeType
<1>8. Len(q) = m + 1 /\ q[1] = begun /\ \A j \in 1 .. m : q[j + 1] = events[2 * j]
  <2>1. Odds(Decode(begun, events), begun, events, m)
    BY <1>5, DecodeOdd, Zenon
  <2> QED
    BY <1>6, <2>1 DEF Odds
<1>9. Len(x) = m /\ \A j \in 1 .. m : x[j] = t[2 * j - 1]
  <2>1. Evens(Decode(begun, t), t, m)
    BY <1>5, DecodeEven, Zenon
  <2> QED
    BY <1>7, <2>1 DEF Evens
<1>10. PICK b : b = <<begun>>
  OBVIOUS
<1>11. b \in Seq(Nat) /\ Len(b) = 1 /\ b[1] = begun
  BY <1>10
<1>12. PICK y : y = b \o x
  OBVIOUS
<1>13. /\ y \in Seq(Nat) /\ Len(y) = Len(b) + Len(x)
       /\ \A j \in 1 .. Len(b) + Len(x) : y[j] = IF j <= Len(b) THEN b[j] ELSE x[j - Len(b)]
  BY <1>11, <1>12, ConcatProperties
<1>14. Len(y) = m + 1 /\ \A j \in 1 .. m + 1 : y[j] = IF j <= 1 THEN b[j] ELSE x[j - 1]
  <2>1. Len(b) + Len(x) = m + 1
    BY <1>9, <1>11
  <2> QED
    BY <1>11, <1>13, <2>1
<1>15. \A j \in 1 .. m + 1 : y[j] = q[j]
  <2> TAKE j \in 1 .. m + 1
  <2>1. CASE j = 1
    BY <1>8, <1>11, <1>14, <2>1
  <2>2. CASE j # 1
    <3>1. PICK k : k = j - 1
      OBVIOUS
    <3>2. k \in 1 .. m /\ k + 1 = j /\ 2 * k - 1 \in 1 .. n /\ 2 * k - 1 + 1 = 2 * k /\ ~(j <= 1)
      BY <1>4, <2>2, <3>1
    <3>3. y[j] = x[k] /\ x[k] = t[2 * k - 1] /\ t[2 * k - 1] = events[2 * k - 1 + 1]
      BY <1>1, <1>9, <1>14, <3>1, <3>2
    <3>4. q[k + 1] = events[2 * k]
      BY <1>8, <3>2
    <3> QED
      BY <3>2, <3>3, <3>4
  <2> QED
    BY <2>1, <2>2
<1>16. y = q
  BY <1>8, <1>13, <1>14, <1>15, SeqEqual
<1> QED
  BY <1>1, <1>6, <1>7, <1>10, <1>12, <1>16

-----------------------------------------------------------------------------
(* The queues of samples that are not handed out.                          *)

\* The sum of the lengths of two sequences.
LEMMA SumTwo ==
  ASSUME NEW a, NEW b, a # b, Len(out'[a]) \in Nat, Len(out'[b]) \in Nat
  PROVE  Fifo!MapThenSumSet(LAMBDA s : Len(out'[s]), {a, b}) = Len(out'[a]) + Len(out'[b])
<1> DEFINE pick(s) == CHOOSE x \in s : TRUE
           f(s) == IF s = {} THEN 0 ELSE IF s = {a} THEN Len(out'[a])
                   ELSE IF s = {b} THEN Len(out'[b]) ELSE Len(out'[a]) + Len(out'[b])
           g == [s \in SUBSET {a, b} |-> f(s)]
           Iter(h) == h = [s \in SUBSET {a, b} |->
                             IF s = {} THEN 0
                             ELSE Len(out'[pick(s)]) + h[s \ {pick(s)}]]
           iter == CHOOSE h : Iter(h)
<1>0. Len(out'[a]) \in Nat /\ Len(out'[b]) \in Nat /\ Len(out'[a]) + Len(out'[b]) = Len(out'[b]) + Len(out'[a])
      /\ Len(out'[a]) + 0 = Len(out'[a]) /\ Len(out'[b]) + 0 = Len(out'[b])
  <2>1. PICK x \in Nat : x = Len(out'[a])
    OBVIOUS
  <2>2. PICK y \in Nat : y = Len(out'[b])
    OBVIOUS
  <2>3. x + y = y + x /\ x + 0 = x /\ y + 0 = y
    OBVIOUS
  <2> QED
    BY <2>1, <2>2, <2>3
<1>1. Fifo!MapThenSumSet(LAMBDA s : Len(out'[s]), {a, b}) = iter[{a, b}]
  BY DEF Fifo!MapThenSumSet, Fifo!MapThenFoldSet
<1>2. {a, b} \in SUBSET {a, b} /\ {a} \in SUBSET {a, b} /\ {b} \in SUBSET {a, b}
      /\ {} \in SUBSET {a, b}
  OBVIOUS
<1>3. ASSUME NEW s \in SUBSET {a, b}
      PROVE  s = {} \/ s = {a} \/ s = {b} \/ s = {a, b}
  OBVIOUS
<1>4. pick({a}) = a /\ pick({b}) = b /\ pick({a, b}) \in {a, b}
  OBVIOUS
<1>5. /\ {a} \ {a} = {} /\ {b} \ {b} = {} /\ {a, b} \ {a} = {b} /\ {a, b} \ {b} = {a}
  OBVIOUS
<1> HIDE DEF pick
<1>6. g[{}] = 0 /\ g[{a}] = Len(out'[a]) /\ g[{b}] = Len(out'[b]) /\ g[{a, b}] = Len(out'[a]) + Len(out'[b])
  <2>1. {a} # {} /\ {b} # {} /\ {a} # {b} /\ {a, b} # {} /\ {a, b} # {a} /\ {a, b} # {b}
    OBVIOUS
  <2> QED
    BY <1>2, <2>1
<1>g. g = [s \in SUBSET {a, b} |-> g[s]]
  OBVIOUS
<1> HIDE DEF g
<1>7. ASSUME NEW h, Iter(h)
      PROVE  h[{a, b}] = Len(out'[a]) + Len(out'[b])
  <2>1. h[{}] = 0
    BY <1>2, <1>7
  <2>2. h[{a}] = Len(out'[a]) + h[{}] /\ h[{b}] = Len(out'[b]) + h[{}]
    BY <1>2, <1>4, <1>5, <1>7
  <2>4. h[{a}] = Len(out'[a]) /\ h[{b}] = Len(out'[b])
    BY <2>1, <2>2
  <2>3. h[{a, b}] = Len(out'[pick({a, b})]) + h[{a, b} \ {pick({a, b})}]
    BY <1>2, <1>7
  <2>5. CASE pick({a, b}) = a
    BY <1>5, <2>3, <2>4, <2>5
  <2>6. CASE pick({a, b}) = b
    BY <1>0, <1>5, <2>3, <2>4, <2>6
  <2> QED
    BY <1>4, <2>5, <2>6
<1>8. Iter(g)
  <2>1. ASSUME NEW s \in SUBSET {a, b}
        PROVE  g[s] = IF s = {} THEN 0 ELSE Len(out'[pick(s)]) + g[s \ {pick(s)}]
    <3>1. CASE s = {}
      BY <1>6, <3>1
    <3>2. CASE s = {a}
      <4>1. s # {} /\ pick(s) = a /\ s \ {pick(s)} = {}
        BY <1>4, <1>5, <3>2
      <4> QED
        BY <1>0, <1>6, <3>2, <4>1
    <3>3. CASE s = {b}
      <4>1. s # {} /\ pick(s) = b /\ s \ {pick(s)} = {}
        BY <1>4, <1>5, <3>3
      <4> QED
        BY <1>0, <1>6, <3>3, <4>1
    <3>4. CASE s = {a, b}
      <4>1. s # {} /\ pick(s) \in {a, b}
        BY <1>4, <3>4
      <4>2. CASE pick(s) = a
        <5>1. s \ {pick(s)} = {b}
          BY <1>5, <3>4, <4>2
        <5> QED
          BY <1>6, <3>4, <4>1, <4>2, <5>1
      <4>3. CASE pick(s) = b
        <5>1. s \ {pick(s)} = {a}
          BY <1>5, <3>4, <4>3
        <5> QED
          BY <1>0, <1>6, <3>4, <4>1, <4>3, <5>1
      <4> QED
        BY <4>1, <4>2, <4>3
    <3> QED
      BY <1>3, <3>1, <3>2, <3>3, <3>4
  <2> QED
    BY <1>g, <2>1
<1>9. Iter(iter)
  BY <1>8
<1> QED
  BY <1>1, <1>7, <1>9

LEMMA LsmAre == Lsm = {"acc", "mag"} /\ Lsm \subseteq Readers /\ "light" \notin Lsm
                /\ \A s \in Lsm : s # "gyro"
  BY DEF Lsm, Readers

LEMMA MaxSampleIs ==
  /\ MaxSample \in Nat
  /\ \A s \in Lsm : MaxSamples[s] \in Nat /\ MaxSamples[s] <= MaxSample
<1>1. PICK a \in Nat, b \in Nat : a = MaxSamples["acc"] /\ b = MaxSamples["mag"]
  BY SensorsAssumption
<1>2. {MaxSamples[s] : s \in Lsm} = {a, b}
  BY <1>1, LsmAre
<1>3. \E x \in {a, b} : \A y \in {a, b} : x >= y
  <2>1. a >= a /\ b >= b /\ (a >= b \/ b >= a)
    OBVIOUS
  <2> QED
    BY <2>1
<1>4. PICK m : m = Max({a, b})
  OBVIOUS
<1>5. m \in {a, b} /\ \A y \in {a, b} : m >= y
  BY <1>3, <1>4 DEF Max
<1>6. m \in Nat /\ a <= m /\ b <= m
  BY <1>5
<1>7. MaxSample = m
  BY <1>2, <1>4 DEF MaxSample
<1> QED
  BY <1>1, <1>6, <1>7, LsmAre

\* What the three kinds of step are to the abstract specification.
LEMMA FifoStutters ==
  ASSUME out' = out, errors' = errors, \A s \in Lsm : Undelivered(s)' = Undelivered(s)
  PROVE  <<[s \in Lsm |-> Undelivered(s)], out, errors>>'
           = <<[s \in Lsm |-> Undelivered(s)], out, errors>>
  OBVIOUS

LEMMA FifoMakes ==
  ASSUME NEW s \in Lsm, NEW v \in 1 .. MaxSample, out' = out, errors' = errors,
         Undelivered(s)' = Append(Undelivered(s), v),
         \A q \in Lsm \ {s} : Undelivered(q)' = Undelivered(q)
  PROVE  Fifo!Next
<1>1. Fifo!Make(s, v)
  BY DEF Fifo!Make
<1> QED
  BY <1>1 DEF Fifo!Next

LEMMA FifoHandsOut ==
  ASSUME \A s \in Lsm : Undelivered(s) = out'[s] \o Undelivered(s)',
         Len(out'["acc"]) \in Nat, Len(out'["mag"]) \in Nat,
         Len(out'["acc"]) + Len(out'["mag"]) <= Count,
         errors' = errors \/ errors' = errors + 1
  PROVE  Fifo!Next
<1>1. "acc" # "mag"
  OBVIOUS
<1>2. Fifo!MapThenSumSet(LAMBDA s : Len(out'[s]), {"acc", "mag"}) = Len(out'["acc"]) + Len(out'["mag"])
  BY <1>1, SumTwo
<1>3. Fifo!MapThenSumSet(LAMBDA s : Len(out'[s]), {"acc", "mag"}) <= Count
  BY <1>2
<1>4. Fifo!MapThenSumSet(LAMBDA s : Len(out'[s]), Lsm) <= Count
  BY <1>3 DEF Lsm
<1>5. Fifo!Written
  BY <1>4, LsmAre DEF Fifo!Written
<1> QED
  BY <1>5 DEF Fifo!Next, Fifo!HandOut, Fifo!Fail

\* The input events of s that the thread has not passed over: those it has read
\* into the buffer, then those in the kernel.
Stream(s) == Unread(reader[s]) \o kernel[s]

\* What accelerometer and magnetometer have written is part of what was written.
WithinData(d) == Len(ValuesOf("acc", d)) + Len(ValuesOf("mag", d)) <= Len(d)

\* What the refinement rests on: in each stream values and Syn alternate, so that
\* a Syn never ends a value that was not taken; and between two calls nothing is
\* left of what the last one wrote.
FifoInv ==
  /\ \A s \in Lsm : Paired(Stream(s))
  /\ WithinData(data)
  /\ pc = "idle" => data = <<>>

LEMMA UnreadType ==
  ASSUME NEW n \in Nat \ {0}, NEW r, ReaderOK(r, n, Nat)
  PROVE  Unread(r) \in Seq(Nat) /\ Len(Unread(r)) = Available(r)
<1>1. PICK m \in [0 .. 2 * n - 1 -> Nat], h \in 0 .. n, c \in 0 .. n - 1, f \in 0 .. n :
        r = [numEvents |-> n, mBuffer |-> m, mHead |-> h, mCurr |-> c, mFreeSpace |-> f]
  BY DEF ReaderOK
<1>2. PICK a \in 0 .. n : a = n - f
  OBVIOUS
<1>3. Available(r) = a
  BY <1>1, <1>2 DEF Available
<1>4. \A i \in 1 .. a : Place(n, c, i) \in 0 .. 2 * n - 1
  BY DEF Place
<1>5. PICK u : u = [i \in 1 .. a |-> m[Place(n, c, i)]]
  OBVIOUS
<1>6. u \in [1 .. a -> Nat]
  BY <1>4, <1>5
<1>7. u \in Seq(Nat) /\ Len(u) = a
  BY <1>6
<1>8. Unread(r) = u
  BY <1>1, <1>3, <1>5 DEF Unread
<1> QED
  BY <1>3, <1>7, <1>8

LEMMA StreamType ==
  ASSUME IInv, NEW s \in Readers
  PROVE  /\ Size[s] \in Nat \ {0} /\ ReaderOK(reader[s], Size[s], Nat)
         /\ Unread(reader[s]) \in Seq(Nat) /\ Len(Unread(reader[s])) = Available(reader[s])
         /\ kernel[s] \in Seq(Nat) /\ Stream(s) \in Seq(Nat) /\ pend[s] \in Nat
<1>1. Size[s] \in Nat \ {0} /\ ReaderOK(reader[s], Size[s], Nat)
  BY AvailableNat DEF IInv, TypeInv
<1>2. PICK u : u = Unread(reader[s])
  OBVIOUS
<1>3. u \in Seq(Nat) /\ Len(u) = Available(reader[s])
  BY <1>1, <1>2, UnreadType
<1>4. kernel[s] \in Seq(Nat) /\ pend[s] \in Nat
  BY DEF IInv, TypeInv
<1>5. u \o kernel[s] \in Seq(Nat)
  BY <1>3, <1>4
<1> QED
  BY <1>1, <1>2, <1>3, <1>4, <1>5 DEF Stream

\* One more is written, by whomever.
LEMMA WithinMore ==
  ASSUME NEW d \in Seq(Data), NEW e \in Data, WithinData(d)
  PROVE  WithinData(Append(d, e))
<1>1. PICK a \in Seq(Written), b \in Seq(Written) : a = ValuesOf("acc", d) /\ b = ValuesOf("mag", d)
  BY ValuesOfType
<1>2. PICK k \in Nat, l \in Nat, n \in Nat : k = Len(a) /\ l = Len(b) /\ n = Len(d)
  OBVIOUS
<1>3. k + l <= n
  BY <1>1, <1>2 DEF WithinData
<1>4. Len(Append(a, e.v)) = k + 1 /\ Len(Append(b, e.v)) = l + 1 /\ Len(Append(d, e)) = n + 1
  BY <1>2
<1>5. /\ ValuesOf("acc", Append(d, e)) = Step(a, e, "acc")
      /\ ValuesOf("mag", Append(d, e)) = Step(b, e, "mag")
  BY <1>1, ValuesOfMore
<1>6. CASE e.s = "acc"
  <2>1. Len(Step(a, e, "acc")) = k + 1 /\ Len(Step(b, e, "mag")) = l
    BY <1>2, <1>4, <1>6 DEF Step
  <2> QED
    BY <1>3, <1>4, <1>5, <2>1 DEF WithinData
<1>7. CASE e.s = "mag"
  <2>1. Len(Step(a, e, "acc")) = k /\ Len(Step(b, e, "mag")) = l + 1
    BY <1>2, <1>4, <1>7 DEF Step
  <2> QED
    BY <1>3, <1>4, <1>5, <2>1 DEF WithinData
<1>8. CASE e.s # "acc" /\ e.s # "mag"
  <2>1. Len(Step(a, e, "acc")) = k /\ Len(Step(b, e, "mag")) = l
    BY <1>2, <1>8 DEF Step
  <2> QED
    BY <1>3, <1>4, <1>5, <2>1 DEF WithinData
<1> QED
  BY <1>6, <1>7, <1>8

LEMMA WithinNone == WithinData(<<>>) /\ <<>> \in Seq(Data)
<1>1. ValuesOf("acc", <<>>) = <<>> /\ ValuesOf("mag", <<>>) = <<>>
  BY ValuesOfNone
<1>2. Len(<<>>) = 0 /\ 0 + 0 <= 0 /\ <<>> \in Seq(Data)
  OBVIOUS
<1> QED
  BY <1>1, <1>2 DEF WithinData

\* What is not of s adds nothing to what s has written.
LEMMA ValuesOfOther ==
  ASSUME NEW s, NEW d \in Seq(Data), NEW e \in Data, e.s # s
  PROVE  ValuesOf(s, Append(d, e)) = ValuesOf(s, d)
  BY ValuesOfMore DEF Step

-----------------------------------------------------------------------------
(* The steps that leave the queues alone.                                    *)

LEMMA QueuesStay ==
  ASSUME IInv, FifoInv, \A s \in Lsm : Stream(s)' = Stream(s) /\ pend'[s] = pend[s],
         \A s \in Lsm : ValuesOf(s, data') = ValuesOf(s, data),
         WithinData(data'), pc' = "idle" => data' = <<>>
  PROVE  FifoInv' /\ \A s \in Lsm : Undelivered(s)' = Undelivered(s)
<1>1. ASSUME NEW s \in Lsm
      PROVE  Undelivered(s) = ValuesOf(s, data) \o Decode(pend[s], Stream(s))
  BY DEF Undelivered, Stream
<1>2. ASSUME NEW s \in Lsm
      PROVE  Undelivered(s)' = ValuesOf(s, data') \o Decode(pend'[s], Stream(s)')
  BY DEF Undelivered, Stream
<1>3. \A s \in Lsm : Undelivered(s)' = Undelivered(s)
  BY <1>1, <1>2
<1>4. \A s \in Lsm : Paired(Stream(s)')
  BY DEF FifoInv
<1>5. FifoInv'
  BY <1>4 DEF FifoInv
<1> QED
  BY <1>3, <1>5

LEMMA QueuesSame ==
  ASSUME IInv, FifoInv,
         \A s \in Lsm : reader'[s] = reader[s] /\ kernel'[s] = kernel[s] /\ pend'[s] = pend[s],
         data' = data, pc' = "idle" => pc = "idle"
  PROVE  FifoInv' /\ \A s \in Lsm : Undelivered(s)' = Undelivered(s)
<1>1. \A s \in Lsm : Stream(s)' = Stream(s)
  BY DEF Stream
<1>2. WithinData(data') /\ (pc' = "idle" => data' = <<>>)
  BY DEF FifoInv
<1>3. \A s \in Lsm : ValuesOf(s, data') = ValuesOf(s, data)
  OBVIOUS
<1> QED
  BY <1>1, <1>2, <1>3, QueuesStay

LEMMA NatAssoc ==
  ASSUME NEW x \in Seq(Nat), NEW y \in Seq(Nat), NEW z \in Seq(Nat)
  PROVE  (x \o y) \o z = x \o (y \o z)
<1>1. PICK S : S = Nat
  OBVIOUS
<1>2. x \in Seq(S) /\ y \in Seq(S) /\ z \in Seq(S)
  BY <1>1
<1> QED
  BY <1>2, ConcatAssociative

LEMMA DataAssoc ==
  ASSUME NEW x \in Seq(Data), NEW y \in Seq(Data), NEW z \in Seq(Data)
  PROVE  (x \o y) \o z = x \o (y \o z)
  BY ConcatAssociative

\* Events that move from the kernel to the buffer stay where they are in the stream.
LEMMA Moved ==
  ASSUME NEW u \in Seq(Nat), NEW k \in Seq(Nat), NEW n \in 0 .. Len(k)
  PROVE  /\ SubSeq(k, 1, n) \in Seq(Nat) /\ Len(SubSeq(k, 1, n)) = n
         /\ (u \o SubSeq(k, 1, n)) \o SubSeq(k, n + 1, Len(k)) = u \o k
<1>1. PICK l \in Nat : l = Len(k)
  OBVIOUS
<1>2. PICK x, y : x = SubSeq(k, 1, n) /\ y = SubSeq(k, n + 1, l)
  OBVIOUS
<1>3. n \in 0 .. l /\ n \in Nat
  BY <1>1
<1>4. x \in Seq(Nat) /\ Len(x) = n
  BY <1>1, <1>2, <1>3
<1>5. y \in Seq(Nat)
  BY <1>1, <1>2, <1>3
<1>6. x \o y = k
  <2>1. 1 \in 1 .. Len(k) + 1 /\ n \in 1 - 1 .. Len(k) /\ Len(k) \in n .. Len(k)
    BY <1>1, <1>3
  <2>2. SubSeq(k, 1, n) \o SubSeq(k, n + 1, Len(k)) = SubSeq(k, 1, Len(k))
    BY <2>1, ConcatAdjacentSubSeq
  <2>3. SubSeq(k, 1, Len(k)) = k
    OBVIOUS
  <2> QED
    BY <1>1, <1>2, <2>2, <2>3
<1>7. (u \o x) \o y = u \o (x \o y)
  <2>1. x \in Seq(Nat) /\ y \in Seq(Nat)
    BY <1>4, <1>5
  <2> QED
    BY <2>1, NatAssoc
<1> QED
  BY <1>1, <1>2, <1>4, <1>6, <1>7

\* The event that next drops is the first of the stream, too.
LEMMA Passed ==
  ASSUME NEW u \in Seq(Nat), NEW k \in Seq(Nat), u # <<>>
  PROVE  Tail(u) \o k = Tail(u \o k) /\ Head(u) = Head(u \o k) /\ u \o k # <<>>
<1>1. PICK n \in Nat, l \in Nat : n = Len(u) /\ l = Len(k)
  OBVIOUS
<1>2. n >= 1
  BY <1>1
<1>3. PICK t : t = Tail(u)
  OBVIOUS
<1>4. t \in Seq(Nat) /\ Len(t) = n - 1 /\ \A i \in 1 .. n - 1 : t[i] = u[i + 1]
  <2>1. t \in Seq(Nat) /\ Len(t) = Len(u) - 1 /\ \A i \in 1 .. Len(t) : t[i] = u[i + 1]
    BY <1>3, HeadTailProperties
  <2> QED
    BY <1>1, <2>1
<1>5. PICK c : c = u \o k
  OBVIOUS
<1>6. c \in Seq(Nat) /\ Len(c) = n + l /\ \A i \in 1 .. n + l : c[i] = IF i <= n THEN u[i] ELSE k[i - n]
  BY <1>1, <1>5, ConcatProperties
<1>7. c # <<>>
  BY <1>2, <1>6
<1>8. PICK r : r = Tail(c)
  OBVIOUS
<1>9. r \in Seq(Nat) /\ Len(r) = n + l - 1 /\ \A i \in 1 .. n + l - 1 : r[i] = c[i + 1]
  <2>1. r \in Seq(Nat) /\ Len(r) = Len(c) - 1 /\ \A i \in 1 .. Len(r) : r[i] = c[i + 1]
    BY <1>6, <1>7, <1>8, HeadTailProperties
  <2> QED
    BY <1>6, <2>1
<1>10. PICK d : d = t \o k
  OBVIOUS
<1>11. /\ d \in Seq(Nat) /\ Len(d) = n - 1 + l
       /\ \A i \in 1 .. n - 1 + l : d[i] = IF i <= n - 1 THEN t[i] ELSE k[i - (n - 1)]
  <2>1. t \in Seq(Nat) /\ Len(t) = n - 1
    BY <1>4
  <2>2. /\ d \in Seq(Nat) /\ Len(d) = Len(t) + Len(k)
        /\ \A i \in 1 .. Len(t) + Len(k) : d[i] = IF i <= Len(t) THEN t[i] ELSE k[i - Len(t)]
    BY <1>10, <2>1, ConcatProperties
  <2> QED
    BY <1>1, <2>1, <2>2
<1>12. \A i \in 1 .. n + l - 1 : d[i] = r[i]
  <2> TAKE i \in 1 .. n + l - 1
  <2>1. i \in 1 .. n - 1 + l /\ i + 1 \in 1 .. n + l
    OBVIOUS
  <2>2. r[i] = c[i + 1]
    BY <1>9
  <2>3. CASE i <= n - 1
    <3>1. i + 1 <= n /\ i \in 1 .. n - 1
      BY <2>3
    <3>2. d[i] = t[i] /\ c[i + 1] = u[i + 1] /\ t[i] = u[i + 1]
      BY <1>4, <1>6, <1>11, <2>1, <2>3, <3>1
    <3> QED
      BY <2>2, <3>2
  <2>4. CASE ~(i <= n - 1)
    <3>1. ~(i + 1 <= n) /\ i - (n - 1) = i + 1 - n
      BY <2>4
    <3>2. d[i] = k[i - (n - 1)] /\ c[i + 1] = k[i + 1 - n]
      BY <1>6, <1>11, <2>1, <2>4, <3>1
    <3> QED
      BY <2>2, <3>1, <3>2
  <2> QED
    BY <2>3, <2>4
<1>13. d = r
  <2>1. Len(d) = Len(r) /\ Len(d) = n + l - 1
    BY <1>9, <1>11
  <2> QED
    BY <1>9, <1>11, <1>12, <2>1, SeqEqual
<1>14. Head(c) = Head(u)
  <2>1. 1 \in 1 .. n + l /\ 1 <= n
    BY <1>2
  <2>2. c[1] = u[1]
    BY <1>6, <2>1
  <2>3. Head(c) = c[1] /\ Head(u) = u[1]
    BY <1>6, <1>7
  <2> QED
    BY <2>2, <2>3
<1> QED
  BY <1>3, <1>5, <1>7, <1>8, <1>10, <1>13, <1>14

\* What is read from the kernel goes to the end of the buffer.
LEMMA FillStays ==
  ASSUME IInv, FifoInv, NEW s \in Readers, Fill(s)
  PROVE  FifoInv' /\ out' = out /\ \A q \in Lsm : Undelivered(q)' = Undelivered(q)
<1>1. PICK n : n = Filled(s)
  OBVIOUS
<1>2. /\ reader' = [reader EXCEPT ![s] = fill(@, SubSeq(kernel[s], 1, n))]
      /\ kernel' = [kernel EXCEPT ![s] = SubSeq(@, n + 1, Len(@))]
      /\ pc' = "read" /\ data' = data /\ pend' = pend /\ out' = out
  BY <1>1 DEF Fill
<1>3. PICK u, k, r : u = Unread(reader[s]) /\ k = kernel[s] /\ r = reader[s]
  OBVIOUS
<1>4. /\ Size[s] \in Nat \ {0} /\ ReaderOK(r, Size[s], Nat) /\ u \in Seq(Nat) /\ k \in Seq(Nat)
      /\ r.mFreeSpace \in Nat
  BY <1>3, StreamType, AvailableNat DEF IInv
<1>5. n \in 0 .. Len(k) /\ n <= r.mFreeSpace
  <2>1. Len(k) \in Nat
    BY <1>4
  <2> QED
    BY <1>1, <1>3, <1>4, <2>1 DEF Filled, Smaller
<1>6. PICK x : x = SubSeq(k, 1, n)
  OBVIOUS
<1>7. x \in Seq(Nat) /\ Len(x) = n /\ (u \o x) \o SubSeq(k, n + 1, Len(k)) = u \o k
  BY <1>4, <1>5, <1>6, Moved
<1>8. Unread(fill(r, x)) = u \o x
  <2>1. Len(x) <= r.mFreeSpace
    BY <1>5, <1>7
  <2> QED
    <3>1. Size[s] \in Nat \ {0} /\ ReaderOK(r, Size[s], Nat) /\ x \in Seq(Nat)
      BY <1>4, <1>7
    <3>2. Unread(fill(r, x)) = Unread(r) \o x
      BY <2>1, <3>1, FillAppends
    <3> QED
      BY <1>3, <3>2
<1>9. /\ reader'[s] = fill(r, x) /\ kernel'[s] = SubSeq(k, n + 1, Len(k))
      /\ \A q \in Readers \ {s} : reader'[q] = reader[q] /\ kernel'[q] = kernel[q]
  BY <1>2, <1>3, <1>6 DEF IInv, TypeInv
<1>10. Stream(s)' = Stream(s)
  BY <1>3, <1>7, <1>8, <1>9 DEF Stream
<1>11. \A q \in Lsm : Stream(q)' = Stream(q)
  <2> TAKE q \in Lsm
  <2>1. CASE q = s
    BY <1>10, <2>1
  <2>2. CASE q # s
    <3>1. reader'[q] = reader[q] /\ kernel'[q] = kernel[q]
      BY <1>9, <2>2, LsmAre
    <3> QED
      BY <3>1 DEF Stream
  <2> QED
    BY <2>1, <2>2
<1>12. /\ \A q \in Lsm : ValuesOf(q, data') = ValuesOf(q, data)
       /\ \A q \in Lsm : pend'[q] = pend[q]
       /\ WithinData(data') /\ (pc' = "idle" => data' = <<>>)
  BY <1>2 DEF FifoInv
<1> QED
  BY <1>2, <1>11, <1>12, QueuesStay

\* The two events that MPLSensor may write are of neither.
LEMMA MplWrites ==
  ASSUME IInv, ReadMpl
  PROVE  \E e \in Data, f \in Data :
           /\ e.s = "gyro" /\ f.s = "gyro"
           /\ data' \in {data, Append(data, e), Append(data, f), Append(Append(data, e), f)}
<1> DEFINE pending == gyro.pending \cup MplOn
           room == count > 1 \/ "gyroscope" \notin pending \cap MplOn
           taken == IF room THEN pending ELSE pending \cap {"gyroscope"}
           event(h) == IF h \in taken \cap MplOn THEN <<[s |-> "gyro", v |-> h]>> ELSE <<>>
           written == event("gyroscope") \o event("temperature")
<1>1. data' = IF gyro.new THEN data \o written ELSE data
  BY DEF ReadMpl
<1>2. PICK e \in Data, f \in Data :
        e = [s |-> "gyro", v |-> "gyroscope"] /\ f = [s |-> "gyro", v |-> "temperature"]
  <2>1. /\ [s |-> "gyro", v |-> "gyroscope"] \in Data
        /\ [s |-> "gyro", v |-> "temperature"] \in Data
    BY DriversAre DEF Data, Mpl
  <2> QED
    BY <2>1
<1>3. event("gyroscope") \in {<<>>, <<e>>} /\ event("temperature") \in {<<>>, <<f>>}
  BY <1>2
<1> HIDE DEF event
<1>4. PICK a \in {<<>>, <<e>>}, b \in {<<>>, <<f>>} :
        a = event("gyroscope") /\ b = event("temperature")
  BY <1>3
<1>5. data' = IF gyro.new THEN data \o (a \o b) ELSE data
  BY <1>1, <1>4
<1>6. PICK d \in Seq(Data) : d = data
  BY DEF IInv, TypeInv
<1>7. d \o (a \o b) \in {d, Append(d, e), Append(d, f), Append(Append(d, e), f)}
  <2>0. <<>> \in Seq(Data) /\ <<e>> \in Seq(Data) /\ <<f>> \in Seq(Data)
    OBVIOUS
  <2>1. a \in Seq(Data) /\ b \in Seq(Data)
    BY <2>0
  <2>2. d \o (a \o b) = (d \o a) \o b
    BY <2>1, DataAssoc
  <2>3. d \o a \in {d, Append(d, e)}
    BY ConcatEmptySeq, AppendIsConcat
  <2>6. Append(d, e) \in Seq(Data)
    OBVIOUS
  <2>4. PICK g \in Seq(Data) : g = d \o a
    BY <2>3, <2>6
  <2>5. g \o b \in {g, Append(g, f)}
    BY ConcatEmptySeq, AppendIsConcat
  <2> QED
    BY <2>2, <2>3, <2>4, <2>5
<1>8. e.s = "gyro" /\ f.s = "gyro"
  BY <1>2
<1> QED
  BY <1>5, <1>6, <1>7, <1>8

LEMMA MplStays ==
  ASSUME IInv, FifoInv, ReadMpl
  PROVE  FifoInv' /\ out' = out /\ \A q \in Lsm : Undelivered(q)' = Undelivered(q)
<1>1. pc' = "scan" /\ kernel' = kernel /\ reader' = reader /\ pend' = pend /\ out' = out
  <2>1. \E n : Back("gyro", n)
    BY DEF ReadMpl
  <2> QED
    BY <2>1 DEF ReadMpl, Back
<1>2. PICK e \in Data, f \in Data :
        /\ e.s = "gyro" /\ f.s = "gyro"
        /\ data' \in {data, Append(data, e), Append(data, f), Append(Append(data, e), f)}
  BY MplWrites
<1>3. data \in Seq(Data) /\ WithinData(data)
  BY DEF IInv, TypeInv, FifoInv
<1>4. ASSUME NEW g \in Data, g.s = "gyro", NEW d \in Seq(Data), WithinData(d)
      PROVE  /\ Append(d, g) \in Seq(Data) /\ WithinData(Append(d, g))
             /\ \A q \in Lsm : ValuesOf(q, Append(d, g)) = ValuesOf(q, d)
  <2>1. \A q \in Lsm : g.s # q
    BY <1>4, LsmAre
  <2>2. Append(d, g) \in Seq(Data)
    OBVIOUS
  <2>3. WithinData(Append(d, g))
    BY <1>4, WithinMore
  <2> QED
    BY <2>1, <2>2, <2>3, ValuesOfOther
<1>5. PICK x \in Seq(Data) : /\ x = Append(data, e) /\ WithinData(x)
                             /\ \A q \in Lsm : ValuesOf(q, x) = ValuesOf(q, data)
  BY <1>2, <1>3, <1>4
<1>6. /\ WithinData(Append(data, f))
      /\ \A q \in Lsm : ValuesOf(q, Append(data, f)) = ValuesOf(q, data)
  BY <1>2, <1>3, <1>4
<1>7. /\ WithinData(Append(x, f))
      /\ \A q \in Lsm : ValuesOf(q, Append(x, f)) = ValuesOf(q, x)
  BY <1>2, <1>4, <1>5
<1>8. data' \in {data, x, Append(data, f), Append(x, f)}
  BY <1>2, <1>5
<1>9. WithinData(data') /\ \A q \in Lsm : ValuesOf(q, data') = ValuesOf(q, data)
  BY <1>3, <1>5, <1>6, <1>7, <1>8
<1>10. \A q \in Lsm : Stream(q)' = Stream(q) /\ pend'[q] = pend[q]
  BY <1>1 DEF Stream
<1> QED
  BY <1>1, <1>9, <1>10, QueuesStay

-----------------------------------------------------------------------------
(* The other steps of the thread leave the queues alone, too.              *)

\* The light sensor's events and samples are of neither.
LEMMA LightStays ==
  ASSUME IInv, FifoInv, Value("light") \/ Sample("light") \/ NoSample("light")
  PROVE  FifoInv' /\ out' = out /\ \A q \in Lsm : Undelivered(q)' = Undelivered(q)
<1>1. /\ pc = "read" /\ pc' = "read" /\ kernel' = kernel /\ out' = out
      /\ reader' = [reader EXCEPT !["light"] = next(@)]
  BY DEF Value, Sample, NoSample, NextEvent
<1>2. pend' = pend \/ \E v : pend' = [pend EXCEPT !["light"] = v]
  BY DEF Value, Sample, NoSample
<1>3. data' = data \/ data' = Append(data, [s |-> "light", v |-> pend["light"]])
  BY DEF Value, Sample, NoSample
<1>4. \A q \in Lsm : q \in Readers /\ q # "light"
  BY LsmAre
<1>5. \A q \in Lsm : reader'[q] = reader[q] /\ pend'[q] = pend[q]
  BY <1>1, <1>2, <1>4 DEF IInv, TypeInv
<1>6. \A q \in Lsm : Stream(q)' = Stream(q) /\ pend'[q] = pend[q]
  BY <1>1, <1>5 DEF Stream
<1>7. data \in Seq(Data) /\ WithinData(data)
  BY DEF IInv, TypeInv, FifoInv
<1>8. PICK e \in Data : e = [s |-> "light", v |-> pend["light"]] /\ e.s = "light"
  <2>1. "light" \in ToSet(Drivers) /\ pend["light"] \in Nat
    BY DriversAre DEF IInv, TypeInv
  <2>2. [s |-> "light", v |-> pend["light"]] \in Data
    BY <2>1 DEF Data
  <2> QED
    BY <2>2
<1>9. WithinData(data') /\ \A q \in Lsm : ValuesOf(q, data') = ValuesOf(q, data)
  <2>1. CASE data' = data
    BY <1>7, <2>1
  <2>2. CASE data' = Append(data, e)
    <3>1. WithinData(Append(data, e))
      BY <1>7, WithinMore
    <3>2. \A q \in Lsm : e.s # q
      BY <1>4, <1>8
    <3>3. \A q \in Lsm : ValuesOf(q, Append(data, e)) = ValuesOf(q, data)
      BY <1>7, <3>2, ValuesOfOther
    <3> QED
      BY <2>2, <3>1, <3>3
  <2> QED
    BY <1>3, <1>8, <2>1, <2>2
<1>10. pc' = "idle" => data' = <<>>
  BY <1>1
<1> QED
  BY <1>1, <1>6, <1>9, <1>10, QueuesStay

\* The steps that neither read nor write a sample.
LEMMA OthersStay ==
  ASSUME IInv, FifoInv,
         \/ Activate \/ Interrupt \/ MakeSample("light") \/ UNCHANGED vars
         \/ Call \/ Skip \/ Poll \/ UpdateMpl \/ \E s \in Readers : Done(s) \/ FillFails(s)
  PROVE  FifoInv' /\ out' = out /\ \A q \in Lsm : Undelivered(q)' = Undelivered(q)
<1>1. /\ reader' = reader /\ pend' = pend /\ data' = data /\ out' = out
      /\ \A q \in Lsm : kernel'[q] = kernel[q]
      /\ pc' = "idle" => pc = "idle"
  <2> USE DEF pollVars
  <2>1. CASE Activate
    BY <2>1 DEF Activate, EnableLsm, ResetLight, EnableLight, EnableLightFails,
                     EnableMpl, WakeUp
  <2>2. CASE Interrupt
    BY <2>2 DEF Interrupt
  <2>3. CASE MakeSample("light")
    <3>1. kernel' = [kernel EXCEPT !["light"] = @ \o <<NewSample("light"), Syn>>]
      BY <2>3 DEF MakeSample
    <3>2. \A q \in Lsm : q \in Readers /\ q # "light"
      BY LsmAre
    <3>3. \A q \in Lsm : kernel'[q] = kernel[q]
      BY <3>1, <3>2 DEF IInv, TypeInv
    <3> QED
      BY <2>3, <3>3 DEF MakeSample
  <2>4. CASE UNCHANGED vars
    BY <2>4 DEF vars
  <2>5. CASE Call
    BY <2>5 DEF Call, FifoInv
  <2>6. CASE Skip
    BY <2>6 DEF Skip
  <2>7. CASE Poll
    BY <2>7 DEF Poll
  <2>8. CASE UpdateMpl
    BY <2>8 DEF UpdateMpl
  <2>9. CASE \E s \in Readers : Done(s) \/ FillFails(s)
    BY <2>9 DEF Done, Back, FillFails
  <2> QED
    BY <2>1, <2>2, <2>3, <2>4, <2>5, <2>6, <2>7, <2>8, <2>9
<1> QED
  BY <1>1, QueuesSame

-----------------------------------------------------------------------------
(* The events of accelerometer and magnetometer.                            *)

\* The reader's current event is the first of the stream.
LEMMA StreamPassed ==
  ASSUME IInv, NEW s \in Lsm, NEW event, NextEvent(s, event)
  PROVE  /\ Stream(s) # <<>> /\ Head(Stream(s)) = event /\ Stream(s)' = Tail(Stream(s))
         /\ \A q \in Lsm \ {s} : Stream(q)' = Stream(q)
<1>1. /\ Available(reader[s]) > 0 /\ Current(reader[s]) = event /\ kernel' = kernel
      /\ reader' = [reader EXCEPT ![s] = next(@)]
  BY DEF NextEvent, More
<1>2. s \in Readers
  BY LsmAre
<1>3. PICK u, k, r, n : u = Unread(reader[s]) /\ k = kernel[s] /\ r = reader[s] /\ n = Size[s]
  OBVIOUS
<1>4. n \in Nat \ {0} /\ ReaderOK(r, n, Nat) /\ Available(r) > 0
  BY <1>1, <1>2, <1>3, StreamType
<1>5. u \in Seq(Nat) /\ k \in Seq(Nat) /\ Len(u) = Available(r)
  BY <1>2, <1>3, StreamType
<1>6. u # <<>>
  <2>1. Len(u) > 0
    BY <1>4, <1>5
  <2> QED
    BY <2>1
<1>7. Current(r) = Head(Unread(r)) /\ Unread(next(r)) = Tail(Unread(r))
  BY <1>4, NextDrops
<1>8. Tail(u) \o k = Tail(u \o k) /\ Head(u) = Head(u \o k) /\ u \o k # <<>>
  BY <1>5, <1>6, Passed
<1>9. reader'[s] = next(r) /\ \A q \in Readers \ {s} : reader'[q] = reader[q]
  BY <1>1, <1>2, <1>3 DEF IInv, TypeInv
<1>10. Stream(s) = u \o k
  BY <1>3 DEF Stream
<1>11. Stream(s)' = Tail(u) \o k
  BY <1>1, <1>3, <1>7, <1>9 DEF Stream
<1>12. \A q \in Lsm \ {s} : Stream(q)' = Stream(q)
  <2> TAKE q \in Lsm \ {s}
  <2>1. reader'[q] = reader[q]
    BY <1>9, LsmAre
  <2> QED
    BY <1>1, <2>1 DEF Stream
<1> QED
  BY <1>1, <1>3, <1>7, <1>8, <1>10, <1>11, <1>12

\* The value of a sample moves from the stream to mPendingEvent.
LEMMA ValueStays ==
  ASSUME IInv, FifoInv, NEW s \in Lsm, Value(s)
  PROVE  FifoInv' /\ out' = out /\ \A q \in Lsm : Undelivered(q)' = Undelivered(q)
<1>1. PICK event : event = Current(reader[s])
  OBVIOUS
<1>2. /\ NextEvent(s, event) /\ event # Syn /\ pend' = [pend EXCEPT ![s] = event]
      /\ data' = data /\ out' = out /\ pc' = "read"
  BY <1>1 DEF Value, NextEvent
<1>3. PICK t : t = Stream(s)
  OBVIOUS
<1>4. /\ t # <<>> /\ Head(t) = event /\ Stream(s)' = Tail(t)
      /\ \A q \in Lsm \ {s} : Stream(q)' = Stream(q)
  BY <1>2, <1>3, StreamPassed
<1>5. s \in Readers
  BY LsmAre
<1>6. t \in Seq(Nat) /\ pend[s] \in Nat /\ Paired(t)
  BY <1>3, <1>5, StreamType DEF FifoInv
<1>7. Paired(Tail(t))
  BY <1>4, <1>6, TailPaired
<1>8. Decode(event, Tail(t)) = Decode(pend[s], t)
  BY <1>2, <1>4, <1>6, ValueTaken
<1>9. pend'[s] = event /\ \A q \in Lsm \ {s} : pend'[q] = pend[q]
  BY <1>2, <1>5, LsmAre DEF IInv, TypeInv
<1>10. ASSUME NEW q \in Lsm
       PROVE  Undelivered(q)' = Undelivered(q) /\ Paired(Stream(q)')
  <2>1. CASE q = s
    <3>1. Undelivered(q) = ValuesOf(q, data) \o Decode(pend[s], t)
      BY <1>3, <2>1 DEF Undelivered, Stream
    <3>2. Undelivered(q)' = ValuesOf(q, data) \o Decode(event, Tail(t))
      BY <1>2, <1>4, <1>9, <2>1 DEF Undelivered, Stream
    <3> QED
      BY <1>4, <1>7, <1>8, <2>1, <3>1, <3>2
  <2>2. CASE q # s
    <3>1. Stream(q)' = Stream(q) /\ pend'[q] = pend[q]
      BY <1>4, <1>9, <2>2
    <3> QED
      BY <1>2, <3>1 DEF Undelivered, Stream, FifoInv
  <2> QED
    BY <2>1, <2>2
<1>11. FifoInv'
  BY <1>2, <1>10 DEF FifoInv
<1> QED
  BY <1>2, <1>10, <1>11

\* A sample that is complete moves from the stream to what is written.
LEMMA SampleStays ==
  ASSUME IInv, FifoInv, NEW s \in Lsm, Sample(s)
  PROVE  FifoInv' /\ out' = out /\ \A q \in Lsm : Undelivered(q)' = Undelivered(q)
<1>1. PICK e : e = [s |-> s, v |-> pend[s]]
  OBVIOUS
<1>2. /\ NextEvent(s, Syn) /\ pend' = pend /\ data' = Append(data, e) /\ out' = out
      /\ pc' = "read"
  BY <1>1 DEF Sample, NextEvent
<1>3. PICK t : t = Stream(s)
  OBVIOUS
<1>4. /\ t # <<>> /\ Head(t) = Syn /\ Stream(s)' = Tail(t)
      /\ \A q \in Lsm \ {s} : Stream(q)' = Stream(q)
  BY <1>2, <1>3, StreamPassed
<1>5. s \in Readers
  BY LsmAre
<1>6. t \in Seq(Nat) /\ pend[s] \in Nat /\ Paired(t)
  BY <1>3, <1>5, StreamType DEF FifoInv
<1>7. Paired(Tail(t)) /\ Tail(t) \in Seq(Nat)
  BY <1>4, <1>6, TailPaired
<1>8. <<pend[s]>> \o Decode(pend[s], Tail(t)) = Decode(pend[s], t)
  BY <1>4, <1>6, SynTaken
<1>9. e \in Data /\ e.s = s /\ e.v = pend[s] /\ data \in Seq(Data) /\ WithinData(data)
  <2>1. s \in ToSet(Drivers)
    BY <1>5, DriversAre
  <2> QED
    BY <1>1, <1>6, <2>1 DEF Data, IInv, TypeInv, FifoInv
<1>10. WithinData(data')
  BY <1>2, <1>9, WithinMore
<1>11. \A q \in Lsm : Paired(Stream(q)')
  BY <1>4, <1>7 DEF FifoInv
<1>12. \A q \in Lsm : Undelivered(q)' = Undelivered(q)
  <2> TAKE q \in Lsm
  <2>1. CASE q = s
    <3>1. Undelivered(q) = ValuesOf(s, data) \o Decode(pend[s], t)
      BY <1>3, <2>1 DEF Undelivered, Stream
    <3>2. Undelivered(q)' = ValuesOf(s, Append(data, e)) \o Decode(pend[s], Tail(t))
      BY <1>2, <1>4, <2>1 DEF Undelivered, Stream
    <3>3. ValuesOf(s, Append(data, e)) = Append(ValuesOf(s, data), pend[s])
      BY <1>9, ValuesOfMore DEF Step
    <3>4. PICK S : S = Written
      OBVIOUS
    <3>5. PICK v, p, w : /\ v = ValuesOf(s, data) /\ p = pend[s]
                         /\ w = Decode(pend[s], Tail(t))
      OBVIOUS
    <3>6. v \in Seq(S) /\ p \in S /\ w \in Seq(S) /\ <<p>> \in Seq(S)
      <4>1. v \in Seq(Written)
        BY <1>9, <3>5, ValuesOfType
      <4>2. w \in Seq(Nat) /\ p \in Nat
        BY <1>6, <1>7, <3>5, DecodeType
      <4>3. \A x \in Nat : x \in Written
        BY DEF Written
      <4>4. w \in Seq(Written)
        BY <4>2, <4>3
      <4>5. p \in Written
        BY <4>2, <4>3
      <4>6. <<p>> \in Seq(Written)
        BY <4>5
      <4> QED
        BY <3>4, <4>1, <4>4, <4>5, <4>6
    <3>7. Append(v, p) = v \o <<p>>
      BY <3>6, AppendIsConcat
    <3>8. (v \o <<p>>) \o w = v \o (<<p>> \o w)
      BY <3>6, ConcatAssociative
    <3> QED
      BY <1>8, <3>1, <3>2, <3>3, <3>5, <3>7, <3>8
  <2>2. CASE q # s
    <3>1. Stream(q)' = Stream(q)
      BY <1>4, <2>2
    <3>2. ValuesOf(q, Append(data, e)) = ValuesOf(q, data)
      BY <1>9, <2>2, ValuesOfOther
    <3> QED
      BY <1>2, <3>1, <3>2 DEF Undelivered, Stream
  <2> QED
    BY <2>1, <2>2
<1>13. FifoInv'
  BY <1>2, <1>10, <1>11 DEF FifoInv
<1> QED
  BY <1>2, <1>12, <1>13

-----------------------------------------------------------------------------
(* What makes a sample, and what hands samples out.                        *)

\* A sample that is made is the last that is not handed out.
LEMMA SampleMade ==
  ASSUME IInv, FifoInv, NEW s \in Lsm, MakeSample(s)
  PROVE  FifoInv' /\ Fifo!Next
<1>1. PICK v : v = made[s] + 1
  OBVIOUS
<1>2. /\ made[s] < MaxSamples[s] /\ reader' = reader /\ pend' = pend /\ data' = data
      /\ out' = out /\ errors' = errors /\ pc' = pc
      /\ kernel' = [kernel EXCEPT ![s] = @ \o <<v, Syn>>]
  BY <1>1, LsmAre DEF MakeSample, NewSample, pollVars
<1>3. v \in 1 .. MaxSample /\ v \in Nat /\ v # Syn
  <2>1. PICK m \in Nat, b \in Nat : m = made[s] /\ b = MaxSamples[s]
    BY MaxSampleIs, LsmAre, DriversAre DEF IInv, TypeInv
  <2>2. b <= MaxSample /\ MaxSample \in Nat /\ m < b
    BY <1>2, <2>1, MaxSampleIs
  <2>3. PICK x \in Nat : x = MaxSample
    BY <2>2
  <2>4. m + 1 \in 1 .. x /\ m + 1 # 0
    BY <2>2, <2>3
  <2> QED
    BY <1>1, <2>1, <2>3, <2>4 DEF Syn
<1>4. s \in Readers
  BY LsmAre
<1>5. PICK t, u, k : t = Stream(s) /\ u = Unread(reader[s]) /\ k = kernel[s]
  OBVIOUS
<1>6. /\ t \in Seq(Nat) /\ u \in Seq(Nat) /\ k \in Seq(Nat) /\ t = u \o k
      /\ pend[s] \in Nat /\ Paired(t)
  BY <1>4, <1>5, StreamType DEF Stream, FifoInv
<1>7. PICK b : b = <<v, Syn>>
  OBVIOUS
<1>8. b \in Seq(Nat)
  BY <1>3, <1>7 DEF Syn
<1>9. u \o (k \o b) = t \o b
  <2>1. (u \o k) \o b = u \o (k \o b)
    BY <1>6, <1>8, NatAssoc
  <2> QED
    BY <1>6, <2>1
<1>10. kernel'[s] = k \o b /\ \A q \in Lsm \ {s} : kernel'[q] = kernel[q]
  BY <1>2, <1>4, <1>5, <1>7, LsmAre DEF IInv, TypeInv
<1>11. Stream(s)' = t \o b /\ \A q \in Lsm \ {s} : Stream(q)' = Stream(q)
  BY <1>2, <1>5, <1>9, <1>10 DEF Stream
<1>12. Paired(t \o b)
  BY <1>3, <1>6, <1>7, PairedMade
<1>13. Decode(pend[s], t \o b) = Append(Decode(pend[s], t), v)
  BY <1>3, <1>6, <1>7, DecodeMade
<1>14. FifoInv'
  BY <1>2, <1>11, <1>12 DEF FifoInv
<1>15. Undelivered(s)' = Append(Undelivered(s), v)
  <2>1. PICK g, w : g = ValuesOf(s, data) /\ w = Decode(pend[s], t)
    OBVIOUS
  <2>2. Undelivered(s) = g \o w
    BY <1>5, <2>1 DEF Undelivered, Stream
  <2>3. Undelivered(s)' = g \o Append(w, v)
    BY <1>2, <1>11, <1>13, <2>1 DEF Undelivered, Stream
  <2>4. PICK S : S = Written
    OBVIOUS
  <2>5. g \in Seq(S) /\ w \in Seq(S) /\ v \in S /\ <<v>> \in Seq(S)
    <3>1. g \in Seq(Written)
      BY <2>1, ValuesOfType DEF IInv, TypeInv
    <3>2. w \in Seq(Nat)
      BY <1>6, <2>1, DecodeType
    <3>3. \A x \in Nat : x \in Written
      BY DEF Written
    <3>4. w \in Seq(Written)
      BY <3>2, <3>3
    <3>5. v \in Written
      BY <1>3, <3>3
    <3>6. <<v>> \in Seq(Written)
      BY <3>5
    <3> QED
      BY <2>4, <3>1, <3>4, <3>5, <3>6
  <2>6. g \o w \in Seq(S)
    BY <2>5
  <2>7. Append(w, v) = w \o <<v>> /\ Append(g \o w, v) = (g \o w) \o <<v>>
    BY <2>5, <2>6, AppendIsConcat
  <2>8. (g \o w) \o <<v>> = g \o (w \o <<v>>)
    BY <2>5, ConcatAssociative
  <2> QED
    BY <2>2, <2>3, <2>7, <2>8
<1>16. \A q \in Lsm \ {s} : Undelivered(q)' = Undelivered(q)
  BY <1>2, <1>11 DEF Undelivered, Stream
<1> QED
  BY <1>2, <1>3, <1>14, <1>15, <1>16, FifoMakes

\* What a call returns is what the queues begin with, and fits its room.
LEMMA CallEnds ==
  ASSUME IInv, FifoInv, Return \/ PollFails
  PROVE  FifoInv' /\ Fifo!Next
<1>1. /\ pc' = "idle" /\ data' = <<>> /\ out' = [s \in Lsm |-> ValuesOf(s, data)]
      /\ reader' = reader /\ kernel' = kernel /\ pend' = pend
      /\ errors' = errors \/ errors' = errors + 1
  BY DEF Return, PollFails, Ends
<1>2. \A s \in Lsm : Stream(s)' = Stream(s) /\ out'[s] = ValuesOf(s, data)
  BY <1>1 DEF Stream
<1>3. FifoInv'
  BY <1>1, <1>2, WithinNone DEF FifoInv
<1>4. data \in Seq(Data) /\ WithinData(data) /\ Len(data) <= Count
  BY DEF IInv, TypeInv, FifoInv, RoomInv
<1>5. \A s \in Lsm : Undelivered(s) = out'[s] \o Undelivered(s)'
  <2> TAKE s \in Lsm
  <2>1. PICK x, w : x = ValuesOf(s, data) /\ w = Decode(pend[s], Stream(s))
    OBVIOUS
  <2>2. Undelivered(s) = x \o w
    BY <2>1 DEF Undelivered, Stream
  <2>3. Undelivered(s)' = ValuesOf(s, <<>>) \o w
    BY <1>1, <2>1 DEF Undelivered, Stream
  <2>4. w \in Seq(Nat)
    <3>1. Stream(s) \in Seq(Nat) /\ pend[s] \in Nat
      BY StreamType, LsmAre
    <3> QED
      BY <2>1, <3>1, DecodeType
  <2>5. ValuesOf(s, <<>>) \o w = w
    <3>1. <<>> \o w = w
      BY <2>4, ConcatEmptySeq
    <3> QED
      BY <3>1, ValuesOfNone
  <2> QED
    BY <1>2, <2>1, <2>2, <2>3, <2>5
<1>6. PICK a \in Nat, b \in Nat : a = Len(out'["acc"]) /\ b = Len(out'["mag"])
  <2>1. ValuesOf("acc", data) \in Seq(Written) /\ ValuesOf("mag", data) \in Seq(Written)
    BY <1>4, ValuesOfType
  <2>2. Len(ValuesOf("acc", data)) \in Nat /\ Len(ValuesOf("mag", data)) \in Nat
    BY <2>1
  <2> QED
    BY <1>2, <2>2, LsmAre
<1>7. a + b <= Count
  <2>1. PICK l \in Nat, c \in Nat : l = Len(data) /\ c = Count
    BY <1>4, SensorsAssumption
  <2>2. a + b <= l
    BY <1>2, <1>4, <1>6, <2>1, LsmAre DEF WithinData
  <2>3. l <= c
    BY <1>4, <2>1
  <2>4. a + b <= c
    BY <2>2, <2>3
  <2> QED
    BY <2>1, <2>4
<1>8. /\ Len(out'["acc"]) \in Nat /\ Len(out'["mag"]) \in Nat
      /\ Len(out'["acc"]) + Len(out'["mag"]) <= Count
  BY <1>6, <1>7
<1> QED
  BY <1>1, <1>3, <1>5, <1>8, FifoHandsOut

-----------------------------------------------------------------------------
\* Each step keeps FifoInv and is a step of SensorFifo or leaves its variables alone.
LEMMA FifoStep ==
  ASSUME IInv, FifoInv, [Next]_vars
  PROVE  FifoInv' /\ [Fifo!Next]_<<[s \in Lsm |-> Undelivered(s)], out, errors>>
<1>1. ASSUME FifoInv', out' = out, errors' = errors, \A q \in Lsm : Undelivered(q)' = Undelivered(q)
      PROVE  FifoInv' /\ [Fifo!Next]_<<[s \in Lsm |-> Undelivered(s)], out, errors>>
  BY <1>1, FifoStutters
<1>2. ASSUME NEW s \in Lsm, Value(s) \/ Sample(s) \/ NoSample(s) \/ MakeSample(s)
      PROVE  FifoInv' /\ [Fifo!Next]_<<[q \in Lsm |-> Undelivered(q)], out, errors>>
  <2>e. errors' = errors
    BY <1>2 DEF Value, Sample, NoSample, NextEvent, MakeSample, pollVars
  <2>1. CASE Value(s)
    BY <1>1, <2>1, <2>e, ValueStays
  <2>2. CASE Sample(s)
    BY <1>1, <2>2, <2>e, SampleStays
  <2>3. ~NoSample(s)
    BY LsmAre DEF NoSample, Reported
  <2>4. CASE MakeSample(s)
    BY <2>4, SampleMade
  <2> QED
    BY <1>2, <2>1, <2>2, <2>3, <2>4
<1>3. CASE \E s \in Readers : Fill(s)
  <2>1. errors' = errors
    BY <1>3 DEF Fill
  <2> QED
    BY <1>1, <1>3, <2>1, FillStays
<1>4. CASE \E s \in Readers : Value(s) \/ Sample(s) \/ NoSample(s)
  <2>1. PICK s \in Readers : Value(s) \/ Sample(s) \/ NoSample(s)
    BY <1>4
  <2>2. CASE s \in Lsm
    BY <1>2, <2>1, <2>2
  <2>3. CASE s = "light"
    <3>1. Value("light") \/ Sample("light") \/ NoSample("light")
      BY <2>1, <2>3
    <3>2. errors' = errors
      BY <3>1 DEF Value, Sample, NoSample, NextEvent
    <3> QED
      BY <1>1, <3>1, <3>2, LightStays
  <2> QED
    BY <2>2, <2>3 DEF Readers
<1>5. CASE \E s \in Readers : MakeSample(s)
  <2>1. PICK s \in Readers : MakeSample(s)
    BY <1>5
  <2>2. CASE s \in Lsm
    BY <1>2, <2>1, <2>2
  <2>3. CASE s = "light"
    <3>1. MakeSample("light")
      BY <2>1, <2>3
    <3>2. errors' = errors
      BY <3>1 DEF MakeSample, pollVars
    <3> QED
      BY <1>1, <3>1, <3>2, OthersStay
  <2> QED
    BY <2>2, <2>3 DEF Readers
<1>6. CASE ReadMpl
  <2>1. errors' = errors
    BY <1>6 DEF ReadMpl, Back
  <2> QED
    BY <1>1, <1>6, <2>1, MplStays
<1>7. CASE Return \/ PollFails
  BY <1>7, CallEnds
<1>8. CASE \/ Activate \/ Interrupt \/ UNCHANGED vars \/ Call \/ Skip \/ Poll \/ UpdateMpl
           \/ \E s \in Readers : Done(s) \/ FillFails(s)
  <2>1. errors' = errors
    BY <1>8 DEF pollVars, vars, Activate, EnableLsm, ResetLight, EnableLight, EnableLightFails,
                EnableMpl, WakeUp, Interrupt, Call, Skip, Poll, UpdateMpl, Done, Back, FillFails
  <2> QED
    BY <1>1, <1>8, <2>1, OthersStay
<1> QED
  BY <1>3, <1>4, <1>5, <1>6, <1>7, <1>8 DEF Next, PollEvents

LEMMA FifoStarts ==
  ASSUME Init
  PROVE  FifoInv /\ Fifo!Init
<1>1. /\ kernel = [s \in Readers |-> <<>>] /\ reader = [s \in Readers |-> NewReader(Size[s], Syn)]
      /\ pend = [s \in Readers |-> 0] /\ data = <<>> /\ out = [s \in Lsm |-> <<>>] /\ errors = 0
  BY DEF Init
<1>2. ASSUME NEW s \in Lsm
      PROVE  Stream(s) = <<>> /\ pend[s] = 0
  <2>1. s \in Readers /\ Size[s] \in Nat \ {0} /\ Syn \in Nat
    BY LsmAre, SensorsAssumption, DriversAre DEF Syn
  <2>2. Unread(NewReader(Size[s], Syn)) = <<>>
    BY <2>1, NewIsEmpty
  <2>3. <<>> \o <<>> = <<>>
    OBVIOUS
  <2> QED
    BY <1>1, <2>1, <2>2, <2>3 DEF Stream
<1>3. PICK none \in Seq(Nat) : none = <<>> /\ Len(none) = 0
  <2>1. <<>> \in Seq(Nat) /\ Len(<<>>) = 0
    OBVIOUS
  <2> QED
    BY <2>1
<1>4. Paired(none)
  BY <1>3 DEF Paired
<1>5. Decode(0, none) = <<>>
  <2>1. Evens(Decode(0, none), none, 0)
    <3>1. Len(none) = 2 * 0
      BY <1>3
    <3> QED
      BY <3>1, DecodeEven
  <2>2. Decode(0, none) \in Seq(Nat) /\ Len(Decode(0, none)) = 0
    BY <2>1 DEF Evens
  <2> QED
    BY <2>2, EmptySeq
<1>6. \A s \in Lsm : Undelivered(s) = <<>>
  <2>1. <<>> \o <<>> = <<>>
    OBVIOUS
  <2> QED
    BY <1>1, <1>2, <1>3, <1>5, <2>1, ValuesOfNone DEF Undelivered, Stream
<1>7. FifoInv
  BY <1>1, <1>2, <1>3, <1>4, WithinNone DEF FifoInv
<1>8. Fifo!Init
  BY <1>1, <1>6 DEF Fifo!Init
<1> QED
  BY <1>7, <1>8

\* The thread implements the queue that SensorFifo describes: pollEvents returns
\* every sample of the accelerometer and of the magnetometer once and in the order
\* they were made, and never more events than it has room for - whatever the sizes
\* of the circular buffers, wherever a read of the device ends, whoever switches
\* sensors on or off, and wherever a call runs out of room.
THEOREM SamplesInOrder == Spec => InOrder
<1>1. Init => FifoInv /\ Fifo!Init
  BY FifoStarts
<1>2. IInv /\ FifoInv /\ [Next]_vars
        => FifoInv' /\ [Fifo!Next]_<<[s \in Lsm |-> Undelivered(s)], out, errors>>
  BY FifoStep
<1> QED
  BY <1>1, <1>2, Invariant, PTL DEF Spec, InOrder, Fifo!Spec

-----------------------------------------------------------------------------
(* The lights: the inductive invariant.                                     *)

Start(e) == Ioctl("start", {e})
Stop(e) == Ioctl("stop", {e})
Wait == Ioctl("wait", {})

EnginesOff == \A e \in {1, 2} : engine[e] = "none"
Needed == flag["button"] \/ flag["battery"]

\* What LedShowsLights says of a free lock.
Shown ==
  IF flag["notification"]
  THEN (\A s \in Sides : led[s] = Lit) \/ (\A e \in {1, 2} : engine[e] \in Programs)
  ELSE EnginesOff /\ \A s \in Sides : led[s] = IF Needed THEN Lit ELSE 0

\* The brightness v is what the LEDs should have.
Wanted(v) ==
  IF flag["notification"] THEN v = Lit ELSE EnginesOff /\ v = IF Needed THEN Lit ELSE 0

\* While nothing has failed, what the holder of the lock has still to do turns
\* the LEDs and the engines as they are into what is to be shown.
Settling ==
  todo \in {<<>>, <<LastStep>>} /\ Shown

Writing ==
  \E v \in {0, Lit} :
    /\ Wanted(v)
    /\ \/ todo = <<Write("left", v), Write("right", v), LastStep>>
       \/ todo = <<Write("right", v), LastStep>> /\ led["left"] = v

Programming ==
  /\ flag["notification"]
  /\ \E p \in Programs :
       \/ todo = <<Download(p), Start(2), Start(1), LastStep>>
       \/ todo = <<Start(2), Start(1), LastStep>> /\ loaded = p
       \/ todo = <<Start(1), LastStep>> /\ loaded = p /\ engine[2] = p

\* The reset, which leaves the LEDs dark, and for the button or the battery they
\* are lit again.
Dark == \A s \in Sides : led[s] = 0
Lefts == Write("left", Lit)
Rights == Write("right", Lit)
Resetting ==
  /\ ~flag["notification"]
  /\ \/ todo = IF Needed
               THEN <<Download("reset"), Start(1), Stop(1), Stop(2), Wait, Lefts, Rights, LastStep>>
               ELSE <<Download("reset"), Start(1), Stop(1), Stop(2), Wait, LastStep>>
     \/ /\ todo = IF Needed
                  THEN <<Start(1), Stop(1), Stop(2), Wait, Lefts, Rights, LastStep>>
                  ELSE <<Start(1), Stop(1), Stop(2), Wait, LastStep>>
        /\ loaded = "reset"
     \/ /\ todo = IF Needed THEN <<Stop(1), Stop(2), Wait, Lefts, Rights, LastStep>>
                  ELSE <<Stop(1), Stop(2), Wait, LastStep>>
        /\ Dark
     \/ /\ todo = IF Needed THEN <<Stop(2), Wait, Lefts, Rights, LastStep>>
                  ELSE <<Stop(2), Wait, LastStep>>
        /\ Dark /\ engine[1] = "none"
     \/ /\ todo = IF Needed THEN <<Wait, Lefts, Rights, LastStep>> ELSE <<Wait, LastStep>>
        /\ Dark /\ EnginesOff

LightsInv ==
  /\ flag \in [Lights -> BOOLEAN] /\ failed \in BOOLEAN
  /\ led = [s \in Sides |-> led[s]] /\ engine = [e \in {1, 2} |-> engine[e]]
  /\ failed \/ Settling \/ Writing \/ Programming \/ Resetting

-----------------------------------------------------------------------------
(* The lights: the steps a light sets out with.                             *)

\* A sequence with one more element, or with two, is the longer tuple.
LEMMA AppendIs ==
  ASSUME NEW S, NEW s \in Seq(S), NEW e \in S, NEW t \in Seq(S), Len(t) = Len(s) + 1,
         \A i \in 1 .. Len(s) : t[i] = s[i], t[Len(s) + 1] = e
  PROVE  Append(s, e) = t
<1>1. PICK x : x = Append(s, e)
  OBVIOUS
<1>2. /\ x \in Seq(S) /\ Len(x) = Len(s) + 1
      /\ \A i \in 1 .. Len(s) : x[i] = s[i]
      /\ x[Len(s) + 1] = e
  BY <1>1, AppendProperties
<1>3. \A i \in 1 .. Len(x) : x[i] = t[i]
  BY <1>2
<1> QED
  BY <1>1, <1>2, <1>3, SeqEqual

LEMMA Appends ==
  \A a, b, c, d, e, f, g, h :
    /\ Append(<<>>, a) = <<a>>
    /\ Append(<<a, b>>, c) = <<a, b, c>>
    /\ Append(<<a, b, c>>, d) = <<a, b, c, d>>
    /\ Append(<<a, b, c, d, e>>, f) = <<a, b, c, d, e, f>>
    /\ Append(<<a, b, c, d, e, f>>, g) = <<a, b, c, d, e, f, g>>
    /\ Append(<<a, b, c, d, e, f, g>>, h) = <<a, b, c, d, e, f, g, h>>
<1> TAKE a, b, c, d, e, f, g, h
<1> DEFINE S == {a, b, c, d, e, f, g, h}
<1>1. <<a, b>> \in Seq(S) /\ <<a, b, c>> \in Seq(S) /\ <<a, b, c, d>> \in Seq(S)
  OBVIOUS
<1>2. /\ <<a, b, c, d, e>> \in Seq(S) /\ <<a, b, c, d, e, f>> \in Seq(S)
      /\ <<a, b, c, d, e, f, g>> \in Seq(S) /\ <<a, b, c, d, e, f, g, h>> \in Seq(S)
  OBVIOUS
<1>3. {c, d, f, g, h} \subseteq S
  OBVIOUS
<1> HIDE DEF S
<1>4. Append(<<>>, a) = <<a>>
  OBVIOUS
<1>5. Append(<<a, b>>, c) = <<a, b, c>>
  <2>1. PICK x, y : x = <<a, b>> /\ y = <<a, b, c>>
    OBVIOUS
  <2>2. x \in Seq(S) /\ y \in Seq(S) /\ c \in S
    BY <1>1, <1>3, <2>1
  <2>3. Len(y) = Len(x) + 1 /\ Len(x) = 2 /\ y[Len(x) + 1] = c
    BY <2>1
  <2>4. \A i \in 1 .. Len(x) : y[i] = x[i]
    BY <2>1, <2>3
  <2>5. Append(x, c) = y
    BY <2>2, <2>3, <2>4, AppendIs
  <2> QED
    BY <2>1, <2>5
<1>6. Append(<<a, b, c>>, d) = <<a, b, c, d>>
  <2>1. PICK x, y : x = <<a, b, c>> /\ y = <<a, b, c, d>>
    OBVIOUS
  <2>2. x \in Seq(S) /\ y \in Seq(S) /\ d \in S
    BY <1>1, <1>3, <2>1
  <2>3. Len(y) = Len(x) + 1 /\ Len(x) = 3 /\ y[Len(x) + 1] = d
    BY <2>1
  <2>4. \A i \in 1 .. Len(x) : y[i] = x[i]
    BY <2>1, <2>3
  <2>5. Append(x, d) = y
    BY <2>2, <2>3, <2>4, AppendIs
  <2> QED
    BY <2>1, <2>5
<1>7. Append(<<a, b, c, d, e>>, f) = <<a, b, c, d, e, f>>
  <2>1. PICK x, y : x = <<a, b, c, d, e>> /\ y = <<a, b, c, d, e, f>>
    OBVIOUS
  <2>2. x \in Seq(S) /\ y \in Seq(S) /\ f \in S
    BY <1>2, <1>3, <2>1
  <2>3. Len(y) = Len(x) + 1 /\ Len(x) = 5 /\ y[Len(x) + 1] = f
    BY <2>1
  <2>4. \A i \in 1 .. Len(x) : y[i] = x[i]
    BY <2>1, <2>3
  <2>5. Append(x, f) = y
    BY <2>2, <2>3, <2>4, AppendIs
  <2> QED
    BY <2>1, <2>5
<1>8. Append(<<a, b, c, d, e, f>>, g) = <<a, b, c, d, e, f, g>>
  <2>1. PICK x, y : x = <<a, b, c, d, e, f>> /\ y = <<a, b, c, d, e, f, g>>
    OBVIOUS
  <2>2. x \in Seq(S) /\ y \in Seq(S) /\ g \in S
    BY <1>2, <1>3, <2>1
  <2>3. Len(y) = Len(x) + 1 /\ Len(x) = 6 /\ y[Len(x) + 1] = g
    BY <2>1
  <2>4. \A i \in 1 .. Len(x) : y[i] = x[i]
    BY <2>1, <2>3
  <2>5. Append(x, g) = y
    BY <2>2, <2>3, <2>4, AppendIs
  <2> QED
    BY <2>1, <2>5
<1>9. Append(<<a, b, c, d, e, f, g>>, h) = <<a, b, c, d, e, f, g, h>>
  <2>1. PICK x, y : x = <<a, b, c, d, e, f, g>> /\ y = <<a, b, c, d, e, f, g, h>>
    OBVIOUS
  <2>2. x \in Seq(S) /\ y \in Seq(S) /\ h \in S
    BY <1>2, <1>3, <2>1
  <2>3. Len(y) = Len(x) + 1 /\ Len(x) = 7 /\ y[Len(x) + 1] = h
    BY <2>1
  <2>4. \A i \in 1 .. Len(x) : y[i] = x[i]
    BY <2>1, <2>3
  <2>5. Append(x, h) = y
    BY <2>2, <2>3, <2>4, AppendIs
  <2> QED
    BY <2>1, <2>5
<1> QED
  BY <1>4, <1>5, <1>6, <1>7, <1>8, <1>9

\* What is left of a tuple after its first step.
LEMMA Tails ==
  \A a, b, c, d, e, f, g, h :
    /\ Tail(<<a>>) = <<>> /\ Tail(<<a, b>>) = <<b>> /\ Tail(<<a, b, c>>) = <<b, c>>
    /\ Tail(<<a, b, c, d>>) = <<b, c, d>> /\ Tail(<<a, b, c, d, e>>) = <<b, c, d, e>>
    /\ Tail(<<a, b, c, d, e, f>>) = <<b, c, d, e, f>>
    /\ Tail(<<a, b, c, d, e, f, g>>) = <<b, c, d, e, f, g>>
    /\ Tail(<<a, b, c, d, e, f, g, h>>) = <<b, c, d, e, f, g, h>>
  OBVIOUS

LEMMA Heads ==
  \A a, b, c, d, e, f, g, h :
    /\ Head(<<a>>) = a /\ Head(<<a, b>>) = a /\ Head(<<a, b, c>>) = a
    /\ Head(<<a, b, c, d>>) = a /\ Head(<<a, b, c, d, e>>) = a
    /\ Head(<<a, b, c, d, e, f>>) = a /\ Head(<<a, b, c, d, e, f, g>>) = a
    /\ Head(<<a, b, c, d, e, f, g, h>>) = a
  OBVIOUS

LEMMA NotEmpty ==
  \A a, b, c, d, e, f, g, h :
    /\ <<a>> # <<>> /\ <<a, b>> # <<>> /\ <<a, b, c>> # <<>> /\ <<a, b, c, d>> # <<>>
    /\ <<a, b, c, d, e>> # <<>> /\ <<a, b, c, d, e, f>> # <<>>
    /\ <<a, b, c, d, e, f, g>> # <<>> /\ <<a, b, c, d, e, f, g, h>> # <<>>
  OBVIOUS

\* Five steps and two are the five with one appended and another.
LEMMA FiveAndTwo ==
  \A a, b, c, d, e, f, g :
    /\ <<a, b, c, d, e>> \o <<f, g>> = <<a, b, c, d, e, f, g>>
    /\ <<a, b, c, d, e>> \o <<>> = <<a, b, c, d, e>>
<1> TAKE a, b, c, d, e, f, g
<1> DEFINE S == {a, b, c, d, e, f, g}
<1>1. PICK x : x = <<a, b, c, d, e>> \o <<f, g>>
  OBVIOUS
<1>2. <<a, b, c, d, e>> \in Seq(S) /\ <<f, g>> \in Seq(S) /\ <<a, b, c, d, e, f, g>> \in Seq(S)
  OBVIOUS
<1>3. x \in Seq(S) /\ Len(x) = 7
  BY <1>1, <1>2, ConcatProperties
<1>4. x[1] = a /\ x[2] = b /\ x[3] = c /\ x[4] = d /\ x[5] = e
  BY <1>1, <1>2, ConcatProperties
<1>5. x[6] = f /\ x[7] = g
  BY <1>1, <1>2, ConcatProperties
<1> HIDE DEF S
<1>6. \A i \in 1 .. 7 : x[i] = <<a, b, c, d, e, f, g>>[i]
  BY <1>3, <1>4, <1>5
<1>7. Len(<<a, b, c, d, e, f, g>>) = 7
  OBVIOUS
<1>8. x = <<a, b, c, d, e, f, g>>
  BY <1>2, <1>3, <1>6, <1>7, SeqEqual
<1>9. <<a, b, c, d, e>> \o <<>> = <<a, b, c, d, e>>
  OBVIOUS
<1> QED
  BY <1>1, <1>8, <1>9

\* The work a light begins with, up to the release of the lock.
LEMMA Begun ==
  /\ Append(<<>>, LastStep) = <<LastStep>>
  /\ \A v : Append(set_navled(v), LastStep)
              = <<Write("left", v), Write("right", v), LastStep>>
  /\ \A p : Append(program_notification_led(p), LastStep)
              = <<Download(p), Start(2), Start(1), LastStep>>
  /\ Append(reset_notification_led \o set_navled(Lit), LastStep)
       = <<Download("reset"), Start(1), Stop(1), Stop(2), Wait, Lefts, Rights, LastStep>>
  /\ Append(reset_notification_led \o <<>>, LastStep)
       = <<Download("reset"), Start(1), Stop(1), Stop(2), Wait, LastStep>>
<1>1. /\ \A v : set_navled(v) = <<Write("left", v), Write("right", v)>>
      /\ \A p : program_notification_led(p) = <<Download(p), Start(2), Start(1)>>
      /\ reset_notification_led = <<Download("reset"), Start(1), Stop(1), Stop(2), Wait>>
      /\ set_navled(Lit) = <<Lefts, Rights>>
  BY DEF set_navled, program_notification_led, reset_notification_led, Start, Stop, Wait,
         Lefts, Rights
<1>2. Append(<<>>, LastStep) = <<LastStep>>
  BY Appends
<1>3. \A v : Append(set_navled(v), LastStep)
                = <<Write("left", v), Write("right", v), LastStep>>
  BY <1>1, Appends
<1>4. \A p : Append(program_notification_led(p), LastStep)
                = <<Download(p), Start(2), Start(1), LastStep>>
  <2> TAKE p
  <2>1. Append(<<Download(p), Start(2), Start(1)>>, LastStep)
          = <<Download(p), Start(2), Start(1), LastStep>>
    BY Appends
  <2> QED
    BY <1>1, <2>1
<1>5. /\ reset_notification_led \o set_navled(Lit)
           = <<Download("reset"), Start(1), Stop(1), Stop(2), Wait, Lefts, Rights>>
      /\ reset_notification_led \o <<>>
           = <<Download("reset"), Start(1), Stop(1), Stop(2), Wait>>
  BY <1>1, FiveAndTwo
<1>6. Append(reset_notification_led \o set_navled(Lit), LastStep)
        = <<Download("reset"), Start(1), Stop(1), Stop(2), Wait, Lefts, Rights, LastStep>>
  BY <1>5, Appends
<1>7. Append(reset_notification_led \o <<>>, LastStep)
        = <<Download("reset"), Start(1), Stop(1), Stop(2), Wait, LastStep>>
  <2>1. Append(<<Download("reset"), Start(1), Stop(1), Stop(2), Wait>>, LastStep)
          = <<Download("reset"), Start(1), Stop(1), Stop(2), Wait, LastStep>>
    BY Appends
  <2> QED
    BY <1>5, <2>1
<1> QED
  BY <1>2, <1>3, <1>4, <1>6, <1>7

-----------------------------------------------------------------------------
(* The lights: the steps keep the invariant.                                *)

\* When the lock is free and nothing has failed, the LEDs show what was set.
LEMMA FreeShows ==
  ASSUME LightsInv, todo = <<>>, ~failed
  PROVE  Shown
  BY NotEmpty DEF LightsInv, Settling, Writing, Programming, Resetting

\* Setting a light leaves LEDs and engines alone.
LEMMA SetKeeps ==
  ASSUME LightsInv, NEW l \in Lights, NEW lit \in BOOLEAN, NEW steps, Set(l, lit, steps)
  PROVE  /\ todo' = Append(steps, LastStep)
         /\ flag' \in [Lights -> BOOLEAN] /\ flag' = [flag EXCEPT ![l] = lit]
         /\ failed' \in BOOLEAN
         /\ led' = led /\ engine' = engine
         /\ led' = [s \in Sides |-> led'[s]] /\ engine' = [e \in {1, 2} |-> engine'[e]]
         /\ ~failed' /\ (l # "notification" \/ lit) => Shown
  BY FreeShows DEF LightsInv, Set

LEMMA ButtonsKeep ==
  ASSUME LightsInv, NEW lit \in BOOLEAN, set_light_buttons(lit)
  PROVE  LightsInv'
<1> DEFINE steps == IF lit THEN set_navled(Lit)
                    ELSE IF flag["notification"] \/ flag["battery"] THEN <<>>
                    ELSE set_navled(0)
<1>1. Set("button", lit, steps)
  BY DEF set_light_buttons
<1>2. "button" \in Lights /\ "notification" \in Lights /\ "battery" \in Lights
  BY DEF Lights
<1> HIDE DEF steps
<1>3. /\ todo' = Append(steps, LastStep)
      /\ flag' \in [Lights -> BOOLEAN] /\ flag' = [flag EXCEPT !["button"] = lit]
      /\ failed' \in BOOLEAN
      /\ led' = led /\ engine' = engine
      /\ led' = [s \in Sides |-> led'[s]] /\ engine' = [e \in {1, 2} |-> engine'[e]]
      /\ ~failed' => Shown
  BY <1>1, <1>2, SetKeeps
<1>4. /\ flag'["button"] = lit /\ flag'["notification"] = flag["notification"]
      /\ flag'["battery"] = flag["battery"]
  BY <1>2, <1>3 DEF LightsInv
<1>5. ASSUME ~failed' PROVE Settling' \/ Writing'
  <2>1. CASE lit
    <3>1. todo' = <<Write("left", Lit), Write("right", Lit), LastStep>>
      BY <1>3, <2>1, Begun DEF steps
    <3>2. Wanted(Lit)'
      BY <1>3, <1>4, <1>5, <2>1 DEF Wanted, Shown, Needed, EnginesOff
    <3> QED
      BY <3>1, <3>2 DEF Writing
  <2>2. CASE ~lit /\ (flag["notification"] \/ flag["battery"])
    <3>1. todo' = <<LastStep>>
      BY <1>3, <2>2, Begun DEF steps
    <3>2. Shown'
      BY <1>3, <1>4, <1>5, <2>2 DEF Shown, Needed, EnginesOff
    <3> QED
      BY <3>1, <3>2 DEF Settling
  <2>3. CASE ~lit /\ ~flag["notification"] /\ ~flag["battery"]
    <3>1. todo' = <<Write("left", 0), Write("right", 0), LastStep>>
      BY <1>3, <2>3, Begun DEF steps
    <3>2. Wanted(0)'
      BY <1>3, <1>4, <1>5, <2>3 DEF Wanted, Shown, Needed, EnginesOff
    <3> QED
      BY <3>1, <3>2 DEF Writing
  <2> QED
    BY <2>1, <2>2, <2>3
<1> QED
  BY <1>3, <1>5 DEF LightsInv

LEMMA BatteryKeeps ==
  ASSUME LightsInv, NEW lit \in BOOLEAN, set_light_battery(lit)
  PROVE  LightsInv'
<1> DEFINE steps == IF lit /\ ~flag["notification"] THEN set_navled(Lit)
                    ELSE IF ~lit /\ ~flag["notification"] /\ ~flag["button"]
                    THEN set_navled(0) ELSE <<>>
<1>1. Set("battery", lit, steps)
  BY DEF set_light_battery
<1>2. "button" \in Lights /\ "notification" \in Lights /\ "battery" \in Lights
  BY DEF Lights
<1> HIDE DEF steps
<1>3. /\ todo' = Append(steps, LastStep)
      /\ flag' \in [Lights -> BOOLEAN] /\ flag' = [flag EXCEPT !["battery"] = lit]
      /\ failed' \in BOOLEAN
      /\ led' = led /\ engine' = engine
      /\ led' = [s \in Sides |-> led'[s]] /\ engine' = [e \in {1, 2} |-> engine'[e]]
      /\ ~failed' => Shown
  BY <1>1, <1>2, SetKeeps
<1>4. /\ flag'["battery"] = lit /\ flag'["notification"] = flag["notification"]
      /\ flag'["button"] = flag["button"]
  BY <1>2, <1>3 DEF LightsInv
<1>5. ASSUME ~failed' PROVE Settling' \/ Writing'
  <2>1. CASE lit /\ ~flag["notification"]
    <3>1. todo' = <<Write("left", Lit), Write("right", Lit), LastStep>>
      BY <1>3, <2>1, Begun DEF steps
    <3>2. Wanted(Lit)'
      BY <1>3, <1>4, <1>5, <2>1 DEF Wanted, Shown, Needed, EnginesOff
    <3> QED
      BY <3>1, <3>2 DEF Writing
  <2>2. CASE flag["notification"] \/ (~lit /\ flag["button"])
    <3>1. todo' = <<LastStep>>
      BY <1>3, <2>2, Begun DEF steps
    <3>2. Shown'
      BY <1>3, <1>4, <1>5, <2>2 DEF Shown, Needed, EnginesOff
    <3> QED
      BY <3>1, <3>2 DEF Settling
  <2>3. CASE ~lit /\ ~flag["notification"] /\ ~flag["button"]
    <3>1. todo' = <<Write("left", 0), Write("right", 0), LastStep>>
      BY <1>3, <2>3, Begun DEF steps
    <3>2. Wanted(0)'
      BY <1>3, <1>4, <1>5, <2>3 DEF Wanted, Shown, Needed, EnginesOff
    <3> QED
      BY <3>1, <3>2 DEF Writing
  <2> QED
    BY <2>1, <2>2, <2>3
<1> QED
  BY <1>3, <1>5 DEF LightsInv

\* Switching the notification off resets the LEDs, whatever state failures have
\* left them in.
LEMMA NotificationsKeep ==
  ASSUME LightsInv, NEW lit \in BOOLEAN, set_light_notifications(lit)
  PROVE  LightsInv'
<1>2. "button" \in Lights /\ "notification" \in Lights /\ "battery" \in Lights
  BY DEF Lights
<1>1. CASE lit
  <2>1. PICK steps : /\ Set("notification", TRUE, steps)
                     /\ \/ steps = set_navled(Lit)
                        \/ \E p \in Programs : steps = program_notification_led(p)
    BY <1>1 DEF set_light_notifications
  <2>3. /\ todo' = Append(steps, LastStep)
        /\ flag' \in [Lights -> BOOLEAN] /\ flag' = [flag EXCEPT !["notification"] = TRUE]
        /\ failed' \in BOOLEAN
        /\ led' = [s \in Sides |-> led'[s]] /\ engine' = [e \in {1, 2} |-> engine'[e]]
    BY <2>1, <1>2, SetKeeps
  <2>4. flag'["notification"]
    BY <1>2, <2>3 DEF LightsInv
  <2>5. CASE steps = set_navled(Lit)
    <3>1. todo' = <<Write("left", Lit), Write("right", Lit), LastStep>>
      BY <2>3, <2>5, Begun
    <3>2. Wanted(Lit)'
      BY <2>4 DEF Wanted
    <3>3. Writing'
      BY <3>1, <3>2 DEF Writing
    <3> QED
      BY <2>3, <3>3 DEF LightsInv
  <2>6. ASSUME NEW p \in Programs, steps = program_notification_led(p) PROVE LightsInv'
    <3>1. todo' = <<Download(p), Start(2), Start(1), LastStep>>
      BY <2>3, <2>6, Begun
    <3>2. Programming'
      BY <2>4, <3>1 DEF Programming
    <3> QED
      BY <2>3, <3>2 DEF LightsInv
  <2> QED
    BY <2>1, <2>5, <2>6
<1>3. CASE ~lit
  <2> DEFINE more == IF flag["button"] \/ flag["battery"] THEN set_navled(Lit) ELSE <<>>
             steps == reset_notification_led \o more
  <2>1. Set("notification", FALSE, steps)
    BY <1>3 DEF set_light_notifications
  <2> HIDE DEF steps
  <2>3. /\ todo' = Append(steps, LastStep)
        /\ flag' \in [Lights -> BOOLEAN] /\ flag' = [flag EXCEPT !["notification"] = FALSE]
        /\ failed' \in BOOLEAN
        /\ led' = [s \in Sides |-> led'[s]] /\ engine' = [e \in {1, 2} |-> engine'[e]]
    BY <2>1, <1>2, SetKeeps
  <2>4. ~flag'["notification"] /\ (Needed' <=> (flag["button"] \/ flag["battery"]))
    BY <1>2, <2>3 DEF LightsInv, Needed
  <2>5. todo' = IF Needed'
                THEN <<Download("reset"), Start(1), Stop(1), Stop(2), Wait, Lefts, Rights,
                       LastStep>>
                ELSE <<Download("reset"), Start(1), Stop(1), Stop(2), Wait, LastStep>>
    <3>1. CASE flag["button"] \/ flag["battery"]
      BY <2>3, <2>4, <3>1, Begun DEF steps
    <3>2. CASE ~(flag["button"] \/ flag["battery"])
      BY <2>3, <2>4, <3>2, Begun DEF steps
    <3> QED
      BY <3>1, <3>2
  <2>6. Resetting'
    BY <2>4, <2>5 DEF Resetting, Lefts, Rights, Start, Stop, Wait, Write, Ioctl, Download,
                      LastStep
  <2> QED
    BY <2>3, <2>6 DEF LightsInv
<1> QED
  BY <1>1, <1>3

\* A LED that is written takes the value that is wanted; after the second both
\* have it.
LEMMA WriteKeeps ==
  ASSUME LightsInv, WriteLed
  PROVE  LightsInv'
<1>1. /\ flag' = flag /\ flag' \in [Lights -> BOOLEAN] /\ engine' = engine /\ loaded' = loaded
      /\ engine' = [e \in {1, 2} |-> engine'[e]]
      /\ todo' = Tail(todo) /\ Head(todo).do = "write"
  BY DEF LightsInv, WriteLed
<1>2. failed' \in BOOLEAN /\ led' = [s \in Sides |-> led'[s]]
  BY DEF LightsInv, WriteLed
<1>3. ASSUME ~failed' PROVE Settling' \/ Writing'
  <2>1. ~failed /\ led' = [led EXCEPT ![Head(todo).side] = Head(todo).value]
    BY <1>3 DEF WriteLed
  <2>2. ~Programming
    BY <1>1, Heads DEF Programming, Start, Ioctl, Download
  <2>3. ASSUME Resetting PROVE Head(todo).do \in {"download", "start", "stop", "wait"}
    BY <2>3, Heads DEF Resetting, Start, Stop, Wait, Ioctl, Download
  <2>4. ~Settling
    BY <1>1, Heads DEF Settling, LastStep, WriteLed
  <2>5. Writing
    BY <1>1, <2>1, <2>2, <2>3, <2>4 DEF LightsInv
  <2>6. PICK v \in {0, Lit} :
          /\ Wanted(v)
          /\ \/ todo = <<Write("left", v), Write("right", v), LastStep>>
             \/ todo = <<Write("right", v), LastStep>> /\ led["left"] = v
    BY <2>5 DEF Writing
  <2>7. Wanted(v)'
    BY <1>1, <2>6 DEF Wanted, EnginesOff, Needed
  <2>8. led = [s \in {"left", "right"} |-> led[s]]
    BY DEF LightsInv, Sides
  <2>9. CASE todo = <<Write("left", v), Write("right", v), LastStep>>
    <3>1. todo' = <<Write("right", v), LastStep>> /\ Head(todo) = Write("left", v)
      BY <1>1, <2>9, Tails, Heads
    <3>2. led'["left"] = v
      BY <2>1, <2>8, <3>1 DEF Write
    <3> QED
      BY <2>7, <3>1, <3>2 DEF Writing
  <2>10. CASE todo = <<Write("right", v), LastStep>> /\ led["left"] = v
    <3>1. todo' = <<LastStep>> /\ Head(todo) = Write("right", v)
      BY <1>1, <2>10, Tails, Heads
    <3>2. led'["left"] = v /\ led'["right"] = v
      BY <2>1, <2>8, <2>10, <3>1 DEF Write
    <3>3. Shown'
      BY <2>7, <3>2 DEF Shown, Wanted, EnginesOff, Needed, Sides
    <3> QED
      BY <3>1, <3>3 DEF Settling
  <2> QED
    BY <2>6, <2>9, <2>10
<1> QED
  BY <1>1, <1>2, <1>3 DEF LightsInv

\* What the lm8502 does with a step.
LEMMA ProgramKeeps ==
  ASSUME LightsInv, ProgramLed
  PROVE  LightsInv'
<1>1. flag' = flag /\ flag' \in [Lights -> BOOLEAN] /\ todo # <<>> /\ IsIoctl(Head(todo))
  BY DEF LightsInv, ProgramLed
<1>2. failed' \in BOOLEAN /\ (~failed' => Engines(Head(todo)) /\ todo' = Tail(todo) /\ ~failed)
  <2>1. CASE Engines(Head(todo)) /\ todo' = Tail(todo) /\ UNCHANGED failed
    BY <2>1 DEF LightsInv
  <2>2. CASE failed' = TRUE
    BY <2>2
  <2> QED
    BY <2>1, <2>2 DEF ProgramLed
<1>3. led' = [s \in Sides |-> led'[s]] /\ engine' = [e \in {1, 2} |-> engine'[e]]
  BY DEF LightsInv, ProgramLed, Engines
<1>e. led = [s \in Sides |-> led[s]] /\ engine = [e \in {1, 2} |-> engine[e]]
  BY DEF LightsInv
<1>4. \A e \in {1, 2} :
        /\ Engines(Start(e)) =>
             /\ engine' = [i \in {1, 2} |-> IF i = e THEN loaded ELSE engine[i]]
             /\ loaded' = loaded
             /\ led' = IF loaded = "reset" THEN [s \in Sides |-> 0] ELSE led
        /\ Engines(Stop(e)) =>
             /\ engine' = [i \in {1, 2} |-> IF i = e THEN "none" ELSE engine[i]]
             /\ led' = led /\ loaded' = loaded
  BY DEF Engines, Start, Stop, Ioctl
<1>5. /\ \A p : Engines(Download(p)) => loaded' = p /\ led' = led /\ engine' = engine
      /\ Engines(Wait) => led' = led /\ engine' = engine /\ loaded' = loaded
  BY DEF Engines, Download, Wait, Ioctl
<1>6. ASSUME ~failed' PROVE Settling' \/ Writing' \/ Programming' \/ Resetting'
  <2>1. ~failed /\ Engines(Head(todo)) /\ todo' = Tail(todo)
    BY <1>2, <1>6
  <2>2. ~Settling /\ ~Writing
    BY <1>1, Heads DEF Settling, Writing, IsIoctl, Write, LastStep
  <2>3. ASSUME Programming PROVE Settling' \/ Programming'
    <3>1. PICK p \in Programs :
            \/ todo = <<Download(p), Start(2), Start(1), LastStep>>
            \/ todo = <<Start(2), Start(1), LastStep>> /\ loaded = p
            \/ todo = <<Start(1), LastStep>> /\ loaded = p /\ engine[2] = p
      BY <2>3 DEF Programming
    <3>2. flag'["notification"]
      BY <1>1, <2>3 DEF Programming
    <3>3. CASE todo = <<Download(p), Start(2), Start(1), LastStep>>
      <4>1. Head(todo) = Download(p) /\ todo' = <<Start(2), Start(1), LastStep>>
        BY <2>1, <3>3, Heads, Tails
      <4> QED
        BY <1>5, <2>1, <3>2, <4>1 DEF Programming
    <3>4. CASE todo = <<Start(2), Start(1), LastStep>> /\ loaded = p
      <4>1. Head(todo) = Start(2) /\ todo' = <<Start(1), LastStep>>
        BY <2>1, <3>4, Heads, Tails
      <4>2. loaded' = p /\ engine'[2] = p
        BY <1>4, <2>1, <3>4, <4>1
      <4> QED
        BY <3>2, <4>1, <4>2 DEF Programming
    <3>5. CASE todo = <<Start(1), LastStep>> /\ loaded = p /\ engine[2] = p
      <4>1. Head(todo) = Start(1) /\ todo' = <<LastStep>>
        BY <2>1, <3>5, Heads, Tails
      <4>2. engine'[1] = p /\ engine'[2] = p
        BY <1>4, <2>1, <3>5, <4>1
      <4> QED
        BY <3>2, <4>1, <4>2 DEF Settling, Shown
    <3> QED
      BY <3>1, <3>3, <3>4, <3>5
  <2>4. ASSUME Resetting PROVE Settling' \/ Writing' \/ Resetting'
    <3>1. ~flag'["notification"] /\ (Needed' <=> Needed)
      BY <1>1, <2>4 DEF Resetting, Needed
    <3> DEFINE tail == IF Needed THEN <<Lefts, Rights, LastStep>> ELSE <<LastStep>>
    <3>2. CASE todo = IF Needed
                      THEN <<Download("reset"), Start(1), Stop(1), Stop(2), Wait, Lefts,
                             Rights, LastStep>>
                      ELSE <<Download("reset"), Start(1), Stop(1), Stop(2), Wait, LastStep>>
      <4>1. /\ Head(todo) = Download("reset")
            /\ todo' = IF Needed
                       THEN <<Start(1), Stop(1), Stop(2), Wait, Lefts, Rights, LastStep>>
                       ELSE <<Start(1), Stop(1), Stop(2), Wait, LastStep>>
        BY <2>1, <3>2, Heads, Tails
      <4>2. loaded' = "reset"
        BY <1>5, <2>1, <4>1
      <4> QED
        BY <3>1, <4>1, <4>2 DEF Resetting
    <3>3. CASE /\ todo = IF Needed
                         THEN <<Start(1), Stop(1), Stop(2), Wait, Lefts, Rights, LastStep>>
                         ELSE <<Start(1), Stop(1), Stop(2), Wait, LastStep>>
               /\ loaded = "reset"
      <4>1. /\ Head(todo) = Start(1)
            /\ todo' = IF Needed THEN <<Stop(1), Stop(2), Wait, Lefts, Rights, LastStep>>
                       ELSE <<Stop(1), Stop(2), Wait, LastStep>>
        BY <2>1, <3>3, Heads, Tails
      <4>2. Dark'
        BY <1>4, <2>1, <3>3, <4>1 DEF Dark
      <4> QED
        BY <3>1, <4>1, <4>2 DEF Resetting
    <3>4. CASE /\ todo = IF Needed THEN <<Stop(1), Stop(2), Wait, Lefts, Rights, LastStep>>
                         ELSE <<Stop(1), Stop(2), Wait, LastStep>>
               /\ Dark
      <4>1. /\ Head(todo) = Stop(1)
            /\ todo' = IF Needed THEN <<Stop(2), Wait, Lefts, Rights, LastStep>>
                       ELSE <<Stop(2), Wait, LastStep>>
        BY <2>1, <3>4, Heads, Tails
      <4>2. Dark' /\ engine'[1] = "none"
        BY <1>4, <2>1, <3>4, <4>1 DEF Dark
      <4> QED
        BY <3>1, <4>1, <4>2 DEF Resetting
    <3>5. CASE /\ todo = IF Needed THEN <<Stop(2), Wait, Lefts, Rights, LastStep>>
                         ELSE <<Stop(2), Wait, LastStep>>
               /\ Dark /\ engine[1] = "none"
      <4>1. /\ Head(todo) = Stop(2)
            /\ todo' = IF Needed THEN <<Wait, Lefts, Rights, LastStep>> ELSE <<Wait, LastStep>>
        BY <2>1, <3>5, Heads, Tails
      <4>2. Dark' /\ EnginesOff'
        BY <1>4, <2>1, <3>5, <4>1 DEF Dark, EnginesOff
      <4> QED
        BY <3>1, <4>1, <4>2 DEF Resetting
    <3>6. CASE /\ todo = IF Needed THEN <<Wait, Lefts, Rights, LastStep>> ELSE <<Wait, LastStep>>
               /\ Dark /\ EnginesOff
      <4>1. /\ Head(todo) = Wait
            /\ todo' = tail
        BY <2>1, <3>6, Heads, Tails
      <4>2. Dark' /\ EnginesOff'
        BY <1>5, <2>1, <3>6, <4>1 DEF Dark, EnginesOff
      <4>3. CASE Needed
        <5>1. todo' = <<Write("left", Lit), Write("right", Lit), LastStep>>
          BY <4>1, <4>3 DEF Lefts, Rights
        <5>2. Wanted(Lit)'
          BY <3>1, <4>2, <4>3 DEF Wanted
        <5> QED
          BY <5>1, <5>2 DEF Writing
      <4>4. CASE ~Needed
        <5>1. todo' = <<LastStep>>
          BY <4>1, <4>4
        <5>2. Shown'
          BY <3>1, <4>2, <4>4 DEF Shown, Dark
        <5> QED
          BY <5>1, <5>2 DEF Settling
      <4> QED
        BY <4>3, <4>4
    <3> QED
      BY <2>4, <3>2, <3>3, <3>4, <3>5, <3>6 DEF Resetting
  <2> QED
    BY <2>1, <2>2, <2>3, <2>4 DEF LightsInv
<1> QED
  BY <1>1, <1>2, <1>3, <1>6 DEF LightsInv

\* The lock is released only when there is nothing more to do.
LEMMA UnlockKeeps ==
  ASSUME LightsInv, Unlock
  PROVE  LightsInv'
<1>1. /\ flag' = flag /\ led' = led /\ engine' = engine /\ loaded' = loaded /\ failed' = failed
      /\ todo' = <<>> /\ todo # <<>> /\ Head(todo).do = "unlock"
  BY DEF Unlock, LastStep
<1>2. ~Writing /\ ~Programming
  BY <1>1, Heads DEF Writing, Programming, Write, Download, Start, Ioctl
<1>3. ~Resetting
  <2>1. ASSUME Resetting PROVE Head(todo).do \in {"download", "start", "stop", "wait"}
    BY <2>1, Heads DEF Resetting, Start, Stop, Wait, Ioctl, Download
  <2> QED
    BY <1>1, <2>1
<1>4. Settling => Settling'
  BY <1>1 DEF Settling, Shown, EnginesOff, Needed
<1> QED
  BY <1>1, <1>2, <1>3, <1>4 DEF LightsInv

\* For every brightness, whatever lights are set in whatever order and whatever
\* failed: when the lock is free the LEDs show what was set last, unless something
\* has failed since the notification was last switched off.  The lights that do
\* not write rely on what the others have left, which the invariant says.
THEOREM LedsAlwaysShow == LightsSpec => []LedShowsLights
<1>1. LightsInit => LightsInv
  BY DEF LightsInit, LightsInv, Settling, Shown, EnginesOff, Needed, Lights, Sides
<1>2. LightsInv /\ [LightsNext]_lightsVars => LightsInv'
  <2> SUFFICES ASSUME LightsInv, [LightsNext]_lightsVars PROVE LightsInv'
    OBVIOUS
  <2>1. CASE \E lit \in BOOLEAN : set_light_buttons(lit)
    BY <2>1, ButtonsKeep
  <2>2. CASE \E lit \in BOOLEAN : set_light_notifications(lit)
    BY <2>2, NotificationsKeep
  <2>3. CASE \E lit \in BOOLEAN : set_light_battery(lit)
    BY <2>3, BatteryKeeps
  <2>4. CASE WriteLed
    BY <2>4, WriteKeeps
  <2>5. CASE ProgramLed
    BY <2>5, ProgramKeeps
  <2>6. CASE Unlock
    BY <2>6, UnlockKeeps
  <2>7. CASE UNCHANGED lightsVars
    BY <2>7 DEF lightsVars, LightsInv, Settling, Writing, Programming, Resetting, Shown, Wanted,
                EnginesOff, Needed, Dark
  <2> QED
    BY <2>1, <2>2, <2>3, <2>4, <2>5, <2>6, <2>7 DEF LightsNext
<1>3. LightsInv => LedShowsLights
  BY FreeShows DEF LedShowsLights, Shown, EnginesOff, Needed
<1> QED
  BY <1>1, <1>2, <1>3, PTL DEF LightsSpec

=============================================================================
