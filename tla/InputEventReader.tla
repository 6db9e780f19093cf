-------------------------- MODULE InputEventReader --------------------------
(***************************************************************************)
(* The circular buffer between an input device and its sensor              *)
(* (libsensors/InputEventReader.cpp).  The buffer has twice the room it     *)
(* gives out: a read goes to mHead in one piece and what lies beyond        *)
(* mBufferEnd is copied to the front afterwards.                            *)
(*                                                                         *)
(* A reader is a record, with pointers as offsets into mBuffer:             *)
(*   numEvents, mBuffer, mHead, mCurr, mFreeSpace.                          *)
(***************************************************************************)
EXTENDS Integers, Sequences

NewReader(numEvents, event) ==
  [numEvents |-> numEvents, mBuffer |-> [p \in 0 .. 2 * numEvents - 1 |-> event],
   mHead |-> 0, mCurr |-> 0, mFreeSpace |-> numEvents]

\* read(fd, mHead, ...): the events, in one piece.
Read(r, events) ==
  [p \in DOMAIN r.mBuffer |->
     IF p >= r.mHead /\ p < r.mHead + Len(events) THEN events[p - r.mHead + 1] ELSE r.mBuffer[p]]

\* The end of the buffer is taken for an overrun.
Wrapped_early(r, buffer, head) ==
  IF head < r.numEvents THEN [buffer |-> buffer, head |-> head]
  ELSE [buffer |-> [p \in DOMAIN buffer |->
                      IF p < head - r.numEvents THEN buffer[r.numEvents + p] ELSE buffer[p]],
        head |-> head - r.numEvents + 1]

\* What was read beyond mBufferEnd goes to the front.  A head that is exactly
\* at the end stays there: the next read begins beyond the end.
Wrapped(r, buffer, head) ==
  IF head <= r.numEvents THEN [buffer |-> buffer, head |-> head]
  ELSE [buffer |-> [p \in DOMAIN buffer |->
                      IF p < head - r.numEvents THEN buffer[r.numEvents + p] ELSE buffer[p]],
        head |-> head - r.numEvents]

\* fill, when the device has these events for it, mFreeSpace of them at most.
fill(r, events) ==
  LET w == Wrapped(r, Read(r, events), r.mHead + Len(events))
  IN [r EXCEPT !.mBuffer = w.buffer, !.mHead = w.head, !.mFreeSpace = @ - Len(events)]

\* readEvent: how many there are, and the next one.
Available(r) == r.numEvents - r.mFreeSpace
Current(r) == r.mBuffer[r.mCurr]

next(r) ==
  [r EXCEPT !.mCurr = IF @ + 1 >= r.numEvents THEN 0 ELSE @ + 1, !.mFreeSpace = @ + 1]

-----------------------------------------------------------------------------
(* What the reader stands for.                                              *)

\* The place of the i-th event from the current one in a buffer of n.
Place(n, curr, i) == IF curr + i - 1 < n THEN curr + i - 1 ELSE curr + i - 1 - n

\* The events that have been filled in and not passed over by next.
Unread(r) == [i \in 1 .. Available(r) |-> r.mBuffer[Place(r.numEvents, r.mCurr, i)]]

\* The head is as far ahead of the current event as there are events, a full
\* turn of the buffer more or less.
ReaderOK(r, n, Event) ==
  /\ r \in [numEvents : {n}, mBuffer : [0 .. 2 * n - 1 -> Event],
            mHead : 0 .. n, mCurr : 0 .. n - 1, mFreeSpace : 0 .. n]
  /\ r.mHead - r.mCurr - Available(r) \in {0, -n, n}

=============================================================================
