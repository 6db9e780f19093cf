------------------------------ MODULE Sensors ------------------------------
(***************************************************************************)
(* The sensors HAL (libsensors): one thread in pollEvents, which reads four  *)
(* drivers, and an application that switches sensors on and off meanwhile.   *)
(*                                                                         *)
(* The accelerometer and the magnetometer report every sample, the light    *)
(* sensor changes only; all three read an input device through a circular   *)
(* buffer (InputEventReader).  The gyroscope and its thermometer share the  *)
(* MPL library.  A sample is a number, an input event of it that number,    *)
(* and Syn ends it; the axes of a sample are one event.                     *)
(***************************************************************************)
EXTENDS InputEventReader, SequencesExt

CONSTANTS
  Size,       \* numEvents of the readers: 32, 32 and 4 in the code
  Count,      \* events a call of poll has room for
  Errno,      \* what a failing read returns, negated
  MaxSamples, \* bound: samples of each driver
  MaxCalls,   \* bound: calls of activate
  MaxErrors   \* bound: failing calls of poll

ASSUME SensorsAssumption ==
  /\ Size \in [{"acc", "mag", "light"} -> Nat \ {0}] /\ Count \in Nat \ {0}
  /\ Errno \in Nat \ {0} /\ MaxCalls \in Nat /\ MaxErrors \in Nat
  /\ MaxSamples \in [{"acc", "mag", "light", "gyro"} -> Nat]

VARIABLES
  on,         \* the sensor is switched on (mEnabled)
  kernel,     \* input events the thread has not read
  made,       \* bound: samples made
  reader,     \* mInputReader
  pend,       \* mPendingEvent
  light,      \* mPreviousLight and mEventsSinceEnable
  gyro,       \* irq: the fd is readable; new: mNewData; pending: mPendingMask
  revents,    \* POLLIN of mPollFds
  wake,       \* bytes in the wake pipe
  pc, at, count, got, data,  \* pollEvents: where, i, count, numEventReceived, what it has written
  out,        \* what the last call of poll had written when it ended, by driver
  errors,     \* calls of poll that ended with an error
  app,        \* activate: where, and of which sensor
  calls       \* bound: calls of activate made

pollVars == <<pc, at, count, got, data, out, errors>>
vars == <<on, kernel, made, reader, pend, light, gyro, revents, wake, pollVars, app, calls>>

Drivers == <<"acc", "mag", "light", "gyro">>
Lsm == {"acc", "mag"}
Readers == Lsm \cup {"light"}
Mpl == {"gyroscope", "temperature"}
Handles == Readers \cup Mpl

Syn == 0
None == -1

-----------------------------------------------------------------------------
(* The devices (external).                                                  *)

MplOn == {h \in Mpl : on[h]}

NewSample(s) == IF s = "light" THEN 1 + made[s] \div 2 ELSE made[s] + 1

\* An input device that is on makes a sample.
MakeSample(s) ==
  /\ on[s] /\ made[s] < MaxSamples[s]
  /\ made' = [made EXCEPT ![s] = @ + 1]
  /\ kernel' = [kernel EXCEPT ![s] = @ \o <<NewSample(s), Syn>>]
  /\ UNCHANGED <<on, reader, pend, light, gyro, revents, wake, pollVars, app, calls>>

\* The DMP raises its interrupt.
Interrupt ==
  /\ MplOn # {} /\ made["gyro"] < MaxSamples["gyro"]
  /\ made' = [made EXCEPT !["gyro"] = @ + 1]
  /\ gyro' = [gyro EXCEPT !.irq = TRUE, !.fifo = TRUE]
  /\ UNCHANGED <<on, kernel, reader, pend, light, revents, wake, pollVars, app, calls>>

-----------------------------------------------------------------------------
(* activate, by another thread.                                             *)

Idle == [at |-> "idle", handle |-> "none"]
Then(h, en) == IF en THEN [at |-> "wake", handle |-> h] ELSE Idle

\* Lsm303dlhGSensor::enable and the magnetometer's: a state that is set is not
\* set again.  One that fails changes nothing and wakes nobody.
EnableLsm(s, en) ==
  /\ app.at = "idle" /\ calls < MaxCalls
  /\ on' = [on EXCEPT ![s] = en]
  /\ app' = Then(s, en) /\ calls' = calls + 1
  /\ UNCHANGED <<kernel, made, reader, pend, light, gyro, revents, wake, pollVars>>

\* LightSensor::enable forgets what was reported, whatever the state, ...
ResetLight(en) ==
  /\ app.at = "idle" /\ calls < MaxCalls
  /\ light' = [previous |-> None, since |-> 0]
  /\ app' = [at |-> IF en THEN "lightOn" ELSE "lightOff", handle |-> "light"]
  /\ calls' = calls + 1
  /\ UNCHANGED <<on, kernel, made, reader, pend, gyro, revents, wake, pollVars>>

\* ... and then switches the device, without a lock.
EnableLight ==
  /\ app.at \in {"lightOn", "lightOff"}
  /\ LET en == app.at = "lightOn"
     IN on' = [on EXCEPT !["light"] = en] /\ app' = Then("light", en)
  /\ UNCHANGED <<kernel, made, reader, pend, light, gyro, revents, wake, pollVars, calls>>

\* Its files cannot be opened: what was reported is forgotten all the same.
EnableLightFails ==
  /\ app.at \in {"lightOn", "lightOff"} /\ on["light"] # (app.at = "lightOn")
  /\ app' = Idle
  /\ UNCHANGED <<on, kernel, made, reader, pend, light, gyro, revents, wake, pollVars, calls>>

\* MPLSensor::enable and setPowerStates, under mMplMutex: the DMP runs while
\* either sensor is on; when it stops its interrupt is cleared.
EnableMpl(h, en) ==
  /\ app.at = "idle" /\ calls < MaxCalls
  /\ on' = [on EXCEPT ![h] = en]
  /\ gyro' = IF ~en /\ MplOn = {h} THEN [gyro EXCEPT !.irq = FALSE, !.fifo = FALSE] ELSE gyro
  /\ app' = Then(h, en) /\ calls' = calls + 1
  /\ UNCHANGED <<kernel, made, reader, pend, light, revents, wake, pollVars>>

\* A sensor that has been switched on wakes the thread.
WakeUp ==
  /\ app.at = "wake" /\ app' = Idle /\ wake' = wake + 1
  /\ UNCHANGED <<on, kernel, made, reader, pend, light, gyro, revents, pollVars, calls>>

-----------------------------------------------------------------------------
(* readEvents.                                                              *)

Smaller(a, b) == IF a < b THEN a ELSE b

\* read on the input device, which blocks while it has nothing: as many events
\* as there are and there is room for.
CanFill(s) == reader[s].mFreeSpace = 0 \/ kernel[s] # <<>>
Filled(s) == Smaller(Len(kernel[s]), reader[s].mFreeSpace)

\* FIRST_GOOD_EVENT is 1.
Good(since) == since >= 1

\* A driver that poll reported reads, at first into its buffer.
Due(s) == pc = "scan" /\ count > 0 /\ at <= Len(Drivers) /\ Drivers[at] = s /\ revents[s]

Fill(s) ==
  /\ Due(s) /\ CanFill(s)
  /\ LET k == Filled(s)
     IN /\ reader' = [reader EXCEPT ![s] = fill(@, SubSeq(kernel[s], 1, k))]
        /\ kernel' = [kernel EXCEPT ![s] = SubSeq(@, k + 1, Len(@))]
  /\ pc' = "read" /\ got' = 0
  /\ UNCHANGED <<on, made, pend, light, gyro, revents, wake, at, count, data, out, errors,
                 app, calls>>

\* The read fails.  The driver is not due any more, though its reader may hold
\* events; the room grows by the error's number and the place for the next event
\* moves back, before the caller's array if little has been written.  From there
\* on nothing can be said of the thread: it ends here.
FillFails(s) ==
  /\ Due(s) /\ reader[s].mFreeSpace > 0
  /\ revents' = [revents EXCEPT ![s] = FALSE] /\ count' = count + Errno /\ at' = at + 1
  /\ pc' = "lost"
  /\ UNCHANGED <<on, kernel, made, reader, pend, light, gyro, wake, got, data, out, errors,
                 app, calls>>

\* while (count && mInputReader.readEvent(&event))
More(s) == got < count /\ Available(reader[s]) > 0

NextEvent(s, event) ==
  /\ pc = "read" /\ Drivers[at] = s /\ More(s) /\ Current(reader[s]) = event
  /\ reader' = [reader EXCEPT ![s] = next(@)]
  /\ UNCHANGED <<on, kernel, made, gyro, revents, wake, pc, at, count, out, errors, app, calls>>

Value(s) ==
  LET event == Current(reader[s])
  IN
    /\ NextEvent(s, event) /\ event # Syn
    /\ pend' = [pend EXCEPT ![s] = event]
    /\ light' = IF s = "light" /\ ~Good(light.since) THEN [light EXCEPT !.since = @ + 1] ELSE light
    /\ UNCHANGED <<data, got>>

\* A sample is complete; the light sensor reports it if it is new.
Reported(s) ==
  s = "light" => on[s] /\ pend[s] # light.previous /\ Good(light.since)

Sample(s) ==
  /\ NextEvent(s, Syn) /\ Reported(s)
  /\ data' = Append(data, [s |-> s, v |-> pend[s]]) /\ got' = got + 1
  /\ light' = IF s = "light" THEN [light EXCEPT !.previous = pend[s]] ELSE light
  /\ UNCHANGED pend

NoSample(s) == NextEvent(s, Syn) /\ ~Reported(s) /\ UNCHANGED <<pend, light, data, got>>

\* A driver is taken to have no more although the room is used up.
After_always(s, n) == revents' = [revents EXCEPT ![s] = FALSE]

\* pollEvents after readEvents: a driver that wrote less than there was room for
\* has no more.
After(s, n) == revents' = IF n < count THEN [revents EXCEPT ![s] = FALSE] ELSE revents

Back(s, n) ==
  /\ After(s, n)
  /\ count' = count - n /\ at' = at + 1 /\ pc' = "scan" /\ got' = 0
  /\ UNCHANGED <<out, errors>>

Done(s) ==
  /\ pc = "read" /\ Drivers[at] = s /\ ~More(s)
  /\ Back(s, got)
  /\ UNCHANGED <<on, kernel, made, reader, pend, light, gyro, wake, data, app, calls>>

\* MPLSensor::readEvents clears the interrupt and lets the library read its
\* fifo, whose callback sets mNewData.
UpdateMpl ==
  /\ Due("gyro")
  /\ gyro' = [gyro EXCEPT !.irq = FALSE, !.fifo = FALSE, !.new = @ \/ gyro.fifo]
  /\ pc' = "mpl"
  /\ UNCHANGED <<on, kernel, made, reader, pend, light, revents, wake, at, count, got, data,
                 out, errors, app, calls>>

\* Without new data nothing is written, not even what is pending; the mutex has
\* been free in between.
ReadMpl ==
  /\ pc = "mpl"
  /\ LET pending == gyro.pending \cup MplOn
         room == count > 1 \/ "gyroscope" \notin pending \cap MplOn
         taken == IF room THEN pending ELSE pending \cap {"gyroscope"}
         event(h) == IF h \in taken \cap MplOn THEN <<[s |-> "gyro", v |-> h]>> ELSE <<>>
         written == event("gyroscope") \o event("temperature")
     IN IF gyro.new
        THEN /\ gyro' = [gyro EXCEPT !.new = FALSE, !.pending = pending \ taken]
             /\ data' = data \o written
             /\ Back("gyro", Len(written))
        ELSE UNCHANGED <<gyro, data>> /\ Back("gyro", 0)
  /\ UNCHANGED <<on, kernel, made, reader, pend, light, wake, app, calls>>

-----------------------------------------------------------------------------
(* pollEvents.                                                              *)

Call ==
  /\ pc = "idle" /\ pc' = "scan" /\ at' = 1 /\ count' = Count /\ data' = <<>>
  /\ UNCHANGED <<on, kernel, made, reader, pend, light, gyro, revents, wake, got, out, errors,
                 app, calls>>

\* A driver that poll did not report is passed over.
Skip ==
  /\ pc = "scan" /\ count > 0 /\ at <= Len(Drivers) /\ ~revents[Drivers[at]]
  /\ at' = at + 1
  /\ UNCHANGED <<on, kernel, made, reader, pend, light, gyro, revents, wake, pc, count, got,
                 data, out,
                 errors, app, calls>>

Readable(s) == IF s = "gyro" THEN gyro.irq ELSE kernel[s] # <<>>

\* poll waits although there is something to return.
Poll_waits ==
  /\ pc = "scan" /\ count > 0 /\ at > Len(Drivers)
  /\ LET ready == {s \in ToSet(Drivers) : Readable(s)}
     IN /\ ready # {} \/ wake > 0
        /\ revents' = [s \in ToSet(Drivers) |-> s \in ready]
        /\ wake' = IF wake > 0 THEN wake - 1 ELSE 0
  /\ at' = 1
  /\ UNCHANGED <<on, kernel, made, reader, pend, light, gyro, pc, count, got, data, out,
                 errors, app, calls>>

\* poll: at once if there is something to return already, else when there is
\* something to read.  It answers for every driver anew.
Poll ==
  /\ pc = "scan" /\ count > 0 /\ at > Len(Drivers)
  /\ LET ready == {s \in ToSet(Drivers) : Readable(s)}
         n == ready # {} \/ wake > 0
     IN /\ n \/ data # <<>>
        /\ revents' = [s \in ToSet(Drivers) |-> s \in ready]
        /\ wake' = IF wake > 0 THEN wake - 1 ELSE 0
        /\ pc' = IF n THEN "scan" ELSE "return"
  /\ at' = 1
  /\ UNCHANGED <<on, kernel, made, reader, pend, light, gyro, count, got, data, out,
                 errors, app, calls>>

\* What s has written, of the events in d.
ValuesOf(s, d) ==
  LET of[i \in 0 .. Len(d)] ==
        IF i = 0 THEN <<>> ELSE IF d[i].s = s THEN Append(of[i - 1], d[i].v) ELSE of[i - 1]
  IN of[Len(d)]

Ends ==
  /\ pc' = "idle" /\ at' = 1
  /\ out' = [s \in Lsm |-> ValuesOf(s, data)] /\ data' = <<>>
  /\ UNCHANGED <<on, kernel, made, reader, pend, light, gyro, revents, wake, count, got, app,
                 calls>>

Return ==
  /\ \/ pc = "return"
     \/ pc = "scan" /\ count = 0
  /\ Ends /\ UNCHANGED errors

\* poll fails, and so does the call: its caller does not learn how many events
\* have been written.
PollFails ==
  /\ pc = "scan" /\ count > 0 /\ at > Len(Drivers) /\ errors < MaxErrors
  /\ Ends /\ errors' = errors + 1

-----------------------------------------------------------------------------
(* The specification.                                                       *)

Init ==
  /\ on = [h \in Handles |-> h = "light"]
  /\ kernel = [s \in Readers |-> <<>>] /\ made = [s \in ToSet(Drivers) |-> 0]
  /\ reader = [s \in Readers |-> NewReader(Size[s], Syn)]
  /\ pend = [s \in Readers |-> 0]
  /\ light = [previous |-> None, since |-> 0]
  /\ gyro = [irq |-> FALSE, fifo |-> FALSE, new |-> FALSE, pending |-> {}]
  /\ revents = [s \in ToSet(Drivers) |-> FALSE] /\ wake = 0
  /\ pc = "idle" /\ at = 1 /\ count = 0 /\ got = 0 /\ data = <<>>
  /\ out = [s \in Lsm |-> <<>>] /\ errors = 0 /\ app = Idle /\ calls = 0

Activate ==
  \/ \E s \in Lsm, en \in BOOLEAN : EnableLsm(s, en)
  \/ \E en \in BOOLEAN : ResetLight(en)
  \/ EnableLight \/ EnableLightFails
  \/ \E h \in Mpl, en \in BOOLEAN : EnableMpl(h, en)
  \/ WakeUp

PollEvents ==
  \/ Call \/ Skip \/ Poll \/ Return \/ PollFails \/ UpdateMpl \/ ReadMpl
  \/ \E s \in Readers : Fill(s) \/ FillFails(s) \/ Value(s) \/ Sample(s) \/ NoSample(s) \/ Done(s)

Next == Activate \/ PollEvents \/ Interrupt \/ \E s \in Readers : MakeSample(s)

Spec == Init /\ [][Next]_vars

\* The thread runs, and calls poll again and again.
FairSpec == Spec /\ WF_vars(PollEvents)

-----------------------------------------------------------------------------
(* Properties.                                                              *)

\* Samples that a driver has read and not written out are not forgotten: poll
\* cannot see them, so the driver stays marked until it has been asked again
\* ("see if we have some leftover from the last poll()").
\* Until a read fails: that unmarks the driver whatever its reader holds.
LeftoverMarked ==
  pc # "lost" => \A s \in Readers : Available(reader[s]) > 0 => revents[s]

\* The samples in a sequence of input events that ends with a sample, of two
\* events each; the value of the first may have been taken already.
Decode(begun, events) ==
  LET taken == Len(events) % 2
  IN [j \in 1 .. (Len(events) + taken) \div 2 |->
        IF taken = 1 /\ j = 1 THEN begun ELSE events[2 * j - 1 - taken]]

\* The samples of s that no call of poll has returned yet, oldest first.
Undelivered(s) ==
  ValuesOf(s, data) \o Decode(pend[s], Unread(reader[s]) \o kernel[s])

\* Accelerometer and magnetometer: poll hands out every sample once and in
\* order, through the kernel, the circular buffer, reads that end inside a
\* sample, and calls that have no room for all.  What a call has written that
\* ends with an error is gone, and nothing else.
MaxSample == Max({MaxSamples[s] : s \in Lsm})

Fifo == INSTANCE SensorFifo WITH Streams <- Lsm, Samples <- 1 .. MaxSample, Room <- Count,
                                 queue <- [s \in Lsm |-> Undelivered(s)], out <- out,
                                 errors <- errors
InOrder == Fifo!Spec

\* The thread waits in the read of a driver that has nothing to read.
Blocked == \E s \in Readers : Due(s) /\ ~CanFill(s)

\* A sample that has been made is returned, or the thread gets stuck in read, or
\* a read fails.
Served ==
  \A s \in Lsm : (Undelivered(s) # <<>>) ~> (Undelivered(s) = <<>> \/ Blocked \/ pc = "lost")

=============================================================================
