---------------------------- MODULE AudioHalProofs ----------------------------
(***************************************************************************)
(* Proofs about AudioHal, for any threads and any calls they may make, and *)
(* about AudioRoute, for any finite set of line outputs.                   *)
(*                                                                         *)
(* Sound(h) is what every step keeps true of the device; LockInv says who  *)
(* holds which mutex from where each thread is; CallInv what a waiting     *)
(* thread may rely on, which nobody else can change under the mutex it     *)
(* holds.                                                                  *)
(*                                                                         *)
(* For the routes, RouteInv follows the parser through the tags of the     *)
(* file (Parsing), so that each path is known to hold what the file lists, *)
(* and says of every control the routes depend on what it will be once the *)
(* path being applied has been (Will), which each write keeps.             *)
(***************************************************************************)
EXTENDS AudioHal, AudioRoute, FiniteSetTheorems, SequenceTheorems, TLAPS

\* What the device and its streams look like between two steps.
Sound(h) ==
  /\ h \in Hal
  /\ h.active_out <=> ~h.out_standby
  /\ h.active_out <=> Open(h.out_pcm)
  /\ h.active_in <=> ~h.in_standby
  /\ h.active_in <=> Open(h.in_pcm)
  /\ h.speaker <=> h.active_out
  /\ h.active_in => h.mic
  /\ Open(h.out_pcm) /\ Open(h.in_pcm) => h.out_pcm = h.in_pcm
  /\ h.out_standby_pend => h.active_out

\* Where a thread holds which mutex.
HoldsDevice(t) == pc[t] \in {"stream", "active_in", "again", "active_out", "pend"}
HoldsOut(t) == pc[t] \in {"active_in", "again"} \/ (pc[t] = "io" /\ Op(t) = "write")
HoldsIn(t) ==
  \/ pc[t] \in {"again", "active_out", "pend", "sleep"}
  \/ pc[t] = "io" /\ Op(t) # "write"

LockInv ==
  \A t \in Threads :
    /\ holder["adev"] = t <=> HoldsDevice(t)
    /\ holder["out"] = t <=> HoldsOut(t)
    /\ holder["in"] = t <=> HoldsIn(t)

\* What a thread may rely on where it is.
CallInv ==
  \A t \in Threads :
    /\ pc[t] = "io" => IF Op(t) = "write" THEN ~hal.out_standby ELSE ~hal.in_standby
    /\ pc[t] = "active_out" => Op(t) = "read" /\ hal.in_standby
    /\ pc[t] = "pend" => hal.in_standby /\ hal.out_standby_pend

\* A deferred standby waits for the input stream, or for the thread at "pend".
PendInv ==
  hal.out_standby_pend => ~hal.in_standby \/ \E t \in Threads : pc[t] = "pend"

IInv == TypeOK /\ Sound(hal) /\ LockInv /\ CallInv /\ PendInv

-----------------------------------------------------------------------------
(* What the operations on the device do to it.                              *)

\* A standby of the output stream leaves the device sound and the input stream
\* alone; with the input stream in standby it is not deferred.
LEMMA DoOutStandbySound ==
  ASSUME NEW h, Sound(h)
  PROVE  /\ Sound(DoOutStandby(h))
         /\ DoOutStandby(h).in_standby = h.in_standby
         /\ DoOutStandby(h).active_in = h.active_in
         /\ DoOutStandby(h).out_standby_pend => ~h.in_standby
BY DEF Sound, DoOutStandby, Hal, Open, Pcm, Groups

\* Closing the input stream leaves the device sound and the output stream alone.
LEMMA CloseInSound ==
  ASSUME NEW h, Sound(h)
  PROVE  /\ Sound(CloseIn(h))
         /\ CloseIn(h).in_standby
         /\ CloseIn(h).out_standby = h.out_standby
         /\ CloseIn(h).out_standby_pend = h.out_standby_pend
BY DEF Sound, CloseIn, Hal, Open, Pcm, Groups

\* The output stream is only opened when no input stream is active.
LEMMA OpenOutSound ==
  ASSUME NEW h, Sound(h), h.out_standby, ~h.active_in
  PROVE  /\ Sound(OpenOut(h))
         /\ ~OpenOut(h).out_standby
         /\ OpenOut(h).in_standby = h.in_standby
         /\ ~OpenOut(h).out_standby_pend
BY DEF Sound, OpenOut, Hal, Open, Pcm, Groups, Group, Devices

\* start_input_stream leaves no output stream of the other group open.
LEMMA MakeRoomSound ==
  ASSUME NEW h, Sound(h), h.in_standby, ~h.out_standby_pend
  PROVE  /\ Sound(MakeRoom(h))
         /\ MakeRoom(h).in_standby
         /\ MakeRoom(h).active_out => MakeRoom(h).out_pcm = Group(MakeRoom(h).in_device)
         /\ ~MakeRoom(h).out_standby_pend
BY DEF Sound, MakeRoom, DoOutStandby, Hal, Open, Pcm, Groups, Group, Devices

\* The input stream is opened in the group of the output stream, if that is open.
LEMMA OpenInSound ==
  ASSUME NEW h, Sound(h), h.in_standby,
         h.active_out => h.out_pcm = Group(h.in_device)
  PROVE  /\ Sound(OpenIn(h))
         /\ ~OpenIn(h).in_standby
         /\ OpenIn(h).out_standby = h.out_standby
         /\ OpenIn(h).out_standby_pend = h.out_standby_pend
BY DEF Sound, OpenIn, Hal, Open, Pcm, Groups, Group, Devices

\* A stream that could not be opened stays in standby.
LEMMA FailedSound ==
  ASSUME NEW h, Sound(h)
  PROVE  /\ h.out_standby => Sound([h EXCEPT !.out_pcm = "closed"])
         /\ h.in_standby => Sound([h EXCEPT !.in_pcm = "closed"])
BY DEF Sound, Hal, Open, Pcm, Groups

\* Routing changes a device and what select_devices switches on.
LEMMA RouteSound ==
  ASSUME NEW h, Sound(h), NEW d \in Devices
  PROVE  /\ Sound(RouteOut(h, d)) /\ Sound(RouteIn(h, d))
         /\ RouteOut(h, d).in_standby = h.in_standby
         /\ RouteIn(h, d).in_standby = h.in_standby
         /\ RouteOut(h, d).out_standby = h.out_standby
         /\ RouteIn(h, d).out_standby = h.out_standby
         /\ RouteOut(h, d).out_standby_pend = h.out_standby_pend
         /\ RouteIn(h, d).out_standby_pend = h.out_standby_pend
BY DEF Sound, RouteOut, RouteIn, Hal, Open, Pcm, Groups, Devices

-----------------------------------------------------------------------------
(* What a step does to the mutexes.                                         *)

\* Acquires and Passes change the mutexes named, for the thread named, and no
\* other thread holds any of them.
LEMMA MutexEffect ==
  ASSUME TypeOK, NEW t \in Threads, NEW l \in Mutexes, NEW done \in SUBSET Mutexes,
         \A m \in done : holder[m] = t,
         Acquires(t, l, done) \/ Passes(l, done)
  PROVE  /\ holder' \in [Mutexes -> Threads \cup {Free}]
         /\ \A u \in Threads, m \in Mutexes :
              u # t => (holder'[m] = u <=> holder[m] = u)
         /\ \A m \in Mutexes : m # l => (holder'[m] = t <=> holder[m] = t /\ m \notin done)
         /\ Acquires(t, l, done) /\ l \notin done => holder'[l] = t
         /\ Passes(l, done) => holder'[l] # t
<1>1. t # Free /\ \A u \in Threads : u # Free  BY AudioAssumption
<1>2. CASE Acquires(t, l, done)
  <2>1. holder' = [m \in Mutexes |-> IF m = l THEN t
                                     ELSE IF m \in done THEN Free ELSE holder[m]]
    BY <1>2 DEF Acquires
  <2>2. holder[l] = Free  BY <1>2 DEF Acquires
  <2>3. ~Passes(l, done)
    <3>1. holder'[l] = t  BY <2>1
    <3>2. l \notin done  BY <2>2, <1>1
    <3> QED  BY <3>1, <3>2, <2>2, <1>1 DEF Passes
  <2> QED  BY <1>1, <1>2, <2>1, <2>2, <2>3 DEF TypeOK
<1>3. CASE Passes(l, done)
  <2>1. holder' = [m \in Mutexes |-> IF m \in done THEN Free ELSE holder[m]]
    BY <1>3 DEF Passes
  <2>2. holder[l] = Free  BY <1>3 DEF Passes
  <2>3. holder'[l] = Free  BY <2>1, <2>2
  <2> QED  BY <1>1, <1>3, <2>1, <2>2, <2>3 DEF TypeOK, Acquires
<1> QED  BY <1>2, <1>3

\* A step of t keeps LockInv when it does for t what the new place of t asks for.
LEMMA LockStep ==
  ASSUME LockInv, NEW t \in Threads, NEW from, NEW to,
         pc \in [Threads -> Pcs], Goes(t, from, to), call' = call,
         \A u \in Threads, m \in Mutexes :
           u # t => (holder'[m] = u <=> holder[m] = u),
         holder'["adev"] = t <=> HoldsDevice(t)',
         holder'["out"] = t <=> HoldsOut(t)',
         holder'["in"] = t <=> HoldsIn(t)'
  PROVE  LockInv'
BY DEF LockInv, HoldsDevice, HoldsOut, HoldsIn, Goes, Op, Mutexes

\* While t holds the device's mutex nobody else is in the middle of a change.
LEMMA Exclusive ==
  ASSUME LockInv, NEW t \in Threads, holder["adev"] \in {t, Free}
  PROVE  \A u \in Threads \ {t} : ~HoldsDevice(u)
<1> SUFFICES ASSUME NEW u \in Threads \ {t} PROVE ~HoldsDevice(u)
  OBVIOUS
<1>1. u # Free /\ u # t  BY AudioAssumption
<1>2. holder["adev"] # u  BY <1>1
<1> QED  BY <1>2 DEF LockInv

\* While t holds the mutex of a stream, or it is free, nobody else uses its PCM.
LEMMA StreamExclusive ==
  ASSUME LockInv, NEW t \in Threads
  PROVE  /\ holder["out"] \in {t, Free} => \A u \in Threads \ {t} : ~HoldsOut(u)
         /\ holder["in"] \in {t, Free} => \A u \in Threads \ {t} : ~HoldsIn(u)
<1>1. ASSUME NEW u \in Threads \ {t}, holder["out"] \in {t, Free} PROVE ~HoldsOut(u)
  <2>1. u # Free /\ u # t  BY AudioAssumption
  <2> QED  BY <1>1, <2>1 DEF LockInv
<1>2. ASSUME NEW u \in Threads \ {t}, holder["in"] \in {t, Free} PROVE ~HoldsIn(u)
  <2>1. u # Free /\ u # t  BY AudioAssumption
  <2> QED  BY <1>2, <2>1 DEF LockInv
<1> QED  BY <1>1, <1>2

\* What a thread may rely on, for one thread.
Relies(t) ==
  /\ pc[t] = "io" => IF Op(t) = "write" THEN ~hal.out_standby ELSE ~hal.in_standby
  /\ pc[t] = "active_out" => Op(t) = "read" /\ hal.in_standby
  /\ pc[t] = "pend" => hal.in_standby /\ hal.out_standby_pend

\* A step of t that changes the device keeps the invariant, when it has the
\* mutexes for what it changes.
LEMMA DeviceStep ==
  ASSUME IInv, NEW t \in Threads, NEW from, NEW to \in Pcs, Goes(t, from, to),
         call' = call, Sound(hal'), LockInv',
         holder' \in [Mutexes -> Threads \cup {Free}],
         \/ hal' = hal
         \/ /\ \A u \in Threads \ {t} : ~HoldsDevice(u)
            /\ hal'.out_standby =>
                 hal.out_standby \/ \A u \in Threads \ {t} : ~HoldsOut(u)
            /\ hal'.in_standby =>
                 hal.in_standby \/ \A u \in Threads \ {t} : ~HoldsIn(u),
         Relies(t)', PendInv'
  PROVE  IInv'
<1>1. TypeOK'
  BY DEF IInv, TypeOK, Sound, Goes
<1>2. CallInv'
  <2> SUFFICES ASSUME NEW u \in Threads, u # t PROVE Relies(u)'
    BY DEF CallInv, Relies
  <2>1. pc'[u] = pc[u] /\ call'[u] = call[u]  BY DEF Goes, IInv, TypeOK
  <2>2. Relies(u)  BY DEF IInv, CallInv, Relies
  <2>3. CASE hal' = hal  BY <2>1, <2>2, <2>3 DEF Relies, Op
  <2>4. CASE hal' # hal
    <3>1. ~HoldsDevice(u)  BY <2>4
    <3>2. pc[u] # "active_out" /\ pc[u] # "pend"  BY <3>1 DEF HoldsDevice
    <3>3. HoldsOut(u) /\ hal'.out_standby => hal.out_standby  BY <2>4
    <3>4. HoldsIn(u) /\ hal'.in_standby => hal.in_standby  BY <2>4
    <3> QED  BY <2>1, <2>2, <3>2, <3>3, <3>4 DEF Relies, Op, HoldsOut, HoldsIn
  <2> QED  BY <2>3, <2>4
<1> QED  BY <1>1, <1>2 DEF IInv

\* The mutexes of t follow from those it held, the one it takes and those it
\* releases.
LEMMA AcquireStep ==
  ASSUME IInv, NEW t \in Threads, NEW from, NEW to \in Pcs, Goes(t, from, to),
         call' = call, NEW l \in Mutexes, NEW done \in SUBSET Mutexes,
         Acquires(t, l, done), l \notin done, \A m \in done : holder[m] = t,
         HoldsDevice(t)' <=> l = "adev" \/ (HoldsDevice(t) /\ "adev" \notin done),
         HoldsOut(t)' <=> l = "out" \/ (HoldsOut(t) /\ "out" \notin done),
         HoldsIn(t)' <=> l = "in" \/ (HoldsIn(t) /\ "in" \notin done)
  PROVE  LockInv' /\ holder' \in [Mutexes -> Threads \cup {Free}]
<1>1. TypeOK /\ LockInv /\ pc \in [Threads -> Pcs]  BY DEF IInv, TypeOK
<1>2. /\ holder' \in [Mutexes -> Threads \cup {Free}]
      /\ \A u \in Threads, m \in Mutexes : u # t => (holder'[m] = u <=> holder[m] = u)
      /\ \A m \in Mutexes : m # l => (holder'[m] = t <=> holder[m] = t /\ m \notin done)
      /\ holder'[l] = t
  BY <1>1, MutexEffect
<1>3. /\ holder'["adev"] = t <=> HoldsDevice(t)'
      /\ holder'["out"] = t <=> HoldsOut(t)'
      /\ holder'["in"] = t <=> HoldsIn(t)'
  BY <1>1, <1>2 DEF LockInv, Mutexes
<1>4. LockInv'  BY <1>1, <1>2, <1>3, LockStep
<1> QED  BY <1>2, <1>4

\* ... and from those it held and releases, when it only passes one.
LEMMA PassStep ==
  ASSUME IInv, NEW t \in Threads, NEW from, NEW to \in Pcs, Goes(t, from, to),
         call' = call, NEW l \in Mutexes, NEW done \in SUBSET Mutexes,
         Passes(l, done), \A m \in done : holder[m] = t,
         HoldsDevice(t)' <=> HoldsDevice(t) /\ "adev" \notin done,
         HoldsOut(t)' <=> HoldsOut(t) /\ "out" \notin done,
         HoldsIn(t)' <=> HoldsIn(t) /\ "in" \notin done
  PROVE  LockInv' /\ holder' \in [Mutexes -> Threads \cup {Free}]
<1>1. TypeOK /\ LockInv /\ pc \in [Threads -> Pcs]  BY DEF IInv, TypeOK
<1>2. /\ holder' \in [Mutexes -> Threads \cup {Free}]
      /\ \A u \in Threads, m \in Mutexes : u # t => (holder'[m] = u <=> holder[m] = u)
      /\ \A m \in Mutexes : m # l => (holder'[m] = t <=> holder[m] = t /\ m \notin done)
      /\ holder'[l] # t
  BY <1>1, MutexEffect
<1>3. holder[l] # t  BY AudioAssumption DEF Passes
<1>4. /\ holder'["adev"] = t <=> HoldsDevice(t)'
      /\ holder'["out"] = t <=> HoldsOut(t)'
      /\ holder'["in"] = t <=> HoldsIn(t)'
  BY <1>1, <1>2, <1>3 DEF LockInv, Mutexes
<1>5. LockInv'  BY <1>1, <1>2, <1>4, LockStep
<1> QED  BY <1>2, <1>5

-----------------------------------------------------------------------------
(* The steps.                                                               *)

\* A thread is called.
LEMMA CallKeeps ==
  ASSUME IInv, NEW t \in Threads, NEW c \in Calls[t], Call(t, c)
  PROVE  IInv'
<1> USE DEF IInv
<1>1. c \in OutCalls \cup InCalls  BY AudioAssumption
<1>2. TypeOK'  BY <1>1 DEF TypeOK, Call, Goes, Pcs
<1>3. \A u \in Threads : u # t => pc'[u] = pc[u] /\ call'[u] = call[u]
  BY DEF TypeOK, Call, Goes
<1>4. pc[t] = "idle" /\ pc'[t] = "adev"  BY DEF TypeOK, Call, Goes
<1>5. hal' = hal /\ holder' = holder  BY DEF Call
<1>6. LockInv'
  BY <1>3, <1>4, <1>5 DEF LockInv, HoldsDevice, HoldsOut, HoldsIn, Op
<1>7. CallInv'  BY <1>3, <1>4, <1>5 DEF CallInv, Op
<1>8. PendInv'  BY <1>3, <1>4, <1>5 DEF PendInv
<1> QED  BY <1>2, <1>5, <1>6, <1>7, <1>8

\* The device's mutex is taken, or the routing changed at once under it.
LEMMA LockDeviceKeeps ==
  ASSUME IInv, NEW t \in Threads, LockDevice(t)
  PROVE  IInv'
<1> USE DEF IInv
<1>1. pc[t] = "adev" /\ pc \in [Threads -> Pcs]  BY DEF LockDevice, Goes, TypeOK
<1>2. ~HoldsDevice(t) /\ ~HoldsOut(t) /\ ~HoldsIn(t)
  BY <1>1 DEF HoldsDevice, HoldsOut, HoldsIn
<1>3. {} \in SUBSET Mutexes /\ "adev" \in Mutexes /\ {"stream", "idle"} \subseteq Pcs
  BY DEF Mutexes, Pcs
<1>4. CASE /\ Goes(t, "adev", "stream") /\ Acquires(t, "adev", {})
           /\ UNCHANGED <<hal, call>>
  <2>1. pc'[t] = "stream"  BY <1>1, <1>4 DEF Goes
  <2>2. HoldsDevice(t)' /\ ~HoldsOut(t)' /\ ~HoldsIn(t)'
    BY <2>1 DEF HoldsDevice, HoldsOut, HoldsIn
  <2>3. LockInv' /\ holder' \in [Mutexes -> Threads \cup {Free}]
    BY <1>2, <1>3, <1>4, <2>2, AcquireStep
  <2>4. Relies(t)'  BY <2>1 DEF Relies
  <2>5. PendInv'  BY <1>1, <1>4 DEF PendInv, Goes
  <2> QED  BY <1>3, <1>4, <2>3, <2>4, <2>5, DeviceStep
<1>5. CASE /\ Op(t) \in {"out_routing", "in_routing"}
           /\ Goes(t, "adev", "idle") /\ Passes("adev", {})
           /\ hal' = IF ~Reroutes(t) THEN hal
                     ELSE IF Op(t) = "out_routing" THEN RouteOut(hal, Val(t))
                     ELSE RouteIn(hal, Val(t))
           /\ UNCHANGED call
  <2>1. pc'[t] = "idle"  BY <1>1, <1>5 DEF Goes
  <2>2. ~HoldsDevice(t)' /\ ~HoldsOut(t)' /\ ~HoldsIn(t)'
    BY <2>1 DEF HoldsDevice, HoldsOut, HoldsIn
  <2>3. LockInv' /\ holder' \in [Mutexes -> Threads \cup {Free}]
    BY <1>2, <1>3, <1>5, <2>2, PassStep
  <2>4. Val(t) \in Devices
    BY <1>5 DEF TypeOK, Op, Val, OutCalls, InCalls, NoCall
  <2>5. /\ Sound(hal') /\ hal'.in_standby = hal.in_standby
        /\ hal'.out_standby = hal.out_standby
        /\ hal'.out_standby_pend = hal.out_standby_pend
    BY <1>5, <2>4, RouteSound
  <2>6. Relies(t)'  BY <2>1 DEF Relies
  <2>7. PendInv'  BY <1>1, <1>5, <2>5 DEF PendInv, Goes
  <2>8. holder["adev"] = Free  BY <1>5 DEF Passes
  <2>9. \A u \in Threads \ {t} : ~HoldsDevice(u)  BY <2>8, Exclusive
  <2> QED  BY <1>3, <1>5, <2>3, <2>5, <2>6, <2>7, <2>9, DeviceStep
<1> QED  BY <1>4, <1>5 DEF LockDevice

\* out_write: the stream is running, or opened, or cannot be opened.
LEMMA WriteKeeps ==
  ASSUME IInv, NEW t \in Threads, Write(t)
  PROVE  IInv'
<1> USE DEF IInv
<1>1. pc[t] = "stream" /\ pc \in [Threads -> Pcs] /\ Op(t) = "write" /\ call' = call
  BY DEF Write, Goes, TypeOK
<1>2. HoldsDevice(t) /\ ~HoldsOut(t) /\ ~HoldsIn(t) /\ holder["adev"] = t
  BY <1>1 DEF HoldsDevice, HoldsOut, HoldsIn, LockInv
<1>3. /\ {} \in SUBSET Mutexes /\ {"adev"} \in SUBSET Mutexes /\ "out" \in Mutexes
      /\ {"io", "idle", "active_in"} \subseteq Pcs
  BY DEF Mutexes, Pcs
<1>4. \A u \in Threads \ {t} : ~HoldsDevice(u)  BY <1>2, Exclusive
<1>5. ASSUME Acquires(t, "out", {"adev"}), Goes(t, "stream", "io"),
             Sound(hal'), ~hal'.out_standby, hal'.in_standby = hal.in_standby,
             hal'.out_standby_pend => hal.out_standby_pend
      PROVE  IInv'
  <2>1. pc'[t] = "io" /\ Op(t)' = "write"  BY <1>1, <1>5 DEF Goes, Op
  <2>2. ~HoldsDevice(t)' /\ HoldsOut(t)' /\ ~HoldsIn(t)'
    BY <2>1 DEF HoldsDevice, HoldsOut, HoldsIn
  <2>3. LockInv' /\ holder' \in [Mutexes -> Threads \cup {Free}]
    BY <1>1, <1>2, <1>3, <1>5, <2>2, AcquireStep
  <2>4. Relies(t)'  BY <1>5, <2>1 DEF Relies
  <2>5. PendInv'  BY <1>1, <1>5 DEF PendInv, Goes
  <2> QED  BY <1>1, <1>3, <1>4, <1>5, <2>3, <2>4, <2>5, DeviceStep
<1>6. CASE /\ ~hal.out_standby /\ UNCHANGED hal
           /\ Acquires(t, "out", {"adev"}) /\ Goes(t, "stream", "io")
  BY <1>5, <1>6
<1>7. CASE /\ hal.out_standby /\ ~hal.active_in /\ hal' = OpenOut(hal)
           /\ Acquires(t, "out", {"adev"}) /\ Goes(t, "stream", "io")
  BY <1>5, <1>7, OpenOutSound
<1>8. CASE /\ hal.out_standby /\ hal' = [hal EXCEPT !.out_pcm = "closed"]
           /\ Passes("out", {"adev"}) /\ Goes(t, "stream", "idle")
  <2>1. pc'[t] = "idle"  BY <1>1, <1>8 DEF Goes
  <2>2. ~HoldsDevice(t)' /\ ~HoldsOut(t)' /\ ~HoldsIn(t)'
    BY <2>1 DEF HoldsDevice, HoldsOut, HoldsIn
  <2>3. LockInv' /\ holder' \in [Mutexes -> Threads \cup {Free}]
    BY <1>1, <1>2, <1>3, <1>8, <2>2, PassStep
  <2>4. /\ Sound(hal') /\ hal'.out_standby = hal.out_standby
        /\ hal'.in_standby = hal.in_standby
        /\ hal'.out_standby_pend = hal.out_standby_pend
    BY <1>8, FailedSound DEF Sound, Hal
  <2>5. Relies(t)'  BY <2>1 DEF Relies
  <2>6. PendInv'  BY <1>1, <1>8, <2>4 DEF PendInv, Goes
  <2> QED  BY <1>1, <1>3, <1>4, <1>8, <2>3, <2>4, <2>5, <2>6, DeviceStep
<1>9. CASE /\ UNCHANGED hal
           /\ Acquires(t, "out", {}) /\ Goes(t, "stream", "active_in")
  <2>1. pc'[t] = "active_in"  BY <1>1, <1>9 DEF Goes
  <2>2. HoldsDevice(t)' /\ HoldsOut(t)' /\ ~HoldsIn(t)'
    BY <2>1 DEF HoldsDevice, HoldsOut, HoldsIn
  <2>3. LockInv' /\ holder' \in [Mutexes -> Threads \cup {Free}]
    BY <1>1, <1>2, <1>3, <1>9, <2>2, AcquireStep
  <2>4. Relies(t)'  BY <2>1 DEF Relies
  <2>5. PendInv'  BY <1>1, <1>9 DEF PendInv, Goes
  <2> QED  BY <1>1, <1>3, <1>9, <2>3, <2>4, <2>5, DeviceStep
<1> QED  BY <1>6, <1>7, <1>8, <1>9 DEF Write

\* start_output_stream takes the mutex of the active input stream.
LEMMA LockActiveInKeeps ==
  ASSUME IInv, NEW t \in Threads, LockActiveIn(t)
  PROVE  IInv'
<1> USE DEF IInv
<1>1. /\ pc[t] = "active_in" /\ pc \in [Threads -> Pcs] /\ call' = call
      /\ Goes(t, "active_in", "again") /\ Acquires(t, "in", {})
  BY DEF LockActiveIn, Goes, TypeOK
<1>2. HoldsDevice(t) /\ HoldsOut(t) /\ ~HoldsIn(t)
  BY <1>1 DEF HoldsDevice, HoldsOut, HoldsIn
<1>3. {} \in SUBSET Mutexes /\ "in" \in Mutexes /\ "again" \in Pcs
  BY DEF Mutexes, Pcs
<1>4. pc'[t] = "again"  BY <1>1 DEF Goes
<1>5. HoldsDevice(t)' /\ HoldsOut(t)' /\ HoldsIn(t)'
  BY <1>4 DEF HoldsDevice, HoldsOut, HoldsIn
<1>6. LockInv' /\ holder' \in [Mutexes -> Threads \cup {Free}]
  BY <1>1, <1>2, <1>3, <1>5, AcquireStep
<1>7. Relies(t)'  BY <1>4 DEF Relies
<1>8. hal' = hal  BY DEF LockActiveIn
<1>9. PendInv'  BY <1>1, <1>8 DEF PendInv, Goes
<1> QED  BY <1>1, <1>3, <1>6, <1>7, <1>8, <1>9, DeviceStep

\* start_input_stream opens the stream in the group the hardware is left in, or
\* leaves it in standby and its thread asleep.
LEMMA StartInSound ==
  ASSUME NEW h, Sound(h), h.in_standby, ~h.out_standby_pend,
         h.active_out => h.out_pcm = Group(h.in_device),
         NEW t \in Threads, NEW from, StartIn(t, from, h)
  PROVE  /\ Sound(hal')
         /\ hal'.out_standby = h.out_standby
         /\ ~hal'.out_standby_pend
         /\ \/ Goes(t, from, "io") /\ ~hal'.in_standby
            \/ Goes(t, from, "sleep") /\ hal'.in_standby
<1>1. CASE hal' = OpenIn(h) /\ Goes(t, from, "io")
  BY <1>1, OpenInSound
<1>2. CASE hal' = [h EXCEPT !.in_pcm = "closed"] /\ Goes(t, from, "sleep")
  BY <1>2, FailedSound DEF Sound, Hal
<1> QED  BY <1>1, <1>2 DEF StartIn

\* in_read: the stream is running, or opened, or cannot be opened.
LEMMA ReadKeeps ==
  ASSUME IInv, NEW t \in Threads, Read(t)
  PROVE  IInv'
<1> USE DEF IInv
<1>1. pc[t] = "stream" /\ pc \in [Threads -> Pcs] /\ Op(t) = "read" /\ call' = call
  BY DEF Read, StartIn, Goes, TypeOK
<1>2. HoldsDevice(t) /\ ~HoldsOut(t) /\ ~HoldsIn(t) /\ holder["adev"] = t
  BY <1>1 DEF HoldsDevice, HoldsOut, HoldsIn, LockInv
<1>3. /\ {} \in SUBSET Mutexes /\ {"adev"} \in SUBSET Mutexes /\ "in" \in Mutexes
      /\ {"io", "sleep", "active_out"} \subseteq Pcs
  BY DEF Mutexes, Pcs
<1>4. \A u \in Threads \ {t} : ~HoldsDevice(u)  BY <1>2, Exclusive
<1>5. CASE /\ ~hal.in_standby /\ UNCHANGED hal
           /\ Acquires(t, "in", {"adev"}) /\ Goes(t, "stream", "io")
  <2>1. pc'[t] = "io" /\ Op(t)' = "read"  BY <1>1, <1>5 DEF Goes, Op
  <2>2. ~HoldsDevice(t)' /\ ~HoldsOut(t)' /\ HoldsIn(t)'
    BY <2>1 DEF HoldsDevice, HoldsOut, HoldsIn
  <2>3. LockInv' /\ holder' \in [Mutexes -> Threads \cup {Free}]
    BY <1>1, <1>2, <1>3, <1>5, <2>2, AcquireStep
  <2>4. Relies(t)'  BY <1>5, <2>1 DEF Relies
  <2>5. PendInv'  BY <1>1, <1>5 DEF PendInv, Goes
  <2> QED  BY <1>1, <1>3, <1>5, <2>3, <2>4, <2>5, DeviceStep
<1>6. CASE /\ hal.in_standby /\ ~hal.active_out
           /\ Acquires(t, "in", {"adev"}) /\ StartIn(t, "stream", hal)
  <2>1. ~hal.out_standby_pend  BY <1>6 DEF Sound
  <2>2. /\ Sound(hal') /\ hal'.out_standby = hal.out_standby
        /\ ~hal'.out_standby_pend
        /\ \/ Goes(t, "stream", "io") /\ ~hal'.in_standby
           \/ Goes(t, "stream", "sleep") /\ hal'.in_standby
    BY <1>6, <2>1, StartInSound
  <2>3. PICK to \in {"io", "sleep"} :
          Goes(t, "stream", to) /\ (to = "io" => ~hal'.in_standby)
    BY <2>2
  <2>4. pc'[t] = to /\ Op(t)' = "read"  BY <1>1, <2>3 DEF Goes, Op
  <2>5. ~HoldsDevice(t)' /\ ~HoldsOut(t)' /\ HoldsIn(t)'
    BY <2>4 DEF HoldsDevice, HoldsOut, HoldsIn
  <2>6. LockInv' /\ holder' \in [Mutexes -> Threads \cup {Free}]
    BY <1>1, <1>2, <1>3, <1>6, <2>3, <2>5, AcquireStep
  <2>7. Relies(t)'  BY <2>3, <2>4 DEF Relies
  <2>8. PendInv'  BY <2>2 DEF PendInv
  <2> QED  BY <1>1, <1>3, <1>4, <1>6, <2>2, <2>3, <2>6, <2>7, <2>8, DeviceStep
<1>7. CASE /\ hal.in_standby /\ UNCHANGED hal
           /\ Acquires(t, "in", {}) /\ Goes(t, "stream", "active_out")
  <2>1. pc'[t] = "active_out" /\ Op(t)' = "read"  BY <1>1, <1>7 DEF Goes, Op
  <2>2. HoldsDevice(t)' /\ ~HoldsOut(t)' /\ HoldsIn(t)'
    BY <2>1 DEF HoldsDevice, HoldsOut, HoldsIn
  <2>3. LockInv' /\ holder' \in [Mutexes -> Threads \cup {Free}]
    BY <1>1, <1>2, <1>3, <1>7, <2>2, AcquireStep
  <2>4. Relies(t)'  BY <1>7, <2>1 DEF Relies
  <2>5. PendInv'  BY <1>1, <1>7 DEF PendInv, Goes
  <2> QED  BY <1>1, <1>3, <1>7, <2>3, <2>4, <2>5, DeviceStep
<1> QED  BY <1>5, <1>6, <1>7 DEF Read

\* start_input_stream has the mutex of the output stream, and makes room.
LEMMA LockActiveOutKeeps ==
  ASSUME IInv, NEW t \in Threads, LockActiveOut(t)
  PROVE  IInv'
<1> USE DEF IInv
<1>1. /\ pc[t] = "active_out" /\ pc \in [Threads -> Pcs] /\ call' = call
      /\ Passes("out", {"adev"}) /\ StartIn(t, "active_out", MakeRoom(hal))
  BY DEF LockActiveOut, StartIn, Goes, TypeOK
<1>2. /\ HoldsDevice(t) /\ ~HoldsOut(t) /\ HoldsIn(t)
      /\ holder["adev"] = t /\ holder["in"] = t /\ holder["out"] = Free
  BY <1>1 DEF HoldsDevice, HoldsOut, HoldsIn, LockInv, Passes
<1>3. /\ {"adev"} \in SUBSET Mutexes /\ "out" \in Mutexes
      /\ {"io", "sleep"} \subseteq Pcs
  BY DEF Mutexes, Pcs
<1>4. \A u \in Threads \ {t} : ~HoldsDevice(u) /\ ~HoldsOut(u) /\ ~HoldsIn(u)
  BY <1>2, Exclusive, StreamExclusive
<1>5. hal.in_standby /\ ~hal.out_standby_pend
  <2>1. \A u \in Threads : pc[u] # "pend"  BY <1>1, <1>4 DEF HoldsDevice
  <2> QED  BY <1>1, <2>1 DEF CallInv, PendInv
<1>6. /\ Sound(hal') /\ ~hal'.out_standby_pend
      /\ \/ Goes(t, "active_out", "io") /\ ~hal'.in_standby
         \/ Goes(t, "active_out", "sleep") /\ hal'.in_standby
  BY <1>1, <1>5, MakeRoomSound, StartInSound
<1>7. PICK to \in {"io", "sleep"} :
        Goes(t, "active_out", to) /\ (to = "io" => ~hal'.in_standby)
  BY <1>6
<1>8. pc'[t] = to  BY <1>1, <1>7 DEF Goes
<1>9. Op(t) = "read" /\ Op(t)' = "read"  BY <1>1 DEF CallInv, Op
<1>10. ~HoldsDevice(t)' /\ ~HoldsOut(t)' /\ HoldsIn(t)'
  BY <1>8, <1>9 DEF HoldsDevice, HoldsOut, HoldsIn
<1>11. LockInv' /\ holder' \in [Mutexes -> Threads \cup {Free}]
  BY <1>1, <1>2, <1>3, <1>7, <1>10, PassStep
<1>12. Relies(t)'  BY <1>7, <1>8, <1>9 DEF Relies
<1>13. PendInv'  BY <1>6 DEF PendInv
<1> QED
  BY <1>1, <1>3, <1>4, <1>6, <1>7, <1>11, <1>12, <1>13, DeviceStep

\* pcm_write or pcm_read returns, or the sleep ends, and the mutex is released.
LEMMA EndIoKeeps ==
  ASSUME IInv, NEW t \in Threads, EndIo(t)
  PROVE  IInv'
<1> USE DEF IInv
<1>1. PICK from \in {"io", "sleep"} : pc[t] = from /\ Goes(t, from, "idle")
  BY DEF EndIo
<1>2. /\ pc \in [Threads -> Pcs] /\ pc'[t] = "idle" /\ "idle" \in Pcs
      /\ hal' = hal /\ call' = call
  BY <1>1 DEF EndIo, Goes, TypeOK, Pcs
<1>3. holder' = [m \in Mutexes |-> IF holder[m] = t THEN Free ELSE holder[m]]
  BY DEF EndIo
<1>4. t # Free /\ \A u \in Threads : u # Free  BY AudioAssumption
<1>5. /\ holder' \in [Mutexes -> Threads \cup {Free}]
      /\ \A u \in Threads, m \in Mutexes : u # t => (holder'[m] = u <=> holder[m] = u)
      /\ \A m \in Mutexes : holder'[m] # t
  BY <1>3, <1>4 DEF TypeOK
<1>6. ~HoldsDevice(t)' /\ ~HoldsOut(t)' /\ ~HoldsIn(t)'
  BY <1>2 DEF HoldsDevice, HoldsOut, HoldsIn
<1>7. LockInv'  BY <1>1, <1>2, <1>5, <1>6, LockStep DEF Mutexes
<1>8. Relies(t)'  BY <1>2 DEF Relies
<1>9. PendInv'  BY <1>1, <1>2 DEF PendInv, Goes
<1> QED  BY <1>1, <1>2, <1>5, <1>7, <1>8, <1>9, DeviceStep

\* The output stream goes to standby, and to another PCM perhaps.
LEMMA StandbyOutKeeps ==
  ASSUME IInv, NEW t \in Threads, StandbyOut(t)
  PROVE  IInv'
<1> USE DEF IInv
<1>1. /\ pc[t] = "stream" /\ pc \in [Threads -> Pcs] /\ call' = call
      /\ Goes(t, "stream", "idle") /\ Passes("out", {"adev"}) /\ pc'[t] = "idle"
  BY DEF StandbyOut, Goes, TypeOK
<1>2. /\ HoldsDevice(t) /\ ~HoldsOut(t) /\ ~HoldsIn(t)
      /\ holder["adev"] = t /\ holder["out"] = Free
  BY <1>1 DEF HoldsDevice, HoldsOut, HoldsIn, LockInv, Passes
<1>3. {"adev"} \in SUBSET Mutexes /\ "out" \in Mutexes /\ "idle" \in Pcs
  BY DEF Mutexes, Pcs
<1>4. \A u \in Threads \ {t} : ~HoldsDevice(u) /\ ~HoldsOut(u)
  BY <1>2, Exclusive, StreamExclusive
<1>5. ~HoldsDevice(t)' /\ ~HoldsOut(t)' /\ ~HoldsIn(t)'
  BY <1>1 DEF HoldsDevice, HoldsOut, HoldsIn
<1>6. LockInv' /\ holder' \in [Mutexes -> Threads \cup {Free}]
  BY <1>1, <1>2, <1>3, <1>5, PassStep
<1>7. Op(t) = "out_routing" => Val(t) \in Devices
  BY DEF TypeOK, Op, Val, OutCalls, InCalls, NoCall
<1>8. /\ Sound(hal') /\ hal'.in_standby = hal.in_standby
      /\ hal'.out_standby_pend = DoOutStandby(hal).out_standby_pend
  <2>1. CASE Op(t) = "out_routing"
    BY <1>7, <2>1, DoOutStandbySound, RouteSound DEF StandbyOut
  <2>2. CASE Op(t) # "out_routing"
    BY <2>2, DoOutStandbySound DEF StandbyOut
  <2> QED  BY <2>1, <2>2
<1>9. PendInv'  BY <1>8, DoOutStandbySound DEF PendInv
<1>10. Relies(t)'  BY <1>1 DEF Relies
<1> QED  BY <1>1, <1>3, <1>4, <1>6, <1>8, <1>9, <1>10, DeviceStep

\* The input stream goes to standby: at once, or before the deferred standby of
\* the output stream.
LEMMA StandbyInKeeps ==
  ASSUME IInv, NEW t \in Threads, StandbyIn(t)
  PROVE  IInv'
<1> USE DEF IInv
<1>1. pc[t] = "stream" /\ pc \in [Threads -> Pcs] /\ call' = call
  BY DEF StandbyIn, Goes, TypeOK
<1>2. /\ HoldsDevice(t) /\ ~HoldsOut(t) /\ ~HoldsIn(t)
      /\ holder["adev"] = t /\ holder["in"] = Free
  BY <1>1 DEF HoldsDevice, HoldsOut, HoldsIn, LockInv, Acquires, Passes, StandbyIn
<1>3. /\ {} \in SUBSET Mutexes /\ {"adev"} \in SUBSET Mutexes /\ "in" \in Mutexes
      /\ {"idle", "pend"} \subseteq Pcs
  BY DEF Mutexes, Pcs
<1>4. \A u \in Threads \ {t} : ~HoldsDevice(u) /\ ~HoldsIn(u)
  BY <1>2, Exclusive, StreamExclusive
<1>5. CASE /\ hal.out_standby_pend
           /\ Acquires(t, "in", {}) /\ Goes(t, "stream", "pend")
           /\ hal' = CloseIn(hal)
  <2>1. pc'[t] = "pend"  BY <1>1, <1>5 DEF Goes
  <2>2. HoldsDevice(t)' /\ ~HoldsOut(t)' /\ HoldsIn(t)'
    BY <2>1 DEF HoldsDevice, HoldsOut, HoldsIn
  <2>3. LockInv' /\ holder' \in [Mutexes -> Threads \cup {Free}]
    BY <1>1, <1>2, <1>3, <1>5, <2>2, AcquireStep
  <2>4. /\ Sound(hal') /\ hal'.in_standby /\ hal'.out_standby_pend
        /\ hal'.out_standby = hal.out_standby
    BY <1>5, CloseInSound
  <2>5. Relies(t)'  BY <2>1, <2>4 DEF Relies
  <2>6. PendInv'  BY <2>1 DEF PendInv
  <2> QED  BY <1>1, <1>3, <1>4, <1>5, <2>3, <2>4, <2>5, <2>6, DeviceStep
<1>6. CASE /\ ~hal.out_standby_pend
           /\ Passes("in", {"adev"}) /\ Goes(t, "stream", "idle")
           /\ AfterInStandby(t, CloseIn(hal))
           /\ Op(t) \in {"in_standby", "in_routing"}
  <2>1. pc'[t] = "idle"  BY <1>1, <1>6 DEF Goes
  <2>2. ~HoldsDevice(t)' /\ ~HoldsOut(t)' /\ ~HoldsIn(t)'
    BY <2>1 DEF HoldsDevice, HoldsOut, HoldsIn
  <2>3. LockInv' /\ holder' \in [Mutexes -> Threads \cup {Free}]
    BY <1>1, <1>2, <1>3, <1>6, <2>2, PassStep
  <2>4. Op(t) = "in_routing" => Val(t) \in Devices
    BY DEF TypeOK, Op, Val, OutCalls, InCalls, NoCall
  <2>5. /\ Sound(hal') /\ hal'.out_standby = hal.out_standby
        /\ ~hal'.out_standby_pend
    BY <1>6, <2>4, CloseInSound, RouteSound DEF AfterInStandby
  <2>6. Relies(t)'  BY <2>1 DEF Relies
  <2>7. PendInv'  BY <2>5 DEF PendInv
  <2> QED  BY <1>1, <1>3, <1>4, <1>6, <2>3, <2>5, <2>6, <2>7, DeviceStep
<1> QED  BY <1>5, <1>6 DEF StandbyIn

\* The deferred standby is carried out.
LEMMA StandbyPendingKeeps ==
  ASSUME IInv, NEW t \in Threads, StandbyPending(t)
  PROVE  IInv'
<1> USE DEF IInv
<1>1. /\ pc[t] = "pend" /\ pc \in [Threads -> Pcs] /\ call' = call
      /\ Goes(t, "pend", "idle") /\ Passes("out", {"adev", "in"}) /\ pc'[t] = "idle"
  BY DEF StandbyPending, Goes, TypeOK
<1>2. /\ HoldsDevice(t) /\ ~HoldsOut(t) /\ HoldsIn(t)
      /\ holder["adev"] = t /\ holder["in"] = t /\ holder["out"] = Free
  BY <1>1 DEF HoldsDevice, HoldsOut, HoldsIn, LockInv, Passes
<1>3. {"adev", "in"} \in SUBSET Mutexes /\ "out" \in Mutexes /\ "idle" \in Pcs
  BY DEF Mutexes, Pcs
<1>4. \A u \in Threads \ {t} : ~HoldsDevice(u) /\ ~HoldsOut(u) /\ ~HoldsIn(u)
  BY <1>2, Exclusive, StreamExclusive
<1>5. ~HoldsDevice(t)' /\ ~HoldsOut(t)' /\ ~HoldsIn(t)'
  BY <1>1 DEF HoldsDevice, HoldsOut, HoldsIn
<1>6. LockInv' /\ holder' \in [Mutexes -> Threads \cup {Free}]
  BY <1>1, <1>2, <1>3, <1>5, PassStep
<1>7. Op(t) = "in_routing" => Val(t) \in Devices
  BY DEF TypeOK, Op, Val, OutCalls, InCalls, NoCall
<1>8. hal.in_standby  BY <1>1 DEF CallInv
<1>9. Sound(hal') /\ ~hal'.out_standby_pend
  <2>1. Sound(DoOutStandby(hal)) /\ ~DoOutStandby(hal).out_standby_pend
    BY <1>8, DoOutStandbySound
  <2> QED  BY <1>7, <2>1, RouteSound DEF StandbyPending, AfterInStandby
<1>10. Relies(t)'  BY <1>1 DEF Relies
<1>11. PendInv'  BY <1>9 DEF PendInv
<1> QED  BY <1>1, <1>3, <1>4, <1>6, <1>9, <1>10, <1>11, DeviceStep

-----------------------------------------------------------------------------
(* The theorems.                                                            *)

\* The invariant holds before the first call.
LEMMA InitInv == Init => IInv
<1> SUFFICES ASSUME Init PROVE IInv
  OBVIOUS
<1>1. TypeOK  BY DEF Init, TypeOK, Hal, Devices, Pcm, Groups, Pcs
<1>2. Sound(hal)  BY <1>1 DEF Init, Sound, TypeOK, Open, Groups
<1>3. LockInv
  BY AudioAssumption DEF Init, LockInv, HoldsDevice, HoldsOut, HoldsIn, Mutexes
<1>4. CallInv /\ PendInv  BY DEF Init, CallInv, PendInv
<1> QED  BY <1>1, <1>2, <1>3, <1>4 DEF IInv

\* Every step of every thread keeps it.
LEMMA StepInv == IInv /\ [Next]_vars => IInv'
<1>1. ASSUME IInv, NEW t \in Threads, Step(t) PROVE IInv'
  BY <1>1, LockDeviceKeeps, WriteKeeps, LockActiveInKeeps, ReadKeeps,
     LockActiveOutKeeps, EndIoKeeps, StandbyOutKeeps, StandbyInKeeps,
     StandbyPendingKeeps DEF Step
<1>2. ASSUME IInv, UNCHANGED vars PROVE IInv'
  BY <1>2 DEF vars, IInv, TypeOK, LockInv, CallInv, PendInv, HoldsDevice,
     HoldsOut, HoldsIn, Op
<1> QED  BY <1>1, <1>2, CallKeeps DEF Next

\* So it holds always.
LEMMA Invariance == Spec => []IInv
BY InitInv, StepInv, PTL DEF Spec

\* Every variable keeps its type, whichever threads make whichever calls.
THEOREM TypeCorrect == Spec => []TypeOK
<1>1. IInv => TypeOK  BY DEF IInv
<1> QED  BY <1>1, Invariance, PTL

\* The card is never asked to play two groups of sample rates at once, in any
\* order of starting, stopping and routing the streams from any number of
\* threads.
THEOREM OneRateGroup == Spec => []RateGroup
<1>1. IInv => RateGroup  BY DEF IInv, Sound, RateGroup
<1> QED  BY <1>1, Invariance, PTL

\* The PCM of a running pcm_write or pcm_read, for which the mutex of the device
\* is not held, is never closed under it.
THEOREM PcmStaysOpen == Spec => []PcmInUse
<1>1. IInv => PcmInUse  BY DEF IInv, Sound, CallInv, PcmInUse, TypeOK, Hal
<1> QED  BY <1>1, Invariance, PTL

\* A deferred standby of the output stream has its stream, and somebody who will
\* carry it out.
THEOREM StandbyDeferred == Spec => []DeferredStandby
<1>1. IInv => DeferredStandby
  BY DEF IInv, Sound, PendInv, DeferredStandby, TypeOK, Hal
<1> QED  BY <1>1, Invariance, PTL

\* What the device, its streams, the PCMs and the mixer each say agrees, however
\* calls interleave and PCMs fail to open.
THEOREM DeviceConsistent == Spec => []Consistent
<1>1. IInv => Consistent  BY DEF IInv, Sound, Consistent
<1> QED  BY <1>1, Invariance, PTL

-----------------------------------------------------------------------------
(* The mixer routes: what a list of settings does to a control.             *)

Others == {Sink, Source, Volume, Rx, Tx}

\* A control that the settings in seq end on v, and one they leave alone.
Sets(seq, c, v) ==
  \E i \in DOMAIN seq :
    seq[i].ctl = c /\ seq[i].value = v /\ \A j \in DOMAIN seq : j > i => seq[j].ctl # c
Leaves(seq, c) == \A i \in DOMAIN seq : seq[i].ctl # c

\* The control c will be v when the settings in seq have been applied, or its
\* last write will have failed.
Will(seq, c, v) == Sets(seq, c, v) \/ (Leaves(seq, c) /\ Is(c, v))

Setting == [ctl : Ctls, value : Seq(Nat)]

\* One setting is applied, or fails.
LEMMA ApplyKeeps ==
  ASSUME NEW c \in Ctls, NEW v, hardware \in [Ctls -> Seq(Nat)], todo \in Seq(Setting), path_apply,
         Will(todo, c, v)
  PROVE  Will(todo, c, v)'
<1>1. todo # <<>> /\ todo' = Tail(todo)
  BY DEF path_apply
<1>2. PICK s : s = Head(todo)
  OBVIOUS
<1>3. s \in Setting /\ s = todo[1]
  BY <1>1, <1>2
<1>4. \/ hardware' = [hardware EXCEPT ![s.ctl] = s.value] /\ failed' = failed \ {s.ctl}
      \/ failed' = failed \cup {s.ctl} /\ UNCHANGED hardware
  BY <1>2 DEF path_apply
<1>5. s.ctl \in Ctls
  BY <1>3 DEF Setting
<1>6. /\ Len(todo') = Len(todo) - 1 /\ Len(todo) \in Nat /\ Len(todo) > 0
      /\ todo' \in Seq(Setting)
      /\ \A i \in 1 .. Len(todo') : todo'[i] = todo[i + 1]
  BY <1>1
<1>7. DOMAIN todo = 1 .. Len(todo) /\ DOMAIN todo' = 1 .. Len(todo')
  BY <1>6
<1>8. CASE Sets(todo, c, v)
  <2>1. PICK i \in 1 .. Len(todo) :
          todo[i].ctl = c /\ todo[i].value = v /\ \A j \in 1 .. Len(todo) : j > i => todo[j].ctl # c
    BY <1>7, <1>8 DEF Sets
  <2>2. CASE i = 1
    <3>1. s.ctl = c /\ s.value = v
      BY <1>3, <2>1, <2>2
    <3>2. Is(c, v)'
      BY <1>4, <1>5, <3>1 DEF Is
    <3>3. ASSUME NEW j \in 1 .. Len(todo')
          PROVE  todo'[j].ctl # c
      <4>1. j + 1 \in 1 .. Len(todo) /\ j + 1 > i
        BY <1>6, <2>2
      <4> QED
        BY <1>6, <2>1, <4>1
    <3> QED
      BY <1>7, <3>2, <3>3 DEF Will, Leaves, Is
  <2>3. CASE i # 1
    <3>1. i - 1 \in 1 .. Len(todo') /\ todo'[i - 1] = todo[i]
      BY <1>6, <2>3
    <3>2. ASSUME NEW j \in 1 .. Len(todo'), j > i - 1
          PROVE  todo'[j].ctl # c
      <4>1. j + 1 \in 1 .. Len(todo) /\ j + 1 > i
        BY <1>6, <3>2
      <4> QED
        BY <1>6, <2>1, <4>1
    <3> QED
      BY <1>7, <2>1, <3>1, <3>2 DEF Will, Sets
  <2> QED
    BY <2>2, <2>3
<1>9. CASE Leaves(todo, c) /\ Is(c, v)
  <2>1. s.ctl # c
    BY <1>3, <1>6, <1>7, <1>9 DEF Leaves
  <2>2. Is(c, v)'
    BY <1>4, <1>9, <2>1 DEF Is
  <2>3. \A j \in 1 .. Len(todo') : todo'[j].ctl # c
    BY <1>6, <1>7, <1>9 DEF Leaves
  <2> QED
    BY <1>7, <2>2, <2>3 DEF Will, Leaves, Is
<1> QED
  BY <1>8, <1>9 DEF Will

\* Nothing is left to apply.
LEMMA Applied == \A c, v : Will(<<>>, c, v) <=> Is(c, v)
  BY DEF Will, Sets, Leaves

-----------------------------------------------------------------------------
\* Settings one after the other.
LEMMA SetsConcat ==
  ASSUME NEW a \in Seq(Setting), NEW b \in Seq(Setting), NEW c
  PROVE  /\ \A v : Sets(b, c, v) => Sets(a \o b, c, v)
         /\ \A v : Sets(a, c, v) /\ Leaves(b, c) => Sets(a \o b, c, v)
         /\ Leaves(a, c) /\ Leaves(b, c) => Leaves(a \o b, c)
<1> DEFINE t == a \o b
<1>1. /\ Len(t) = Len(a) + Len(b) /\ DOMAIN t = 1 .. Len(t)
      /\ DOMAIN a = 1 .. Len(a) /\ DOMAIN b = 1 .. Len(b) /\ Len(a) \in Nat /\ Len(b) \in Nat
      /\ \A i \in 1 .. Len(a) : t[i] = a[i]
      /\ \A i \in 1 .. Len(b) : t[Len(a) + i] = b[i]
  OBVIOUS
<1> HIDE DEF t
<1>2. \A i \in DOMAIN t : i > Len(a) => i - Len(a) \in DOMAIN b /\ t[i] = b[i - Len(a)]
  <2> TAKE i \in DOMAIN t
  <2> HAVE i > Len(a)
  <2>1. i - Len(a) \in 1 .. Len(b)
    BY <1>1
  <2>2. t[Len(a) + (i - Len(a))] = b[i - Len(a)]
    BY <1>1, <2>1
  <2> QED
    BY <1>1, <2>1, <2>2
<1>3. ASSUME NEW v, Sets(b, c, v)
      PROVE  Sets(t, c, v)
  <2>1. PICK i \in DOMAIN b :
          b[i].ctl = c /\ b[i].value = v /\ \A j \in DOMAIN b : j > i => b[j].ctl # c
    BY <1>3 DEF Sets
  <2>2. Len(a) + i \in DOMAIN t /\ t[Len(a) + i] = b[i]
    BY <1>1
  <2>3. ASSUME NEW j \in DOMAIN t, j > Len(a) + i
        PROVE  t[j].ctl # c
    <3>1. j > Len(a) /\ j - Len(a) > i
      BY <1>1, <2>3
    <3>2. j - Len(a) \in DOMAIN b /\ t[j] = b[j - Len(a)]
      BY <1>2, <3>1
    <3> QED
      BY <2>1, <3>1, <3>2
  <2> QED
    BY <2>1, <2>2, <2>3 DEF Sets
<1>4. ASSUME NEW v, Sets(a, c, v), Leaves(b, c)
      PROVE  Sets(t, c, v)
  <2>1. PICK i \in DOMAIN a :
          a[i].ctl = c /\ a[i].value = v /\ \A j \in DOMAIN a : j > i => a[j].ctl # c
    BY <1>4 DEF Sets
  <2>2. i \in DOMAIN t /\ t[i] = a[i]
    BY <1>1
  <2>3. ASSUME NEW j \in DOMAIN t, j > i
        PROVE  t[j].ctl # c
    <3>1. CASE j > Len(a)
      BY <1>2, <1>4, <3>1 DEF Leaves
    <3>2. CASE ~ (j > Len(a))
      <4>1. j \in DOMAIN a /\ t[j] = a[j]
        BY <1>1, <3>2
      <4> QED
        BY <2>1, <2>3, <4>1
    <3> QED
      BY <3>1, <3>2
  <2> QED
    BY <2>1, <2>2, <2>3 DEF Sets
<1>5. ASSUME Leaves(a, c), Leaves(b, c)
      PROVE  Leaves(t, c)
  <2>1. ASSUME NEW j \in DOMAIN t
        PROVE  t[j].ctl # c
    <3>1. CASE j > Len(a)
      BY <1>2, <1>5, <3>1 DEF Leaves
    <3>2. CASE ~ (j > Len(a))
      <4>1. j \in DOMAIN a /\ t[j] = a[j]
        BY <1>1, <3>2
      <4> QED
        BY <1>5, <4>1 DEF Leaves
    <3> QED
      BY <3>1, <3>2
  <2> QED
    BY <2>1 DEF Leaves
<1> QED
  BY <1>3, <1>4, <1>5 DEF t

-----------------------------------------------------------------------------
\* The settings of controls.
SettingsOf(ctls) == [j \in DOMAIN ctls |-> [ctl |-> ctls[j].name, value |-> ctls[j].value]]

CtlTag == [tag : {"ctl"}, name : Ctls, value : Seq(Nat), ignore : {FALSE}]

LEMMA SettingsOfType ==
  ASSUME NEW a \in Seq(CtlTag)
  PROVE  SettingsOf(a) \in Seq(Setting) /\ Len(SettingsOf(a)) = Len(a)
<1>1. ASSUME NEW j \in 1 .. Len(a)
      PROVE  [ctl |-> a[j].name, value |-> a[j].value] \in Setting
  <2>1. a[j] \in CtlTag
    OBVIOUS
  <2>2. a[j].name \in Ctls /\ a[j].value \in Seq(Nat)
    BY <2>1 DEF CtlTag
  <2> QED
    BY <2>2 DEF Setting
<1>2. SettingsOf(a) \in [1 .. Len(a) -> Setting]
  BY <1>1 DEF SettingsOf
<1> QED
  BY <1>2

LEMMA SettingsOfConcat ==
  ASSUME NEW a \in Seq(CtlTag), NEW b \in Seq(CtlTag)
  PROVE  SettingsOf(a \o b) = SettingsOf(a) \o SettingsOf(b)
<1>1. PICK c : c = a \o b /\ c \in Seq(CtlTag) /\ Len(c) = Len(a) + Len(b)
  <2>1. a \o b \in Seq(CtlTag) /\ Len(a \o b) = Len(a) + Len(b)
    OBVIOUS
  <2> QED
    BY <2>1, Zenon
<1>2. PICK x : x = SettingsOf(a) /\ x \in Seq(Setting) /\ Len(x) = Len(a)
  BY SettingsOfType
<1>3. PICK y : y = SettingsOf(b) /\ y \in Seq(Setting) /\ Len(y) = Len(b)
  BY SettingsOfType
<1>4. PICK z : z = SettingsOf(c) /\ z \in Seq(Setting) /\ Len(z) = Len(c)
  BY <1>1, SettingsOfType
<1>5. /\ \A j \in 1 .. Len(c) : z[j] = [ctl |-> c[j].name, value |-> c[j].value]
      /\ \A j \in 1 .. Len(a) : x[j] = [ctl |-> a[j].name, value |-> a[j].value]
      /\ \A j \in 1 .. Len(b) : y[j] = [ctl |-> b[j].name, value |-> b[j].value]
  BY <1>1, <1>2, <1>3, <1>4 DEF SettingsOf
<1>6. PICK w : w = x \o y /\ w \in Seq(Setting) /\ Len(w) = Len(x) + Len(y)
  <2>1. x \in Seq(Setting) /\ y \in Seq(Setting)
    BY <1>2, <1>3
  <2>2. x \o y \in Seq(Setting) /\ Len(x \o y) = Len(x) + Len(y)
    BY <2>1
  <2> QED
    BY <2>2, Zenon
<1>7. \A j \in 1 .. Len(x) : w[j] = x[j] /\ c[j] = a[j]
  BY <1>1, <1>2, <1>3, <1>6
<1>8. \A j \in 1 .. Len(y) : w[Len(x) + j] = y[j] /\ c[Len(x) + j] = b[j]
  BY <1>1, <1>2, <1>3, <1>6
<1>9. Len(a) \in Nat /\ Len(b) \in Nat
  OBVIOUS
<1>10. ASSUME NEW j \in 1 .. Len(z)
       PROVE  z[j] = w[j]
  <2>1. CASE j \in 1 .. Len(x)
    <3>1. w[j] = x[j] /\ c[j] = a[j]
      BY <1>7, <2>1
    <3>2. j \in 1 .. Len(a) /\ j \in 1 .. Len(c)
      BY <1>2, <1>4, <2>1
    <3> QED
      BY <1>5, <3>1, <3>2
  <2>2. CASE j \notin 1 .. Len(x)
    <3>1. PICK i \in 1 .. Len(y) : j = Len(x) + i
      <4>1. j - Len(x) \in 1 .. Len(y) /\ j = Len(x) + (j - Len(x))
        BY <1>1, <1>2, <1>3, <1>4, <1>9, <2>2
      <4> QED
        BY <4>1
    <3>2. c[j] = b[i] /\ w[j] = y[i]
      BY <1>8, <3>1
    <3> QED
      BY <1>3, <1>4, <1>5, <3>1, <3>2
  <2> QED
    BY <2>1, <2>2
<1>11. z = w
  BY <1>1, <1>2, <1>3, <1>4, <1>6, <1>10, SeqEqual
<1> QED
  BY <1>1, <1>2, <1>3, <1>4, <1>6, <1>11

\* The line outputs in some order, each of them.
LEMMA LineoutsInOrder ==
  LET names == SetToSeq(Lineouts)
  IN names \in Seq(Lineouts) /\ \A l \in Lineouts : \E i \in DOMAIN names : names[i] = l
                                 /\ \A j \in DOMAIN names : j > i => names[j] # l
<1> DEFINE n == Cardinality(Lineouts)
           names == SetToSeq(Lineouts)
<1>1. n \in Nat /\ ExistsBijection(1 .. n, Lineouts)
  BY RouteAssumption, FS_CardinalityType
<1>2. PICK b \in Bijection(1 .. n, Lineouts) : TRUE
  BY <1>1, Zenon DEF ExistsBijection
<1>3. \E g \in [1 .. n -> Lineouts] : IsInjective(g)
  <2>1. b \in [1 .. n -> Lineouts] /\ \A i, j \in 1 .. n : b[i] = b[j] => i = j
    BY <1>2 DEF Bijection, Injection, IsInjective
  <2> QED
    BY <2>1 DEF IsInjective
<1>4. names \in [1 .. n -> Lineouts] /\ IsInjective(names)
  BY <1>3, Zenon DEF SetToSeq
<1> HIDE DEF names
<1>5. \A i, j \in 1 .. n : names[i] = names[j] => i = j
  BY <1>4 DEF IsInjective
<1>6. \A l \in Lineouts : \E i \in 1 .. n : names[i] = l
  <2>1. names \in Injection(1 .. n, Lineouts)
    BY <1>4 DEF Injection
  <2>2. IsFiniteSet(1 .. n) /\ Cardinality(1 .. n) = n
    BY <1>1, FS_Interval
  <2>3. names \in Surjection(1 .. n, Lineouts)
    BY <2>1, <2>2, RouteAssumption, FS_Injection
  <2> QED
    BY <2>3 DEF Surjection
<1>7. names \in Seq(Lineouts) /\ DOMAIN names = 1 .. n
  BY <1>1, <1>4
<1> QED
  BY <1>5, <1>6, <1>7 DEF names

-----------------------------------------------------------------------------
\* What the paths set.
Two(n, v, m, w) == <<Ctl(n, v), Ctl(m, w)>>

LEMMA CtlType ==
  ASSUME NEW n \in Ctls, NEW v \in Seq(Nat)
  PROVE  Ctl(n, v) \in CtlTag /\ Ctl(n, v).name = n /\ Ctl(n, v).value = v
BY DEF Ctl, CtlTag

LEMMA TwoSet ==
  ASSUME NEW n \in Ctls, NEW v \in Seq(Nat), NEW m \in Ctls, NEW w \in Seq(Nat), n # m
  PROVE  /\ Two(n, v, m, w) \in Seq(CtlTag)
         /\ Sets(SettingsOf(Two(n, v, m, w)), n, v)
         /\ Sets(SettingsOf(Two(n, v, m, w)), m, w)
         /\ \A c : c \notin {n, m} => Leaves(SettingsOf(Two(n, v, m, w)), c)
<1>1. PICK e : e = Ctl(n, v) /\ e \in CtlTag /\ e.name = n /\ e.value = v
  BY CtlType
<1>2. PICK f : f = Ctl(m, w) /\ f \in CtlTag /\ f.name = m /\ f.value = w
  BY CtlType
<1>3. PICK a : a = <<e, f>>
  OBVIOUS
<1>4. a \in Seq(CtlTag) /\ DOMAIN a = {1, 2} /\ a[1] = e /\ a[2] = f
  BY <1>1, <1>2, <1>3
<1>5. PICK x : x = SettingsOf(a)
  OBVIOUS
<1>6. /\ DOMAIN x = {1, 2}
      /\ x[1].ctl = n /\ x[1].value = v /\ x[2].ctl = m /\ x[2].value = w
  BY <1>1, <1>2, <1>4, <1>5 DEF SettingsOf
<1>7. Sets(x, n, v) /\ Sets(x, m, w)
  BY <1>6 DEF Sets
<1>8. \A c : c \notin {n, m} => Leaves(x, c)
  BY <1>6 DEF Leaves
<1>9. Two(n, v, m, w) = a
  BY <1>1, <1>2, <1>3 DEF Two
<1> QED
  BY <1>4, <1>5, <1>7, <1>8, <1>9

LEMMA OneSet ==
  ASSUME NEW n \in Ctls, NEW v \in Seq(Nat)
  PROVE  /\ <<Ctl(n, v)>> \in Seq(CtlTag)
         /\ Sets(SettingsOf(<<Ctl(n, v)>>), n, v)
         /\ \A c : c # n => Leaves(SettingsOf(<<Ctl(n, v)>>), c)
<1>1. PICK e : e = Ctl(n, v) /\ e \in CtlTag /\ e.name = n /\ e.value = v
  BY CtlType
<1>2. PICK a : a = <<e>> /\ a \in Seq(CtlTag) /\ DOMAIN a = {1} /\ a[1] = e
  <2>1. <<e>> \in Seq(CtlTag) /\ DOMAIN <<e>> = {1} /\ <<e>>[1] = e
    BY <1>1
  <2> QED
    BY <2>1, Zenon
<1>3. PICK x : x = SettingsOf(a)
  OBVIOUS
<1>4. DOMAIN x = {1} /\ x[1].ctl = n /\ x[1].value = v
  BY <1>1, <1>2, <1>3 DEF SettingsOf
<1>5. Sets(x, n, v) /\ \A c : c # n => Leaves(x, c)
  BY <1>4 DEF Sets, Leaves
<1> QED
  BY <1>1, <1>2, <1>3, <1>5

LEMMA SwitchSets ==
  ASSUME NEW on \in Nat
  PROVE  /\ Switch(on) \in Seq(CtlTag)
         /\ \A l \in Lineouts : Sets(SettingsOf(Switch(on)), l, <<on>>)
         /\ \A c : c \notin Lineouts => Leaves(SettingsOf(Switch(on)), c)
<1>1. PICK names : /\ names = SetToSeq(Lineouts) /\ names \in Seq(Lineouts)
                   /\ \A l \in Lineouts : \E i \in DOMAIN names : names[i] = l
                        /\ \A j \in DOMAIN names : j > i => names[j] # l
  BY LineoutsInOrder
<1>2. PICK n \in Nat : DOMAIN names = 1 .. n /\ \A i \in 1 .. n : names[i] \in Lineouts
  BY <1>1
<1>3. PICK a : a = [i \in 1 .. n |-> Ctl(names[i], <<on>>)]
  OBVIOUS
<1>4. Switch(on) = a
  BY <1>1, <1>2, <1>3 DEF Switch
<1>5. \A i \in 1 .. n : a[i] \in CtlTag /\ a[i].name = names[i] /\ a[i].value = <<on>>
  <2>1. \A i \in 1 .. n : names[i] \in Ctls
    BY <1>2 DEF Ctls
  <2>2. PICK v : v = <<on>> /\ v \in Seq(Nat)
    <3>1. <<on>> \in Seq(Nat)
      OBVIOUS
    <3> QED
      BY <3>1, Zenon
  <2>3. \A i \in 1 .. n : a[i] = Ctl(names[i], v)
    BY <1>3, <2>2
  <2> QED
    BY <2>1, <2>2, <2>3, CtlType
<1>6. a \in Seq(CtlTag) /\ DOMAIN a = 1 .. n
  BY <1>2, <1>3, <1>5
<1>7. PICK x : x = SettingsOf(a)
  OBVIOUS
<1>8. DOMAIN x = 1 .. n /\ \A i \in 1 .. n : x[i].ctl = names[i] /\ x[i].value = <<on>>
  BY <1>5, <1>6, <1>7 DEF SettingsOf
<1>9. \A l \in Lineouts : Sets(x, l, <<on>>)
  BY <1>1, <1>2, <1>8 DEF Sets
<1>10. \A c : c \notin Lineouts => Leaves(x, c)
  BY <1>2, <1>8 DEF Leaves
<1> QED
  BY <1>4, <1>6, <1>7, <1>9, <1>10

LEMMA Kinds ==
  /\ Others \subseteq Ctls /\ Lineouts \subseteq Ctls /\ \A l \in Lineouts : l \notin Others
  /\ Sink # Source /\ Sink # Volume /\ Sink # Rx /\ Sink # Tx /\ Source # Volume
  /\ Source # Rx /\ Source # Tx /\ Volume # Rx /\ Volume # Tx /\ Rx # Tx
  /\ Low \in Seq(Nat) /\ High \in Seq(Nat) /\ <<0>> \in Seq(Nat) /\ <<1>> \in Seq(Nat)
<1>1. Others \subseteq Ctls /\ Lineouts \subseteq Ctls /\ \A l \in Lineouts : l \notin Others
  BY RouteAssumption DEF Others, Ctls
<1>2. /\ Sink # Source /\ Sink # Volume /\ Sink # Rx /\ Sink # Tx /\ Source # Volume
      /\ Source # Rx /\ Source # Tx /\ Volume # Rx /\ Volume # Tx /\ Rx # Tx
  BY DEF Sink, Source, Volume, Rx, Tx
<1>3. Low \in Seq(Nat) /\ High \in Seq(Nat) /\ <<0>> \in Seq(Nat) /\ <<1>> \in Seq(Nat)
  BY DEF Low, High
<1> QED
  BY <1>1, <1>2, <1>3

LEMMA SpeakerSets ==
  ASSUME NEW on \in Nat
  PROVE  /\ Speaker(on) \in Seq(CtlTag)
         /\ Sets(SettingsOf(Speaker(on)), Sink, <<0, 0, on>>)
         /\ Sets(SettingsOf(Speaker(on)), Rx, <<on>>)
         /\ \A c : c \notin {Sink, Rx} => Leaves(SettingsOf(Speaker(on)), c)
<1>1. PICK v, w : v = <<0, 0, on>> /\ w = <<on>> /\ v \in Seq(Nat) /\ w \in Seq(Nat)
  <2>1. <<0, 0, on>> \in Seq(Nat) /\ <<on>> \in Seq(Nat)
    OBVIOUS
  <2> QED
    BY <2>1, Zenon
<1>2. Sink \in Ctls /\ Rx \in Ctls /\ Sink # Rx
  BY Kinds DEF Others
<1>3. Speaker(on) = Two(Sink, v, Rx, w)
  BY <1>1 DEF Speaker, Two
<1>4. PICK a : a = Two(Sink, v, Rx, w)
  OBVIOUS
<1>5. /\ a \in Seq(CtlTag) /\ Sets(SettingsOf(a), Sink, v) /\ Sets(SettingsOf(a), Rx, w)
      /\ \A c : c \notin {Sink, Rx} => Leaves(SettingsOf(a), c)
  BY <1>1, <1>2, <1>4, TwoSet, Zenon
<1> QED
  BY <1>1, <1>3, <1>4, <1>5, Zenon

LEMMA MicSets ==
  ASSUME NEW on \in Nat
  PROVE  /\ Mic(on) \in Seq(CtlTag)
         /\ Sets(SettingsOf(Mic(on)), Source, <<0, 1, on>>)
         /\ Sets(SettingsOf(Mic(on)), Tx, <<on>>)
         /\ \A c : c \notin {Source, Tx} => Leaves(SettingsOf(Mic(on)), c)
<1>1. PICK v, w : v = <<0, 1, on>> /\ w = <<on>> /\ v \in Seq(Nat) /\ w \in Seq(Nat)
  <2>1. <<0, 1, on>> \in Seq(Nat) /\ <<on>> \in Seq(Nat)
    OBVIOUS
  <2> QED
    BY <2>1, Zenon
<1>2. Source \in Ctls /\ Tx \in Ctls /\ Source # Tx
  BY Kinds DEF Others
<1>3. Mic(on) = Two(Source, v, Tx, w)
  BY <1>1 DEF Mic, Two
<1>4. PICK a : a = Two(Source, v, Tx, w)
  OBVIOUS
<1>5. /\ a \in Seq(CtlTag) /\ Sets(SettingsOf(a), Source, v) /\ Sets(SettingsOf(a), Tx, w)
      /\ \A c : c \notin {Source, Tx} => Leaves(SettingsOf(a), c)
  BY <1>1, <1>2, <1>4, TwoSet, Zenon
<1> QED
  BY <1>1, <1>3, <1>4, <1>5, Zenon

\* Controls one after the other.
LEMMA Chain ==
  ASSUME NEW a \in Seq(CtlTag), NEW b \in Seq(CtlTag)
  PROVE  /\ a \o b \in Seq(CtlTag)
         /\ \A c, v : Sets(SettingsOf(b), c, v) => Sets(SettingsOf(a \o b), c, v)
         /\ \A c, v : Sets(SettingsOf(a), c, v) /\ Leaves(SettingsOf(b), c)
                        => Sets(SettingsOf(a \o b), c, v)
         /\ \A c : Leaves(SettingsOf(a), c) /\ Leaves(SettingsOf(b), c)
                     => Leaves(SettingsOf(a \o b), c)
<1>1. a \o b \in Seq(CtlTag)
  OBVIOUS
<1>2. PICK x, y : /\ x = SettingsOf(a) /\ y = SettingsOf(b)
                  /\ x \in Seq(Setting) /\ y \in Seq(Setting)
  BY SettingsOfType
<1>3. SettingsOf(a \o b) = x \o y
  BY <1>2, SettingsOfConcat
<1> QED
  BY <1>1, <1>2, <1>3, SetsConcat

LEMMA InitPath ==
  /\ Contents("init") \in Seq(CtlTag)
  /\ \A l \in Lineouts : Sets(SettingsOf(Contents("init")), l, <<1>>)
  /\ Sets(SettingsOf(Contents("init")), Volume, Low)
<1>1. PICK a : /\ a = Switch(1) /\ a \in Seq(CtlTag)
               /\ \A l \in Lineouts : Sets(SettingsOf(a), l, <<1>>)
  BY SwitchSets
<1>2. PICK b : /\ b = <<Ctl(Volume, Low)>> /\ b \in Seq(CtlTag)
               /\ Sets(SettingsOf(b), Volume, Low) /\ \A c : c # Volume => Leaves(SettingsOf(b), c)
  <2>1. Volume \in Ctls /\ Low \in Seq(Nat)
    BY Kinds DEF Others
  <2> QED
    BY <2>1, OneSet
<1>3. Contents("init") = a \o b
  BY <1>1, <1>2 DEF Contents
<1>4. PICK d : d = a \o b
  OBVIOUS
<1>5. d \in Seq(CtlTag) /\ Sets(SettingsOf(d), Volume, Low)
  BY <1>1, <1>2, <1>4, Chain
<1>6. \A l \in Lineouts : Sets(SettingsOf(d), l, <<1>>)
  <2>1. \A l \in Lineouts : l # Volume
    BY Kinds DEF Others
  <2> QED
    BY <1>1, <1>2, <1>4, <2>1, Chain
<1> QED
  BY <1>3, <1>4, <1>5, <1>6

\* Both paths that switch the output on, with the volume and the line outputs in
\* either order.
LEMMA OnPath ==
  ASSUME NEW v \in Seq(Nat), NEW on \in Nat, NEW d,
         \/ d = Speaker(0) \o Speaker(1) \o Switch(on) \o <<Ctl(Volume, v)>>
         \/ d = Speaker(0) \o Speaker(1) \o <<Ctl(Volume, v)>> \o Switch(on)
  PROVE  /\ d \in Seq(CtlTag)
         /\ Sets(SettingsOf(d), Sink, <<0, 0, 1>>) /\ Sets(SettingsOf(d), Rx, <<1>>)
         /\ Sets(SettingsOf(d), Volume, v)
         /\ \A l \in Lineouts : Sets(SettingsOf(d), l, <<on>>)
         /\ Leaves(SettingsOf(d), Source) /\ Leaves(SettingsOf(d), Tx)
<1>1. PICK a : /\ a = Speaker(0) /\ a \in Seq(CtlTag)
               /\ \A c : c \notin {Sink, Rx} => Leaves(SettingsOf(a), c)
  BY SpeakerSets
<1>2. PICK b : /\ b = Speaker(1) /\ b \in Seq(CtlTag)
               /\ Sets(SettingsOf(b), Sink, <<0, 0, 1>>) /\ Sets(SettingsOf(b), Rx, <<1>>)
               /\ \A c : c \notin {Sink, Rx} => Leaves(SettingsOf(b), c)
  BY SpeakerSets
<1>3. PICK e : /\ e = Switch(on) /\ e \in Seq(CtlTag)
               /\ \A l \in Lineouts : Sets(SettingsOf(e), l, <<on>>)
               /\ \A c : c \notin Lineouts => Leaves(SettingsOf(e), c)
  BY SwitchSets
<1>4. PICK f : /\ f = <<Ctl(Volume, v)>> /\ f \in Seq(CtlTag)
               /\ Sets(SettingsOf(f), Volume, v) /\ \A c : c # Volume => Leaves(SettingsOf(f), c)
  <2>1. Volume \in Ctls
    BY Kinds DEF Others
  <2> QED
    BY <2>1, OneSet
<1>5. /\ Sink # Volume /\ Rx # Volume /\ Source # Volume /\ Tx # Volume
      /\ Source \notin {Sink, Rx} /\ Tx \notin {Sink, Rx}
      /\ \A l \in Lineouts : l # Volume
      /\ \A c \in {Sink, Rx, Volume, Source, Tx} : c \notin Lineouts
  BY Kinds DEF Others
<1>6. PICK p : /\ p = a \o b /\ p \in Seq(CtlTag)
               /\ Sets(SettingsOf(p), Sink, <<0, 0, 1>>) /\ Sets(SettingsOf(p), Rx, <<1>>)
               /\ Leaves(SettingsOf(p), Source) /\ Leaves(SettingsOf(p), Tx)
  BY <1>1, <1>2, <1>5, Chain
<1>7. CASE d = p \o e \o f
  <2>1. PICK q : q = p \o e
    OBVIOUS
  <2>2. /\ q \in Seq(CtlTag)
        /\ Sets(SettingsOf(q), Sink, <<0, 0, 1>>) /\ Sets(SettingsOf(q), Rx, <<1>>)
    BY <1>3, <1>5, <1>6, <2>1, Chain
  <2>3. Leaves(SettingsOf(q), Source) /\ Leaves(SettingsOf(q), Tx)
    BY <1>3, <1>5, <1>6, <2>1, Chain
  <2>4. \A l \in Lineouts : Sets(SettingsOf(q), l, <<on>>)
    BY <1>3, <1>6, <2>1, Chain
  <2>5. d = q \o f
    BY <1>7, <2>1
  <2>6. d \in Seq(CtlTag) /\ Sets(SettingsOf(d), Volume, v)
    BY <1>4, <2>2, <2>5, Chain
  <2>7. Leaves(SettingsOf(d), Source) /\ Leaves(SettingsOf(d), Tx)
    BY <1>4, <1>5, <2>2, <2>3, <2>5, Chain
  <2>8. Sets(SettingsOf(d), Sink, <<0, 0, 1>>) /\ Sets(SettingsOf(d), Rx, <<1>>)
    BY <1>4, <1>5, <2>2, <2>5, Chain
  <2>9. \A l \in Lineouts : Sets(SettingsOf(d), l, <<on>>)
    BY <1>4, <1>5, <2>2, <2>4, <2>5, Chain
  <2> QED
    BY <2>6, <2>7, <2>8, <2>9
<1>8. CASE d = p \o f \o e
  <2>1. PICK q : q = p \o f
    OBVIOUS
  <2>2. /\ q \in Seq(CtlTag)
        /\ Sets(SettingsOf(q), Sink, <<0, 0, 1>>) /\ Sets(SettingsOf(q), Rx, <<1>>)
    BY <1>4, <1>5, <1>6, <2>1, Chain
  <2>3. Leaves(SettingsOf(q), Source) /\ Leaves(SettingsOf(q), Tx)
    BY <1>4, <1>5, <1>6, <2>1, Chain
  <2>4. Sets(SettingsOf(q), Volume, v)
    BY <1>4, <1>6, <2>1, Chain
  <2>5. d = q \o e
    BY <1>8, <2>1
  <2>6. d \in Seq(CtlTag) /\ Sets(SettingsOf(d), Volume, v)
    BY <1>3, <1>5, <2>2, <2>4, <2>5, Chain
  <2>7. Leaves(SettingsOf(d), Source) /\ Leaves(SettingsOf(d), Tx)
    BY <1>3, <1>5, <2>2, <2>3, <2>5, Chain
  <2>8. Sets(SettingsOf(d), Sink, <<0, 0, 1>>) /\ Sets(SettingsOf(d), Rx, <<1>>)
    BY <1>3, <1>5, <2>2, <2>5, Chain
  <2>9. \A l \in Lineouts : Sets(SettingsOf(d), l, <<on>>)
    BY <1>3, <2>2, <2>5, Chain
  <2> QED
    BY <2>6, <2>7, <2>8, <2>9
<1> QED
  BY <1>1, <1>2, <1>3, <1>4, <1>6, <1>7, <1>8

LEMMA OutputPaths ==
  /\ LET d == Contents("speaker-enable")
     IN /\ d \in Seq(CtlTag)
        /\ Sets(SettingsOf(d), Sink, <<0, 0, 1>>) /\ Sets(SettingsOf(d), Rx, <<1>>)
        /\ Sets(SettingsOf(d), Volume, Low)
        /\ \A l \in Lineouts : Sets(SettingsOf(d), l, <<1>>)
        /\ Leaves(SettingsOf(d), Source) /\ Leaves(SettingsOf(d), Tx)
  /\ LET d == Contents("headphone-enable")
     IN /\ d \in Seq(CtlTag)
        /\ Sets(SettingsOf(d), Sink, <<0, 0, 1>>) /\ Sets(SettingsOf(d), Rx, <<1>>)
        /\ Sets(SettingsOf(d), Volume, High)
        /\ \A l \in Lineouts : Sets(SettingsOf(d), l, <<0>>)
        /\ Leaves(SettingsOf(d), Source) /\ Leaves(SettingsOf(d), Tx)
  /\ \A n \in {"speaker-disable", "headphone-disable"} :
       LET d == Contents(n)
       IN /\ d \in Seq(CtlTag)
          /\ Sets(SettingsOf(d), Sink, <<0, 0, 0>>) /\ Sets(SettingsOf(d), Rx, <<0>>)
          /\ \A c : c \notin {Sink, Rx} => Leaves(SettingsOf(d), c)
<1>1. /\ Contents("speaker-enable")
           = Speaker(0) \o Speaker(1) \o Switch(1) \o <<Ctl(Volume, Low)>>
      /\ Contents("headphone-enable")
           = Speaker(0) \o Speaker(1) \o <<Ctl(Volume, High)>> \o Switch(0)
      /\ \A n \in {"speaker-disable", "headphone-disable"} : Contents(n) = Speaker(0)
  BY Zenon DEF Contents
<1>2. Low \in Seq(Nat) /\ High \in Seq(Nat)
  BY Kinds
<1>3. PICK d : d = Contents("speaker-enable")
  OBVIOUS
<1>4. PICK e : e = Contents("headphone-enable")
  OBVIOUS
<1>5. /\ d \in Seq(CtlTag)
      /\ Sets(SettingsOf(d), Sink, <<0, 0, 1>>) /\ Sets(SettingsOf(d), Rx, <<1>>)
      /\ Sets(SettingsOf(d), Volume, Low)
      /\ \A l \in Lineouts : Sets(SettingsOf(d), l, <<1>>)
      /\ Leaves(SettingsOf(d), Source) /\ Leaves(SettingsOf(d), Tx)
  BY <1>1, <1>2, <1>3, OnPath
<1>6. /\ e \in Seq(CtlTag)
      /\ Sets(SettingsOf(e), Sink, <<0, 0, 1>>) /\ Sets(SettingsOf(e), Rx, <<1>>)
      /\ Sets(SettingsOf(e), Volume, High)
      /\ \A l \in Lineouts : Sets(SettingsOf(e), l, <<0>>)
      /\ Leaves(SettingsOf(e), Source) /\ Leaves(SettingsOf(e), Tx)
  BY <1>1, <1>2, <1>4, OnPath
<1>7. PICK o : o = Speaker(0) /\ o \in Seq(CtlTag)
               /\ Sets(SettingsOf(o), Sink, <<0, 0, 0>>) /\ Sets(SettingsOf(o), Rx, <<0>>)
               /\ \A c : c \notin {Sink, Rx} => Leaves(SettingsOf(o), c)
  BY SpeakerSets
<1> QED
  BY <1>1, <1>3, <1>4, <1>5, <1>6, <1>7

LEMMA InputPaths ==
  /\ LET d == Contents("mic-enable")
     IN /\ d \in Seq(CtlTag)
        /\ Sets(SettingsOf(d), Source, <<0, 1, 1>>) /\ Sets(SettingsOf(d), Tx, <<1>>)
        /\ \A c : c \notin {Source, Tx} => Leaves(SettingsOf(d), c)
  /\ LET d == Contents("mic-disable")
     IN /\ d \in Seq(CtlTag)
        /\ Sets(SettingsOf(d), Source, <<0, 1, 0>>) /\ Sets(SettingsOf(d), Tx, <<0>>)
        /\ \A c : c \notin {Source, Tx} => Leaves(SettingsOf(d), c)
<1>1. Contents("mic-enable") = Mic(0) \o Mic(1) /\ Contents("mic-disable") = Mic(0)
  BY Zenon DEF Contents
<1>2. PICK a : /\ a = Mic(0) /\ a \in Seq(CtlTag)
               /\ Sets(SettingsOf(a), Source, <<0, 1, 0>>) /\ Sets(SettingsOf(a), Tx, <<0>>)
               /\ \A c : c \notin {Source, Tx} => Leaves(SettingsOf(a), c)
  BY MicSets
<1>3. PICK b : /\ b = Mic(1) /\ b \in Seq(CtlTag)
               /\ Sets(SettingsOf(b), Source, <<0, 1, 1>>) /\ Sets(SettingsOf(b), Tx, <<1>>)
               /\ \A c : c \notin {Source, Tx} => Leaves(SettingsOf(b), c)
  BY MicSets
<1>4. PICK d : d = a \o b
  OBVIOUS
<1>5. /\ d \in Seq(CtlTag)
      /\ Sets(SettingsOf(d), Source, <<0, 1, 1>>) /\ Sets(SettingsOf(d), Tx, <<1>>)
  BY <1>2, <1>3, <1>4, Chain
<1>6. \A c : c \notin {Source, Tx} => Leaves(SettingsOf(d), c)
  BY <1>2, <1>3, <1>4, Chain
<1> QED
  BY <1>1, <1>2, <1>3, <1>4, <1>5, <1>6

Names == {"init", "speaker-enable", "speaker-disable", "headphone-enable",
          "headphone-disable", "mic-enable", "mic-disable"}
Tag == CtlTag \cup {Ignore("Volume"), EndTag} \cup {PathTag(n) : n \in Names}

LEMMA ContentsType == \A n \in Names : Contents(n) \in Seq(CtlTag)
BY InitPath, OutputPaths, InputPaths DEF Names

LEMMA PathTags ==
  ASSUME NEW n \in Names
  PROVE  /\ Path(n) \in Seq(Tag) /\ Len(Path(n)) = 2 * Len(Contents(n)) + 2
         /\ Path(n)[1] = PathTag(n) /\ Path(n)[2 * Len(Contents(n)) + 2] = EndTag
         /\ \A i \in 1 .. Len(Contents(n)) :
              Path(n)[2 * i] = Contents(n)[i] /\ Path(n)[2 * i + 1] = EndTag
<1>1. PICK c : c = Contents(n) /\ c \in Seq(CtlTag)
  BY ContentsType
<1>2. PICK k \in Nat : k = Len(c) /\ \A i \in 1 .. k : c[i] \in CtlTag
  BY <1>1
<1>3. PICK p : p = [i \in 1 .. 2 * k + 2 |-> IF i = 1 THEN PathTag(n)
                      ELSE IF i % 2 = 0 /\ i < 2 * k + 2 THEN c[i \div 2] ELSE EndTag]
  OBVIOUS
<1>4. Path(n) = p
  BY <1>1, <1>2, <1>3 DEF Path
<1>5. ASSUME NEW i \in 1 .. 2 * k + 2
      PROVE  p[i] \in Tag
  <2>1. CASE i = 1
    BY <1>3, <2>1 DEF Tag
  <2>2. CASE i # 1 /\ i % 2 = 0 /\ i < 2 * k + 2
    <3>1. i \div 2 \in 1 .. k
      BY <1>2, <2>2
    <3>2. p[i] = c[i \div 2]
      BY <1>3, <2>2
    <3> QED
      BY <1>2, <3>1, <3>2 DEF Tag
  <2>3. CASE i # 1 /\ ~ (i % 2 = 0 /\ i < 2 * k + 2)
    <3>1. p[i] = EndTag
      BY <1>3, <2>3
    <3> QED
      BY <3>1 DEF Tag
  <2> QED
    BY <2>1, <2>2, <2>3
<1>6. p \in Seq(Tag) /\ Len(p) = 2 * k + 2
  <2>1. p \in [1 .. 2 * k + 2 -> Tag]
    BY <1>3, <1>5
  <2> QED
    BY <1>2, <2>1
<1>7. p[1] = PathTag(n) /\ p[2 * k + 2] = EndTag
  BY <1>2, <1>3
<1>8. ASSUME NEW i \in 1 .. k
      PROVE  p[2 * i] = c[i] /\ p[2 * i + 1] = EndTag
  <2>1. 2 * i \in 1 .. 2 * k + 2 /\ 2 * i + 1 \in 1 .. 2 * k + 2 /\ 2 * i # 1 /\ 2 * i + 1 # 1
    BY <1>2
  <2>2. (2 * i) % 2 = 0 /\ 2 * i < 2 * k + 2 /\ (2 * i) \div 2 = i /\ (2 * i + 1) % 2 # 0
    BY <1>2
  <2> QED
    BY <1>3, <2>1, <2>2
<1> QED
  BY <1>1, <1>2, <1>4, <1>6, <1>7, <1>8

\* What is left of the tags t, of which m have been read, and of r behind them.
From(t, m, r) == SubSeq(t \o r, m + 1, Len(t) + Len(r))

LEMMA FromStep ==
  ASSUME NEW t \in Seq(Tag), NEW r \in Seq(Tag)
  PROVE  /\ From(t, 0, r) = t \o r
         /\ From(t, Len(t), r) = r
         /\ \A m \in 0 .. Len(t) - 1 :
              /\ From(t, m, r) # <<>> /\ Head(From(t, m, r)) = t[m + 1]
              /\ Tail(From(t, m, r)) = From(t, m + 1, r)
<1>1. PICK s : s = t \o r /\ s \in Seq(Tag) /\ Len(s) = Len(t) + Len(r)
  <2>1. t \o r \in Seq(Tag) /\ Len(t \o r) = Len(t) + Len(r)
    OBVIOUS
  <2> QED
    BY <2>1, Zenon
<1>2. PICK a, b : a = Len(t) /\ b = Len(r) /\ a \in Nat /\ b \in Nat
  <2>1. Len(t) \in Nat /\ Len(r) \in Nat
    OBVIOUS
  <2> QED
    BY <2>1, Zenon
<1>3. /\ \A i \in 1 .. a : s[i] = t[i]
      /\ \A i \in 1 .. b : s[a + i] = r[i]
  BY <1>1, <1>2
<1>4. \A m \in 0 .. a : From(t, m, r) = [i \in 1 .. (a + b - m) |-> s[m + i]]
  <2> TAKE m \in 0 .. a
  <2>1. From(t, m, r) = SubSeq(s, m + 1, a + b)
    BY <1>1, <1>2 DEF From
  <2>2. SubSeq(s, m + 1, a + b) = [i \in 1 .. (1 + (a + b) - (m + 1)) |-> s[i + (m + 1) - 1]]
    BY <1>1, <1>2
  <2>3. 1 + (a + b) - (m + 1) = a + b - m /\ \A i \in Nat : i + (m + 1) - 1 = m + i
    BY <1>2
  <2> QED
    BY <2>1, <2>2, <2>3
<1>at. ASSUME NEW m \in 0 .. a, NEW u, u = From(t, m, r), NEW i \in 1 .. (a + b - m)
       PROVE  u[i] = s[m + i]
  BY <1>4, <1>at
<1>5. \A m \in 0 .. a : From(t, m, r) \in Seq(Tag) /\ Len(From(t, m, r)) = a + b - m
  <2> TAKE m \in 0 .. a
  <2>1. \A i \in 1 .. (a + b - m) : s[m + i] \in Tag
    BY <1>1, <1>2
  <2>2. a + b - m \in Nat
    BY <1>2
  <2>3. From(t, m, r) \in [1 .. (a + b - m) -> Tag]
    BY <1>4, <2>1
  <2> QED
    BY <2>2, <2>3
<1>6. From(t, 0, r) = s
  <2>1. PICK u : u = From(t, 0, r) /\ u \in Seq(Tag) /\ Len(u) = a + b
    BY <1>2, <1>5
  <2>2. \A i \in 1 .. (a + b) : u[i] = s[i]
    BY <1>2, <1>4, <2>1
  <2>3. u = s
    BY <1>1, <1>2, <2>1, <2>2, SeqEqual
  <2> QED
    BY <2>1, <2>3
<1>7. From(t, a, r) = r
  <2>1. PICK u : u = From(t, a, r) /\ u \in Seq(Tag) /\ Len(u) = b
    BY <1>2, <1>5
  <2>2. ASSUME NEW i \in 1 .. b
        PROVE  u[i] = r[i]
    <3>1. a \in 0 .. a /\ i \in 1 .. (a + b - a)
      BY <1>2
    <3>2. u[i] = s[a + i]
      BY <1>at, <2>1, <3>1
    <3> QED
      BY <1>3, <3>2
  <2>3. u = r
    BY <1>2, <2>1, <2>2, SeqEqual
  <2> QED
    BY <2>1, <2>3
<1>8. ASSUME NEW m \in 0 .. a - 1
      PROVE  /\ From(t, m, r) # <<>> /\ Head(From(t, m, r)) = t[m + 1]
             /\ Tail(From(t, m, r)) = From(t, m + 1, r)
  <2>1. PICK u : u = From(t, m, r) /\ u \in Seq(Tag) /\ Len(u) = a + b - m
    BY <1>2, <1>5
  <2>2. PICK v : v = From(t, m + 1, r) /\ v \in Seq(Tag) /\ Len(v) = a + b - (m + 1)
    BY <1>2, <1>5
  <2>3. u # <<>> /\ Head(u) = u[1] /\ Len(Tail(u)) = Len(u) - 1 /\ Tail(u) \in Seq(Tag)
        /\ \A i \in 1 .. Len(u) - 1 : Tail(u)[i] = u[i + 1]
    BY <1>2, <2>1
  <2>4. u[1] = t[m + 1]
    <3>1. m \in 0 .. a /\ 1 \in 1 .. (a + b - m) /\ m + 1 \in 1 .. a
      BY <1>2
    <3>2. u[1] = s[m + 1]
      BY <1>at, <2>1, <3>1
    <3> QED
      BY <1>3, <3>1, <3>2
  <2>5. \A i \in 1 .. Len(v) : v[i] = u[i + 1]
    <3> TAKE i \in 1 .. Len(v)
    <3>1. v[i] = s[(m + 1) + i]
      <4>1. m + 1 \in 0 .. a /\ i \in 1 .. (a + b - (m + 1))
        BY <1>2, <2>2
      <4> QED
        BY <1>at, <2>2, <4>1
    <3>2. u[i + 1] = s[m + (i + 1)]
      <4>1. m \in 0 .. a /\ i + 1 \in 1 .. (a + b - m)
        BY <1>2, <2>2
      <4> QED
        BY <1>at, <2>1, <4>1
    <3> QED
      BY <1>2, <2>2, <3>1, <3>2
  <2>6. Tail(u) = v
    <3>1. PICK w : w = Tail(u)
      OBVIOUS
    <3>2. w \in Seq(Tag) /\ Len(w) = Len(v) /\ \A i \in 1 .. Len(v) : w[i] = v[i]
      BY <1>2, <2>1, <2>2, <2>3, <2>5, <3>1
    <3>3. w = v
      BY <2>2, <3>2, SeqEqual
    <3> QED
      BY <3>1, <3>3
  <2> QED
    BY <2>1, <2>2, <2>3, <2>4, <2>6
<1> QED
  BY <1>1, <1>2, <1>6, <1>7, <1>8

-----------------------------------------------------------------------------
\* The paths in done, and one more.
With(done, n, a) == [x \in DOMAIN done \cup {n} |-> IF x = n THEN a ELSE done[x]]
Upto(ctls, i) == [j \in 1 .. i |-> [ctl |-> ctls[j].name, value |-> ctls[j].value]]

LEMMA UptoMore ==
  ASSUME NEW c \in Seq(CtlTag)
  PROVE  /\ Upto(c, 0) = <<>> /\ Upto(c, Len(c)) = SettingsOf(c)
         /\ \A i \in 0 .. Len(c) : Upto(c, i) \in Seq(Setting)
         /\ \A i \in 0 .. Len(c) - 1 :
              Upto(c, i) \o <<[ctl |-> c[i + 1].name, value |-> c[i + 1].value]>> = Upto(c, i + 1)
<1> DEFINE S(j) == [ctl |-> c[j].name, value |-> c[j].value]
<1>1. Len(c) \in Nat /\ DOMAIN c = 1 .. Len(c)
  OBVIOUS
<1>2. \A j \in 1 .. Len(c) : S(j) \in Setting
  <2>1. \A j \in 1 .. Len(c) : c[j] \in CtlTag
    OBVIOUS
  <2>2. \A j \in 1 .. Len(c) : c[j].name \in Ctls /\ c[j].value \in Seq(Nat)
    BY <2>1 DEF CtlTag
  <2> QED
    BY <2>2 DEF Setting
<1>3. Upto(c, 0) = <<>>
  BY DEF Upto
<1>4. Upto(c, Len(c)) = SettingsOf(c)
  BY <1>1 DEF Upto, SettingsOf
<1>5. \A i \in 0 .. Len(c) : Upto(c, i) \in [1 .. i -> Setting]
  BY <1>1, <1>2 DEF Upto
<1>6. \A i \in 0 .. Len(c) : Upto(c, i) \in Seq(Setting) /\ Len(Upto(c, i)) = i
  BY <1>5
<1>at. \A i \in 0 .. Len(c) : \A j \in 1 .. i : Upto(c, i)[j] = S(j)
  BY DEF Upto
<1> HIDE DEF S
<1>7. ASSUME NEW i \in 0 .. Len(c) - 1
      PROVE  Upto(c, i) \o <<S(i + 1)>> = Upto(c, i + 1)
  <2>1. PICK x, y, e : x = Upto(c, i) /\ y = Upto(c, i + 1) /\ e = S(i + 1)
    OBVIOUS
  <2>2. i + 1 \in 1 .. Len(c) /\ i \in 0 .. Len(c) /\ i + 1 \in 0 .. Len(c)
    BY <1>1
  <2>3. /\ x \in Seq(Setting) /\ Len(x) = i /\ y \in Seq(Setting) /\ Len(y) = i + 1
        /\ e \in Setting
    BY <1>2, <1>6, <2>1, <2>2
  <2>4. PICK z : z = x \o <<e>>
    OBVIOUS
  <2>5. /\ z \in Seq(Setting) /\ Len(z) = i + 1 /\ z[i + 1] = e
        /\ \A j \in 1 .. i : z[j] = x[j]
    BY <2>3, <2>4
  <2>6. \A j \in 1 .. (i + 1) : z[j] = y[j]
    <3> TAKE j \in 1 .. (i + 1)
    <3>1. CASE j = i + 1
      BY <1>at, <2>1, <2>2, <2>5, <3>1
    <3>2. CASE j \in 1 .. i
      BY <1>at, <2>1, <2>2, <2>5, <3>2
    <3> QED
      BY <2>2, <3>1, <3>2
  <2>7. z = y
    BY <2>3, <2>5, <2>6, SeqEqual
  <2> QED
    BY <2>1, <2>4, <2>7
<1> QED
  BY <1>3, <1>4, <1>6, <1>7 DEF S

LEMMA ExtendedWith ==
  ASSUME NEW done, NEW n, n \notin DOMAIN done
  PROVE  /\ Extended(done, n, <<>>) = With(done, n, <<>>)
         /\ \A a, b : Extended(With(done, n, a), n, b) = With(done, n, a \o b)
<1>1. <<>> \o <<>> = <<>>
  OBVIOUS
<1>2. Extended(done, n, <<>>) = With(done, n, <<>>)
  BY <1>1 DEF Extended, With
<1>3. ASSUME NEW a, NEW b
      PROVE  Extended(With(done, n, a), n, b) = With(done, n, a \o b)
  <2>1. PICK w : w = With(done, n, a)
    OBVIOUS
  <2>2. /\ DOMAIN w = DOMAIN done \cup {n} /\ w[n] = a
        /\ \A x \in DOMAIN done : w[x] = done[x]
    BY <2>1 DEF With
  <2>3. Extended(w, n, b) = [x \in DOMAIN done \cup {n} |-> IF x # n THEN w[x] ELSE a \o b]
    BY <2>2 DEF Extended
  <2> QED
    BY <2>1, <2>2, <2>3 DEF With
<1> QED
  BY <1>2, <1>3

\* The state of the parser.
St(l, p, q, g) == [level |-> l, path |-> p, paths |-> q, ignored |-> g]

\* Where the parser is: between two tags at the top, having made the paths in done,
\* or within the path n, of which i settings have been collected.  r is what
\* comes behind.
Between(done, r) == \E p, g : ar = St(1, p, done, g) /\ unread = r

InsideAt(done, n, r, i, g) ==
  \/ ar = St(2, n, With(done, n, Upto(Contents(n), i)), g) /\ unread = From(Path(n), 2 * i + 1, r)
  \/ /\ i > 0 /\ ar = St(3, n, With(done, n, Upto(Contents(n), i)), g)
     /\ unread = From(Path(n), 2 * i, r)

Inside(done, n, r) == \E g : \E i \in 0 .. Len(Contents(n)) : InsideAt(done, n, r, i, g)

LEMMA StartPath ==
  ASSUME NEW done, NEW n \in Names, NEW r \in Seq(Tag), n \notin DOMAIN done,
         Between(done, Path(n) \o r), start_tag \/ end_tag
  PROVE  Inside(done, n, r)'
<1>1. PICK t : t = Path(n) /\ t \in Seq(Tag) /\ t[1] = PathTag(n) /\ Len(t) \in Nat /\ Len(t) > 1
  <2>1. Len(Contents(n)) \in Nat
    BY ContentsType
  <2> QED
    BY <2>1, PathTags
<1>2. PICK m, p, g : m = 1 /\ ar = St(m, p, done, g) /\ unread = From(t, 0, r)
  <2>1. t \o r = From(t, 0, r)
    BY <1>1, FromStep
  <2> QED
    BY <1>1, <2>1 DEF Between
<1>3. 0 \in 0 .. Len(t) - 1 /\ 0 + 1 = 1
  BY <1>1
<1>4. Head(unread) = t[1] /\ Tail(unread) = From(t, 1, r)
  <2>1. PICK z : z = 0 /\ z \in 0 .. Len(t) - 1 /\ z + 1 = 1
    BY <1>3
  <2>2. Head(From(t, z, r)) = t[z + 1] /\ Tail(From(t, z, r)) = From(t, z + 1, r)
    BY <1>1, <2>1, FromStep
  <2> QED
    BY <1>2, <2>1, <2>2
<1>5. Head(unread).tag = "path" /\ Head(unread).name = n
  BY <1>1, <1>4 DEF PathTag
<1>6. start_tag
  BY <1>5 DEF end_tag
<1>7. PICK w : w = With(done, n, <<>>)
  OBVIOUS
<1>8. start_path(ar, n) = St(m, n, w, g)
  <2>1. ar.level = 1 /\ ar.paths = done
    BY <1>2 DEF St
  <2>2. start_path(ar, n) = [ar EXCEPT !.path = n, !.paths = Extended(@, n, <<>>)]
    BY <2>1 DEF start_path
  <2>3. Extended(done, n, <<>>) = w
    BY <1>7, ExtendedWith
  <2>4. start_path(ar, n) = [ar EXCEPT !.path = n, !.paths = w]
    BY <2>1, <2>2, <2>3
  <2>5. [St(m, p, done, g) EXCEPT !.path = n, !.paths = w] = St(m, n, w, g)
    <3>1. [St(m, p, done, g) EXCEPT !.path = n] = St(m, n, done, g)
      BY DEF St
    <3>2. [St(m, n, done, g) EXCEPT !.paths = w] = St(m, n, w, g)
      BY DEF St
    <3>3. [St(m, p, done, g) EXCEPT !.path = n, !.paths = w]
            = [[St(m, p, done, g) EXCEPT !.path = n] EXCEPT !.paths = w]
      BY DEF St
    <3> QED
      BY <3>1, <3>2, <3>3
  <2> QED
    BY <1>2, <2>4, <2>5
<1>9. ar' = [start_path(ar, n) EXCEPT !.level = @ + 1] /\ unread' = From(t, 1, r)
  BY <1>4, <1>5, <1>6 DEF start_tag
<1>10. m \in Nat /\ m + 1 = 2
  BY <1>2
<1>11. ar' = St(2, n, w, g)
  <2>1. PICK st : st = start_path(ar, n)
    OBVIOUS
  <2>2. st.level = m
    BY <1>8, <2>1 DEF St
  <2>3. ar' = [st EXCEPT !.level = m + 1]
    BY <1>9, <2>1, <2>2
  <2>4. [st EXCEPT !.level = m + 1] = St(m + 1, n, w, g)
    BY <1>8, <2>1 DEF St
  <2> QED
    BY <1>10, <2>3, <2>4
<1>12. Upto(Contents(n), 0) = <<>> /\ 0 \in 0 .. Len(Contents(n)) /\ 2 * 0 + 1 = 1
  BY ContentsType, UptoMore
<1>13. InsideAt(done, n, r, 0, g)'
  BY <1>1, <1>7, <1>9, <1>11, <1>12 DEF InsideAt
<1> QED
  BY <1>12, <1>13 DEF Inside

LEMMA StepPath ==
  ASSUME NEW done, NEW n \in Names, NEW r \in Seq(Tag), n \notin DOMAIN done,
         Inside(done, n, r), start_tag \/ end_tag
  PROVE  \/ Inside(done, n, r)'
         \/ Between(With(done, n, SettingsOf(Contents(n))), r)'
<1>1. PICK c, k : c = Contents(n) /\ c \in Seq(CtlTag) /\ k = Len(c) /\ k \in Nat
  <2>1. Contents(n) \in Seq(CtlTag) /\ Len(Contents(n)) \in Nat
    BY ContentsType
  <2> QED
    BY <2>1, Zenon
<1>3. PICK t : t = Path(n) /\ t \in Seq(Tag) /\ Len(t) = 2 * k + 2
               /\ t[2 * k + 2] = EndTag
               /\ \A i \in 1 .. k : t[2 * i] = c[i] /\ t[2 * i + 1] = EndTag
  <2>1. PICK t : t = Path(n)
    OBVIOUS
  <2>2. /\ t \in Seq(Tag) /\ Len(t) = 2 * k + 2
        /\ t[2 * k + 2] = EndTag
        /\ \A i \in 1 .. k : t[2 * i] = c[i] /\ t[2 * i + 1] = EndTag
    BY <1>1, <2>1, PathTags
  <2> QED
    BY <2>1, <2>2, Zenon
<1>4. PICK i \in 0 .. k : \E g : InsideAt(done, n, r, i, g)
  BY <1>1 DEF Inside
<1>5. PICK g : InsideAt(done, n, r, i, g)
  BY <1>4
<1>6. PICK w : w = With(done, n, Upto(c, i))
  OBVIOUS
<1>7. CASE ar = St(2, n, w, g) /\ unread = From(t, 2 * i + 1, r) /\ i < k
  <2>1. PICK m, j : m = 2 * i + 1 /\ m \in 0 .. Len(t) - 1 /\ j = i + 1 /\ j \in 1 .. k
                    /\ m + 1 = 2 * j /\ j > 0 /\ i \in 0 .. k - 1
    <3>1. /\ 2 * i + 1 \in 0 .. Len(t) - 1 /\ i + 1 \in 1 .. k /\ (2 * i + 1) + 1 = 2 * (i + 1)
          /\ i + 1 > 0 /\ i \in 0 .. k - 1
      BY <1>1, <1>3, <1>7
    <3> QED
      BY <3>1, Zenon
  <2>2. Head(unread) = t[m + 1] /\ Tail(unread) = From(t, m + 1, r)
    BY <1>3, <1>7, <2>1, FromStep
  <2>3. Head(unread) = c[j] /\ c[j] \in CtlTag
    BY <1>1, <1>3, <2>1, <2>2
  <2>4. Head(unread).tag = "ctl"
    BY <2>3 DEF CtlTag
  <2>5. start_tag
    BY <2>4 DEF end_tag
  <2>6. PICK e, v : e = [ctl |-> c[j].name, value |-> c[j].value] /\ v = With(done, n, Upto(c, j))
    OBVIOUS
  <2>7. Extended(w, n, <<e>>) = v
    <3>1. Upto(c, i) \o <<e>> = Upto(c, j)
      BY <1>1, <2>1, <2>6, UptoMore
    <3>2. PICK a, b : a = Upto(c, i) /\ b = <<e>>
      OBVIOUS
    <3>3. Extended(With(done, n, a), n, b) = With(done, n, a \o b)
      BY ExtendedWith
    <3> QED
      BY <1>6, <2>6, <3>1, <3>2, <3>3
  <2>8. PICK l : l = 2 /\ ar = St(l, n, w, g) /\ l \in Nat /\ l + 1 = 3
    BY <1>7
  <2>9. start_ctl(ar, c[j]) = St(l, n, v, g)
    <3>1. ar.level = l /\ ar.paths = w /\ ar.path = n
      BY <2>8 DEF St
    <3>2. start_ctl(ar, c[j]) = [ar EXCEPT !.paths = Extended(@, ar.path, <<e>>)]
      BY <2>6, <2>8, <3>1 DEF start_ctl
    <3>3. start_ctl(ar, c[j]) = [ar EXCEPT !.paths = v]
      BY <2>7, <3>1, <3>2
    <3>4. [ar EXCEPT !.paths = v] = St(l, n, v, g)
      BY <2>8 DEF St
    <3> QED
      BY <3>3, <3>4
  <2>10. ar' = [start_ctl(ar, c[j]) EXCEPT !.level = @ + 1] /\ unread' = From(t, 2 * j, r)
    BY <2>1, <2>2, <2>3, <2>4, <2>5 DEF start_tag
  <2>11. ar' = St(3, n, v, g)
    <3>1. PICK st : st = start_ctl(ar, c[j])
      OBVIOUS
    <3>2. st.level = l
      BY <2>9, <3>1 DEF St
    <3>3. ar' = [st EXCEPT !.level = l + 1]
      BY <2>10, <3>1, <3>2
    <3>4. [st EXCEPT !.level = l + 1] = St(l + 1, n, v, g)
      BY <2>9, <3>1 DEF St
    <3> QED
      BY <2>8, <3>3, <3>4
  <2>12. InsideAt(done, n, r, j, g)'
    BY <1>1, <1>3, <2>1, <2>6, <2>10, <2>11 DEF InsideAt
  <2>13. j \in 0 .. Len(Contents(n))
    BY <1>1, <2>1
  <2> QED
    BY <2>12, <2>13 DEF Inside
<1>8. CASE ar = St(2, n, w, g) /\ unread = From(t, 2 * i + 1, r) /\ i = k
  <2>1. PICK m : m = 2 * i + 1 /\ m \in 0 .. Len(t) - 1 /\ m + 1 = 2 * k + 2 /\ m + 1 = Len(t)
    <3>1. /\ 2 * i + 1 \in 0 .. Len(t) - 1 /\ (2 * i + 1) + 1 = 2 * k + 2
          /\ (2 * i + 1) + 1 = Len(t)
      BY <1>1, <1>3, <1>8
    <3> QED
      BY <3>1, Zenon
  <2>2. Head(unread) = t[m + 1] /\ Tail(unread) = From(t, m + 1, r)
    BY <1>3, <1>8, <2>1, FromStep
  <2>3. Head(unread).tag = "end" /\ Tail(unread) = r
    <3>1. From(t, Len(t), r) = r
      BY <1>3, FromStep
    <3>2. From(t, m + 1, r) = r
      BY <2>1, <3>1
    <3>3. t[m + 1] = EndTag
      BY <1>3, <2>1
    <3> QED
      BY <2>2, <3>2, <3>3 DEF EndTag
  <2>4. end_tag
    BY <2>3 DEF start_tag
  <2>5. ar' = [ar EXCEPT !.level = @ - 1] /\ unread' = r
    BY <2>3, <2>4 DEF end_tag
  <2>6. w = With(done, n, SettingsOf(c))
    BY <1>1, <1>6, <1>8, UptoMore
  <2>7. PICK l : l = 2 /\ ar = St(l, n, w, g) /\ l \in Nat /\ l - 1 = 1
    BY <1>8
  <2>8. ar' = St(l - 1, n, w, g)
    <3>1. ar.level = l
      BY <2>7 DEF St
    <3>2. ar' = [ar EXCEPT !.level = l - 1]
      BY <2>5, <3>1
    <3>3. [ar EXCEPT !.level = l - 1] = St(l - 1, n, w, g)
      BY <2>7 DEF St
    <3> QED
      BY <3>2, <3>3
  <2> QED
    BY <1>1, <2>5, <2>6, <2>7, <2>8 DEF Between
<1>9. CASE i > 0 /\ ar = St(3, n, w, g) /\ unread = From(t, 2 * i, r)
  <2>1. PICK m : m = 2 * i /\ m \in 0 .. Len(t) - 1 /\ i \in 1 .. k
    <3>1. 2 * i \in 0 .. Len(t) - 1 /\ i \in 1 .. k
      BY <1>1, <1>3, <1>9
    <3> QED
      BY <3>1, Zenon
  <2>2. Head(unread) = t[m + 1] /\ Tail(unread) = From(t, m + 1, r)
    BY <1>3, <1>9, <2>1, FromStep
  <2>3. Head(unread).tag = "end" /\ Tail(unread) = From(t, 2 * i + 1, r)
    BY <1>3, <2>1, <2>2 DEF EndTag
  <2>4. end_tag
    BY <2>3 DEF start_tag
  <2>5. ar' = [ar EXCEPT !.level = @ - 1] /\ unread' = From(t, 2 * i + 1, r)
    BY <2>3, <2>4 DEF end_tag
  <2>7. PICK l : l = 3 /\ ar = St(l, n, w, g) /\ l \in Nat /\ l - 1 = 2
    BY <1>9
  <2>8. ar' = St(2, n, w, g)
    <3>1. ar.level = l
      BY <2>7 DEF St
    <3>2. ar' = [ar EXCEPT !.level = l - 1]
      BY <2>5, <3>1
    <3>3. [ar EXCEPT !.level = l - 1] = St(l - 1, n, w, g)
      BY <2>7 DEF St
    <3> QED
      BY <2>7, <3>2, <3>3
  <2>9. InsideAt(done, n, r, i, g)'
    BY <1>1, <1>3, <1>6, <2>5, <2>8 DEF InsideAt
  <2> QED
    BY <1>1, <2>9 DEF Inside
<1>10. \/ ar = St(2, n, w, g) /\ unread = From(t, 2 * i + 1, r)
       \/ i > 0 /\ ar = St(3, n, w, g) /\ unread = From(t, 2 * i, r)
  BY <1>1, <1>3, <1>5, <1>6 DEF InsideAt
<1>11. i < k \/ i = k
  BY <1>1
<1> QED
  BY <1>7, <1>8, <1>9, <1>10, <1>11

\* The paths made, and what is behind the one being read.
Made1 == {"init"}
Made2 == Made1 \cup {"speaker-enable"}
Made3 == Made2 \cup {"speaker-disable"}
Made4 == Made3 \cup {"headphone-enable"}
Made5 == Made4 \cup {"headphone-disable"}
Made6 == Made5 \cup {"mic-enable"}
Rest7 == Path("mic-disable") \o <<>>
Rest6 == Path("mic-enable") \o Rest7
Rest5 == Path("headphone-disable") \o Rest6
Rest4 == Path("headphone-enable") \o Rest5
Rest3 == Path("speaker-disable") \o Rest4
Rest2 == Path("speaker-enable") \o Rest3
Rest1 == <<Ignore("Volume"), EndTag>> \o Rest2

LEMMA Joined ==
  /\ \A s, t \in Seq(Tag) : \E u : u = s \o t /\ u \in Seq(Tag)
  /\ \A s, t, u \in Seq(Tag) : (s \o t) \o u = s \o (t \o u)
<1>1. ASSUME NEW s \in Seq(Tag), NEW t \in Seq(Tag)
      PROVE  \E u : u = s \o t /\ u \in Seq(Tag)
  <2>1. s \o t \in Seq(Tag)
    OBVIOUS
  <2> QED
    BY <2>1, Zenon
<1>2. \A s, t, u \in Seq(Tag) : (s \o t) \o u = s \o (t \o u)
  BY ConcatAssociative
<1> QED
  BY <1>1, <1>2

LEMMA Single ==
  ASSUME NEW x \in Tag
  PROVE  \E a : a = <<x>> /\ a \in Seq(Tag) /\ Len(a) = 1 /\ a[1] = x
<1>1. <<x>> \in Seq(Tag) /\ Len(<<x>>) = 1 /\ <<x>>[1] = x
  OBVIOUS
<1> QED
  BY <1>1, Zenon

LEMMA FileInOrder ==
  /\ Rest1 \in Seq(Tag) /\ Rest2 \in Seq(Tag) /\ Rest3 \in Seq(Tag) /\ Rest4 \in Seq(Tag) /\ Rest5 \in Seq(Tag)
  /\ Rest6 \in Seq(Tag) /\ Rest7 \in Seq(Tag) /\ <<>> \in Seq(Tag)
  /\ File = Path("init") \o Rest1
<1>1. PICK a, b, c, d, e, f, g :
        /\ a = Path("init") /\ b = Path("speaker-enable") /\ c = Path("speaker-disable")
        /\ d = Path("headphone-enable") /\ e = Path("headphone-disable")
        /\ f = Path("mic-enable") /\ g = Path("mic-disable")
  OBVIOUS
<1>2. /\ a \in Seq(Tag) /\ b \in Seq(Tag) /\ c \in Seq(Tag) /\ d \in Seq(Tag)
      /\ e \in Seq(Tag) /\ f \in Seq(Tag) /\ g \in Seq(Tag)
  BY <1>1, PathTags DEF Names
<1>3. PICK x : x = <<Ignore("Volume"), EndTag>> /\ x \in Seq(Tag)
  <2>1. Ignore("Volume") \in Tag /\ EndTag \in Tag
    BY DEF Tag
  <2>2. <<Ignore("Volume"), EndTag>> \in Seq(Tag)
    BY <2>1
  <2> QED
    BY <2>2
<1>4. Rest7 = g
  BY <1>1, <1>2, ConcatEmptySeq DEF Rest7
<1>5. PICK fg : fg = f \o g /\ fg \in Seq(Tag)
  BY <1>2, Joined, Zenon
<1>6. PICK eg : eg = e \o fg /\ eg \in Seq(Tag)
  BY <1>2, <1>5, Joined, Zenon
<1>7. PICK dg : dg = d \o eg /\ dg \in Seq(Tag)
  BY <1>2, <1>6, Joined, Zenon
<1>8. PICK cg : cg = c \o dg /\ cg \in Seq(Tag)
  BY <1>2, <1>7, Joined, Zenon
<1>9. PICK bg : bg = b \o cg /\ bg \in Seq(Tag)
  BY <1>2, <1>8, Joined, Zenon
<1>10. PICK xg : xg = x \o bg /\ xg \in Seq(Tag)
  BY <1>2, <1>3, <1>9, Joined, Zenon
<1>11. Rest6 = fg /\ Rest5 = eg /\ Rest4 = dg /\ Rest3 = cg /\ Rest2 = bg /\ Rest1 = xg
  BY <1>1, <1>3, <1>4, <1>5, <1>6, <1>7, <1>8, <1>9, <1>10, Zenon DEF Rest1, Rest2, Rest3, Rest4, Rest5, Rest6
<1>12. PICK ax : ax = a \o x /\ ax \in Seq(Tag)
  BY <1>2, <1>3, Joined, Zenon
<1>13. PICK ab : ab = ax \o b /\ ab \in Seq(Tag)
  BY <1>2, <1>12, Joined, Zenon
<1>14. PICK ac : ac = ab \o c /\ ac \in Seq(Tag)
  BY <1>2, <1>13, Joined, Zenon
<1>15. PICK ad : ad = ac \o d /\ ad \in Seq(Tag)
  BY <1>2, <1>14, Joined, Zenon
<1>16. PICK ae : ae = ad \o e /\ ae \in Seq(Tag)
  BY <1>2, <1>15, Joined, Zenon
<1>17. PICK af : af = ae \o f /\ af \in Seq(Tag)
  BY <1>2, <1>16, Joined, Zenon
<1>18. File = af \o g
  BY <1>1, <1>3, <1>12, <1>13, <1>14, <1>15, <1>16, <1>17, Zenon DEF File
<1>19. af \o g = ae \o fg
  <2>1. (ae \o f) \o g = ae \o (f \o g)
    <3>1. ae \in Seq(Tag) /\ f \in Seq(Tag) /\ g \in Seq(Tag)
      BY <1>2, <1>5, <1>16, <1>17, Zenon
    <3> QED
      BY <3>1, Joined
  <2> QED
    BY <1>2, <1>5, <1>16, <1>17, <2>1, Zenon
<1>20. ae \o fg = ad \o eg
  <2>1. (ad \o e) \o fg = ad \o (e \o fg)
    <3>1. ad \in Seq(Tag) /\ e \in Seq(Tag) /\ fg \in Seq(Tag)
      BY <1>2, <1>5, <1>6, <1>15, <1>16, Zenon
    <3> QED
      BY <3>1, Joined
  <2> QED
    BY <1>2, <1>5, <1>6, <1>15, <1>16, <2>1, Zenon
<1>21. ad \o eg = ac \o dg
  <2>1. (ac \o d) \o eg = ac \o (d \o eg)
    <3>1. ac \in Seq(Tag) /\ d \in Seq(Tag) /\ eg \in Seq(Tag)
      BY <1>2, <1>6, <1>7, <1>14, <1>15, Zenon
    <3> QED
      BY <3>1, Joined
  <2> QED
    BY <1>2, <1>6, <1>7, <1>14, <1>15, <2>1, Zenon
<1>22. ac \o dg = ab \o cg
  <2>1. (ab \o c) \o dg = ab \o (c \o dg)
    <3>1. ab \in Seq(Tag) /\ c \in Seq(Tag) /\ dg \in Seq(Tag)
      BY <1>2, <1>7, <1>8, <1>13, <1>14, Zenon
    <3> QED
      BY <3>1, Joined
  <2> QED
    BY <1>2, <1>7, <1>8, <1>13, <1>14, <2>1, Zenon
<1>23. ab \o cg = ax \o bg
  <2>1. (ax \o b) \o cg = ax \o (b \o cg)
    <3>1. ax \in Seq(Tag) /\ b \in Seq(Tag) /\ cg \in Seq(Tag)
      BY <1>2, <1>8, <1>9, <1>12, <1>13, Zenon
    <3> QED
      BY <3>1, Joined
  <2> QED
    BY <1>2, <1>8, <1>9, <1>12, <1>13, <2>1, Zenon
<1>24. ax \o bg = a \o xg
  <2>1. (a \o x) \o bg = a \o (x \o bg)
    <3>1. a \in Seq(Tag) /\ x \in Seq(Tag) /\ bg \in Seq(Tag)
      BY <1>2, <1>3, <1>9, <1>10, <1>12, Zenon
    <3> QED
      BY <3>1, Joined
  <2> QED
    BY <1>2, <1>3, <1>9, <1>10, <1>12, <2>1, Zenon
<1> QED
  <2>1. File = a \o xg
    BY <1>18, <1>19, <1>20, <1>21, <1>22, <1>23, <1>24
  <2>2. <<>> \in Seq(Tag)
    OBVIOUS
  <2> QED
    BY <1>1, <1>2, <1>4, <1>5, <1>6, <1>7, <1>8, <1>9, <1>10, <1>11, <2>1, <2>2, Zenon

DonePaths(made) == [n \in made |-> SettingsOf(Contents(n))]

LEMMA DoneMore ==
  ASSUME NEW made, NEW n
  PROVE  /\ DOMAIN DonePaths(made) = made
         /\ With(DonePaths(made), n, SettingsOf(Contents(n))) = DonePaths(made \cup {n})
BY DEF DonePaths, With

\* The parser is before the path n, or within it.
Stage(made, n, r) == Between(DonePaths(made), Path(n) \o r) \/ Inside(DonePaths(made), n, r)

LEMMA StageStep ==
  ASSUME NEW made, NEW n \in Names, n \notin made, NEW r \in Seq(Tag), Stage(made, n, r)
  PROVE  /\ unread # <<>>
         /\ start_tag \/ end_tag => Stage(made, n, r)' \/ Between(DonePaths(made \cup {n}), r)'
<1>1. PICK t, k : t = Path(n) /\ t \in Seq(Tag) /\ k = Len(Contents(n)) /\ k \in Nat
                  /\ Len(t) = 2 * k + 2
  <2>1. Len(Contents(n)) \in Nat
    BY ContentsType
  <2>2. Path(n) \in Seq(Tag) /\ Len(Path(n)) = 2 * Len(Contents(n)) + 2
    BY PathTags
  <2> QED
    BY <2>1, <2>2, Zenon
<1>2. PICK done : done = DonePaths(made) /\ n \notin DOMAIN done
  BY DoneMore
<1>3. \A m \in 0 .. Len(t) - 1 : From(t, m, r) # <<>>
  BY <1>1, FromStep
<1>4. CASE Between(done, Path(n) \o r)
  <2>1. unread = From(t, 0, r)
    BY <1>1, <1>4, FromStep DEF Between
  <2>2. 0 \in 0 .. Len(t) - 1
    BY <1>1
  <2>3. unread # <<>>
    BY <1>3, <2>1, <2>2
  <2> QED
    BY <1>2, <1>4, <2>3, StartPath DEF Stage
<1>5. CASE Inside(done, n, r)
  <2>1. PICK i \in 0 .. k : unread = From(t, 2 * i + 1, r) \/ (i > 0 /\ unread = From(t, 2 * i, r))
    BY <1>1, <1>5 DEF Inside, InsideAt
  <2>2. 2 * i + 1 \in 0 .. Len(t) - 1 /\ 2 * i \in 0 .. Len(t) - 1
    BY <1>1
  <2>3. unread # <<>>
    BY <1>3, <2>1, <2>2
  <2>4. ASSUME start_tag \/ end_tag
        PROVE  Inside(done, n, r)' \/ Between(DonePaths(made \cup {n}), r)'
    <3>1. PICK w : w = With(done, n, SettingsOf(Contents(n))) /\ w = DonePaths(made \cup {n})
      BY <1>2, DoneMore
    <3>2. Inside(done, n, r)' \/ Between(w, r)'
      BY <1>2, <1>5, <2>4, <3>1, StepPath
    <3> QED
      BY <3>1, <3>2
  <2> QED
    BY <1>2, <2>3, <2>4 DEF Stage
<1> QED
  BY <1>2, <1>4, <1>5 DEF Stage

\* The control that is ignored.
Within(made, r) == \E p, g : ar = St(2, p, DonePaths(made), g) /\ unread = <<EndTag>> \o r

LEMMA IgnoreStep ==
  ASSUME NEW made, NEW r \in Seq(Tag), Between(DonePaths(made), <<Ignore("Volume"), EndTag>> \o r)
  PROVE  unread # <<>> /\ (start_tag \/ end_tag => Within(made, r)')
<1>1. PICK x, y : x = Ignore("Volume") /\ x \in Tag /\ y = EndTag /\ y \in Tag
  BY DEF Tag
<1>2. PICK p, g, d, l : ar = St(l, p, d, g) /\ d = DonePaths(made) /\ l = 1 /\ l \in Nat
                        /\ l + 1 = 2 /\ unread = <<x, y>> \o r
  BY <1>1 DEF Between
<1>3. <<x, y>> \o r = <<x>> \o (<<y>> \o r)
  <2>1. <<x>> \in Seq(Tag) /\ <<y>> \in Seq(Tag) /\ <<x, y>> = <<x>> \o <<y>>
    BY <1>1
  <2> QED
    BY <2>1, ConcatAssociative
<1>4. PICK z : z = <<y>> \o r /\ z \in Seq(Tag)
  <2>1. <<y>> \in Seq(Tag)
    BY <1>1
  <2> QED
    BY <2>1, Joined
<1>5. unread # <<>> /\ Head(unread) = x /\ Tail(unread) = z
  <2>1. PICK a : a = <<x>> /\ a \in Seq(Tag) /\ Len(a) = 1 /\ a[1] = x
    BY <1>1, Single
  <2>2. PICK k : k = 1 /\ k = Len(a) /\ 0 \in 0 .. k - 1
    BY <2>1
  <2>3. unread = From(a, 0, z)
    BY <1>2, <1>3, <1>4, <2>1, FromStep
  <2>4. From(a, Len(a), z) = z
    BY <1>4, <2>1, FromStep
  <2>5. PICK o : o = 0 /\ o \in 0 .. Len(a) - 1 /\ o + 1 = 1
    BY <2>1
  <2>6. /\ From(a, o, z) # <<>> /\ Head(From(a, o, z)) = a[o + 1]
        /\ Tail(From(a, o, z)) = From(a, o + 1, z)
    <3>1. a \in Seq(Tag) /\ z \in Seq(Tag) /\ o \in 0 .. Len(a) - 1
      BY <1>4, <2>1, <2>5
    <3>2. \A m \in 0 .. Len(a) - 1 :
            /\ From(a, m, z) # <<>> /\ Head(From(a, m, z)) = a[m + 1]
            /\ Tail(From(a, m, z)) = From(a, m + 1, z)
      BY <3>1, FromStep
    <3> QED
      BY <3>1, <3>2
  <2> QED
    BY <2>1, <2>3, <2>4, <2>5, <2>6
<1>6. Head(unread).tag = "ctl" /\ Head(unread).ignore /\ Head(unread).name = "Volume"
  BY <1>1, <1>5 DEF Ignore
<1>7. ASSUME start_tag \/ end_tag
      PROVE  Within(made, r)'
  <2>1. start_tag
    BY <1>6, <1>7 DEF end_tag
  <2>2. PICK h : h = g \cup {"Volume"}
    OBVIOUS
  <2>3. ar.level = l /\ ar.ignored = g
    BY <1>2 DEF St
  <2>4. start_ctl(ar, Head(unread)) = [ar EXCEPT !.ignored = h]
    BY <1>2, <1>6, <2>2, <2>3 DEF start_ctl
  <2>5. PICK st : st = start_ctl(ar, Head(unread))
    OBVIOUS
  <2>6. st = St(l, p, d, h)
    BY <1>2, <2>4, <2>5 DEF St
  <2>7. st.level = l
    BY <2>6 DEF St
  <2>8. ar' = [st EXCEPT !.level = l + 1] /\ unread' = z
    BY <1>5, <1>6, <2>1, <2>5, <2>7 DEF start_tag
  <2>9. [st EXCEPT !.level = l + 1] = St(l + 1, p, d, h)
    BY <2>6 DEF St
  <2>10. ar' = St(2, p, d, h)
    BY <1>2, <2>8, <2>9
  <2> QED
    BY <1>1, <1>2, <1>4, <2>8, <2>10 DEF Within
<1> QED
  BY <1>5, <1>7

LEMMA WithinStep ==
  ASSUME NEW made, NEW r \in Seq(Tag), Within(made, r)
  PROVE  unread # <<>> /\ (start_tag \/ end_tag => Between(DonePaths(made), r)')
<1>1. PICK a : a = <<EndTag>> /\ a \in Seq(Tag) /\ Len(a) = 1 /\ a[1] = EndTag
  <2>1. EndTag \in Tag
    BY DEF Tag
  <2> QED
    BY <2>1, Single
<1>2. PICK p, g, d, l : ar = St(l, p, d, g) /\ d = DonePaths(made) /\ l = 2 /\ l \in Nat
                        /\ l - 1 = 1 /\ unread = a \o r
  BY <1>1 DEF Within
<1>3. unread # <<>> /\ Head(unread) = EndTag /\ Tail(unread) = r
  <2>1. unread = From(a, 0, r) /\ From(a, Len(a), r) = r
    BY <1>1, <1>2, FromStep
  <2>2. PICK o : o = 0 /\ o \in 0 .. Len(a) - 1 /\ o + 1 = 1
    BY <1>1
  <2>3. /\ From(a, o, r) # <<>> /\ Head(From(a, o, r)) = a[o + 1]
        /\ Tail(From(a, o, r)) = From(a, o + 1, r)
    BY <1>1, <2>2, FromStep
  <2> QED
    BY <1>1, <2>1, <2>2, <2>3
<1>4. Head(unread).tag = "end"
  BY <1>3 DEF EndTag
<1>5. ASSUME start_tag \/ end_tag
      PROVE  Between(DonePaths(made), r)'
  <2>1. end_tag
    BY <1>4, <1>5 DEF start_tag
  <2>2. ar' = [ar EXCEPT !.level = @ - 1] /\ unread' = r
    BY <1>3, <2>1 DEF end_tag
  <2>3. ar.level = l
    BY <1>2 DEF St
  <2>4. [ar EXCEPT !.level = l - 1] = St(l - 1, p, d, g)
    BY <1>2 DEF St
  <2>5. ar' = St(1, p, d, g)
    BY <1>2, <2>2, <2>3, <2>4
  <2> QED
    BY <1>2, <2>2, <2>5 DEF Between
<1> QED
  BY <1>3, <1>5

\* How far the file has been read.
Parsing ==
  \/ Stage({}, "init", Rest1)
  \/ Between(DonePaths(Made1), Rest1) \/ Within(Made1, Rest2)
  \/ Stage(Made1, "speaker-enable", Rest3) \/ Stage(Made2, "speaker-disable", Rest4)
  \/ Stage(Made3, "headphone-enable", Rest5) \/ Stage(Made4, "headphone-disable", Rest6)
  \/ Stage(Made5, "mic-enable", Rest7) \/ Stage(Made6, "mic-disable", <<>>)
  \/ Between(DonePaths(Names), <<>>)

LEMMA ParsingStep ==
  ASSUME Parsing
  PROVE  /\ start_tag \/ end_tag => Parsing'
         /\ unread = <<>> => Between(DonePaths(Names), <<>>)
<1>0. /\ Rest1 \in Seq(Tag) /\ Rest2 \in Seq(Tag) /\ Rest3 \in Seq(Tag) /\ Rest4 \in Seq(Tag)
      /\ Rest5 \in Seq(Tag) /\ Rest6 \in Seq(Tag) /\ Rest7 \in Seq(Tag) /\ <<>> \in Seq(Tag)
  BY FileInOrder
<1>1. CASE Stage({}, "init", Rest1)
  <2>1. "init" \in Names /\ "init" \notin {} /\ {} \cup {"init"} = Made1
    BY DEF Names, Made1
  <2>2. /\ unread # <<>>
        /\ start_tag \/ end_tag => Stage({}, "init", Rest1)' \/ Between(DonePaths(Made1), Rest1)'
    BY <1>0, <1>1, <2>1, StageStep
  <2> QED
    BY <2>2 DEF Parsing
<1>2. CASE Between(DonePaths(Made1), Rest1)
  <2>1. unread # <<>> /\ (start_tag \/ end_tag => Within(Made1, Rest2)')
    BY <1>0, <1>2, IgnoreStep DEF Rest1
  <2> QED
    BY <2>1 DEF Parsing
<1>3. CASE Within(Made1, Rest2)
  <2>1. unread # <<>> /\ (start_tag \/ end_tag => Between(DonePaths(Made1), Rest2)')
    BY <1>0, <1>3, WithinStep
  <2> QED
    BY <2>1 DEF Parsing, Stage, Rest2
<1>4. CASE Stage(Made1, "speaker-enable", Rest3)
  <2>1. "speaker-enable" \in Names /\ "speaker-enable" \notin Made1
    BY DEF Names, Made1
  <2>2. /\ unread # <<>>
        /\ start_tag \/ end_tag => Stage(Made1, "speaker-enable", Rest3)' \/ Between(DonePaths(Made2), Rest3)'
    BY <1>0, <1>4, <2>1, StageStep DEF Made2
  <2> QED
    BY <2>2 DEF Parsing, Stage, Rest3
<1>5. CASE Stage(Made2, "speaker-disable", Rest4)
  <2>1. "speaker-disable" \in Names /\ "speaker-disable" \notin Made2
    BY DEF Names, Made1, Made2
  <2>2. /\ unread # <<>>
        /\ start_tag \/ end_tag => Stage(Made2, "speaker-disable", Rest4)' \/ Between(DonePaths(Made3), Rest4)'
    BY <1>0, <1>5, <2>1, StageStep DEF Made3
  <2> QED
    BY <2>2 DEF Parsing, Stage, Rest4
<1>6. CASE Stage(Made3, "headphone-enable", Rest5)
  <2>1. "headphone-enable" \in Names /\ "headphone-enable" \notin Made3
    BY DEF Names, Made1, Made2, Made3
  <2>2. /\ unread # <<>>
        /\ start_tag \/ end_tag => Stage(Made3, "headphone-enable", Rest5)' \/ Between(DonePaths(Made4), Rest5)'
    BY <1>0, <1>6, <2>1, StageStep DEF Made4
  <2> QED
    BY <2>2 DEF Parsing, Stage, Rest5
<1>7. CASE Stage(Made4, "headphone-disable", Rest6)
  <2>1. "headphone-disable" \in Names /\ "headphone-disable" \notin Made4
    BY DEF Names, Made1, Made2, Made3, Made4
  <2>2. /\ unread # <<>>
        /\ start_tag \/ end_tag => Stage(Made4, "headphone-disable", Rest6)' \/ Between(DonePaths(Made5), Rest6)'
    BY <1>0, <1>7, <2>1, StageStep DEF Made5
  <2> QED
    BY <2>2 DEF Parsing, Stage, Rest6
<1>8. CASE Stage(Made5, "mic-enable", Rest7)
  <2>1. "mic-enable" \in Names /\ "mic-enable" \notin Made5
    BY DEF Names, Made1, Made2, Made3, Made4, Made5
  <2>2. /\ unread # <<>>
        /\ start_tag \/ end_tag => Stage(Made5, "mic-enable", Rest7)' \/ Between(DonePaths(Made6), Rest7)'
    BY <1>0, <1>8, <2>1, StageStep DEF Made6
  <2> QED
    BY <2>2 DEF Parsing, Stage, Rest7
<1>9. CASE Stage(Made6, "mic-disable", <<>>)
  <2>1. "mic-disable" \in Names /\ "mic-disable" \notin Made6 /\ Made6 \cup {"mic-disable"} = Names
    BY DEF Names, Made1, Made2, Made3, Made4, Made5, Made6
  <2>2. /\ unread # <<>>
        /\ start_tag \/ end_tag => Stage(Made6, "mic-disable", <<>>)' \/ Between(DonePaths(Names), <<>>)'
    BY <1>0, <1>9, <2>1, StageStep
  <2> QED
    BY <2>2 DEF Parsing
<1>10. CASE Between(DonePaths(Names), <<>>)
  <2>1. unread = <<>>
    BY <1>10 DEF Between
  <2> QED
    BY <1>10, <2>1 DEF start_tag, end_tag
<1> QED
  BY <1>1, <1>2, <1>3, <1>4, <1>5, <1>6, <1>7, <1>8, <1>9, <1>10 DEF Parsing

\* What is wanted of the output and of the input, once what is still to be
\* applied has been.
Coming ==
  /\ route.out \in {"headphone", "speaker"} => Will(todo, Sink, <<0, 0, 1>>) /\ Will(todo, Rx, <<1>>)
  /\ route.out = "off" => Will(todo, Sink, <<0, 0, 0>>) /\ Will(todo, Rx, <<0>>)
  /\ Will(todo, Volume, Low) \/ \A l \in Lineouts : Will(todo, l, <<0>>)
  /\ route.out \in {"none", "speaker"} =>
       Will(todo, Volume, Low) /\ \A l \in Lineouts : Will(todo, l, <<1>>)
  /\ route.out = "headphone" =>
       Will(todo, Volume, High) /\ \A l \in Lineouts : Will(todo, l, <<0>>)
  /\ route.in = "mic" => Will(todo, Source, <<0, 1, 1>>) /\ Will(todo, Tx, <<1>>)
  /\ route.in = "off" => Will(todo, Source, <<0, 1, 0>>) /\ Will(todo, Tx, <<0>>)

RouteType ==
  /\ hardware \in [Ctls -> Seq(Nat)] /\ todo \in Seq(Setting)
  /\ phase \in {"parse", "init", "idle", "select"}
  /\ route \in [out : {"none", "headphone", "speaker", "off"}, in : {"none", "mic", "off"}]

RouteInv ==
  /\ RouteType
  /\ phase \in {"parse", "idle"} => todo = <<>>
  /\ phase = "parse" => Parsing
  /\ phase # "parse" => ar.paths = DonePaths(Names)
  /\ phase \in {"parse", "init"} => route = [out |-> "none", in |-> "none"]
  /\ phase # "parse" => Coming

LEMMA ComingMeans == phase = "idle" /\ RouteInv => Routed
<1> SUFFICES ASSUME phase = "idle", RouteInv
             PROVE  Routed
  OBVIOUS
<1>1. todo = <<>> /\ Coming /\ RouteType
  BY DEF RouteInv
<1>2. /\ route.out \in {"headphone", "speaker"} => Is(Sink, <<0, 0, 1>>) /\ Is(Rx, <<1>>)
      /\ route.out = "off" => Is(Sink, <<0, 0, 0>>) /\ Is(Rx, <<0>>)
  BY <1>1, Applied DEF Coming
<1>3. /\ Is(Volume, Low) \/ \A l \in Lineouts : Is(l, <<0>>)
      /\ route.out \in {"none", "speaker"} =>
           Is(Volume, Low) /\ \A l \in Lineouts : Is(l, <<1>>)
      /\ route.out = "headphone" =>
           Is(Volume, High) /\ \A l \in Lineouts : Is(l, <<0>>)
  BY <1>1, Applied DEF Coming
<1>4. /\ route.in = "mic" => Is(Source, <<0, 1, 1>>) /\ Is(Tx, <<1>>)
      /\ route.in = "off" => Is(Source, <<0, 1, 0>>) /\ Is(Tx, <<0>>)
  BY <1>1, Applied DEF Coming
<1>5. route.out \in {"none", "headphone", "speaker", "off"} /\ route.in \in {"none", "mic", "off"}
  BY <1>1 DEF RouteType
<1>6. route.out # "none" =>
        LET on == IF route.out = "off" THEN 0 ELSE 1 IN Is(Sink, <<0, 0, on>>) /\ Is(Rx, <<on>>)
  <2>1. CASE route.out = "off"
    BY <1>2, <2>1
  <2>2. CASE route.out \in {"headphone", "speaker"}
    BY <1>2, <2>2
  <2>3. CASE route.out = "none"
    BY <2>3
  <2> QED
    BY <1>5, <2>1, <2>2, <2>3
<1>7. route.in # "none" =>
        LET on == IF route.in = "off" THEN 0 ELSE 1 IN Is(Source, <<0, 1, on>>) /\ Is(Tx, <<on>>)
  <2>1. CASE route.in = "off"
    BY <1>4, <2>1
  <2>2. CASE route.in = "mic"
    BY <1>4, <2>2
  <2>3. CASE route.in = "none"
    BY <2>3
  <2> QED
    BY <1>5, <2>1, <2>2, <2>3
<1> QED
  BY <1>3, <1>6, <1>7 DEF Routed

\* With nothing to do, a path is to be applied.
LEMMA Starting ==
  ASSUME NEW c, NEW v, UNCHANGED <<hardware, failed>>, todo = <<>>
  PROVE  /\ Sets(todo', c, v) => Will(todo, c, v)'
         /\ Leaves(todo', c) /\ Will(todo, c, v) => Will(todo, c, v)'
<1>1. Will(todo, c, v) <=> Is(c, v)
  BY Applied
<1>2. Is(c, v)' <=> Is(c, v)
  BY DEF Is
<1>3. Will(todo, c, v)' <=> Sets(todo', c, v) \/ (Leaves(todo', c) /\ Is(c, v)')
  BY DEF Will, Sets, Leaves
<1> QED
  BY <1>1, <1>2, <1>3

LEMMA RouteStart == RouteInit => RouteInv
<1> SUFFICES ASSUME RouteInit
             PROVE  RouteInv
  OBVIOUS
<1>1. /\ phase = "parse" /\ todo = <<>> /\ ar = Parser /\ unread = File
      /\ route = [out |-> "none", in |-> "none"]
  BY DEF RouteInit
<1>2. hardware \in [Ctls -> Seq(Nat)]
  <2>1. hardware = [c \in Ctls |-> <<0>>] \/ hardware = [c \in Ctls |-> <<1>>]
    BY DEF RouteInit
  <2>2. <<0>> \in Seq(Nat) /\ <<1>> \in Seq(Nat)
    BY Kinds
  <2> QED
    BY <2>1, <2>2
<1>3. RouteType
  <2>1. todo \in Seq(Setting)
    BY <1>1
  <2> QED
    BY <1>1, <1>2, <2>1 DEF RouteType
<1>4. Parsing
  <2>1. ar = St(1, "NULL", DonePaths({}), {})
    BY <1>1 DEF Parser, St, DonePaths
  <2>2. unread = Path("init") \o Rest1
    BY <1>1, FileInOrder
  <2> QED
    BY <2>1, <2>2 DEF Parsing, Stage, Between
<1> QED
  BY <1>1, <1>3, <1>4 DEF RouteInv

LEMMA ParseKeeps == RouteInv /\ (start_tag \/ end_tag) => RouteInv'
<1> SUFFICES ASSUME RouteInv, start_tag \/ end_tag
             PROVE  RouteInv'
  OBVIOUS
<1>1. phase = "parse" /\ UNCHANGED <<hardware, todo, phase, route, failed>>
  BY DEF start_tag, end_tag
<1>2. Parsing'
  BY <1>1, ParsingStep DEF RouteInv
<1> QED
  BY <1>1, <1>2 DEF RouteInv, RouteType

LEMMA ApplyInitKeeps == RouteInv /\ ApplyInit => RouteInv'
<1> SUFFICES ASSUME RouteInv, ApplyInit
             PROVE  RouteInv'
  OBVIOUS
<1>1. /\ phase = "parse" /\ unread = <<>> /\ phase' = "init" /\ todo' = ar.paths["init"]
      /\ todo = <<>> /\ route = [out |-> "none", in |-> "none"]
      /\ UNCHANGED <<hardware, ar, unread, route, failed>>
  BY DEF ApplyInit, RouteInv
<1>2. ar.paths = DonePaths(Names)
  <2>1. Between(DonePaths(Names), <<>>)
    BY <1>1, ParsingStep DEF RouteInv
  <2>2. PICK p, g, d : ar = St(1, p, d, g) /\ d = DonePaths(Names)
    BY <2>1 DEF Between
  <2> QED
    BY <2>2 DEF St
<1>3. todo' = SettingsOf(Contents("init"))
  BY <1>1, <1>2 DEF DonePaths, Names
<1>4. todo' \in Seq(Setting)
  BY <1>3, InitPath, SettingsOfType
<1>5. \A l \in Lineouts : Will(todo, l, <<1>>)'
  <2> TAKE l \in Lineouts
  <2>1. PICK v : v = <<1>> /\ Sets(todo', l, v)
    BY <1>3, InitPath
  <2> QED
    BY <1>1, <2>1, Starting
<1>6. Will(todo, Volume, Low)'
  <2>1. Sets(todo', Volume, Low)
    BY <1>3, InitPath
  <2> QED
    BY <1>1, <2>1, Starting
<1>7. Coming'
  BY <1>1, <1>5, <1>6 DEF Coming
<1> QED
  BY <1>1, <1>2, <1>4, <1>7 DEF RouteInv, RouteType

LEMMA ApplyingKeeps == RouteInv /\ path_apply => RouteInv'
<1> SUFFICES ASSUME RouteInv, path_apply
             PROVE  RouteInv'
  OBVIOUS
<1>1. todo # <<>> /\ todo' = Tail(todo) /\ UNCHANGED <<ar, unread, phase, route>>
  BY DEF path_apply
<1>2. RouteType /\ phase \notin {"parse", "idle"} /\ Coming
  BY <1>1 DEF RouteInv
<1>3. hardware \in [Ctls -> Seq(Nat)] /\ todo \in Seq(Setting)
  BY <1>2 DEF RouteType
<1>4. todo' \in Seq(Setting)
  BY <1>1, <1>3
<1>5. hardware' \in [Ctls -> Seq(Nat)]
  <2>1. PICK s : s = Head(todo) /\ s \in Setting
    BY <1>1, <1>3
  <2>2. s.ctl \in Ctls /\ s.value \in Seq(Nat)
    BY <2>1 DEF Setting
  <2>3. hardware' = [hardware EXCEPT ![s.ctl] = s.value] \/ hardware' = hardware
    BY <2>1 DEF path_apply
  <2> QED
    BY <1>3, <2>2, <2>3
<1>6. \A c \in Ctls : \A v : Will(todo, c, v) => Will(todo, c, v)'
  BY <1>3, ApplyKeeps
<1>7. Coming'
  <2>1. /\ Sink \in Ctls /\ Source \in Ctls /\ Volume \in Ctls /\ Rx \in Ctls /\ Tx \in Ctls
        /\ Lineouts \subseteq Ctls
    BY Kinds DEF Others
  <2>2. route' = route
    BY <1>1
  <2>3. /\ route.out \in {"headphone", "speaker"} =>
             Will(todo, Sink, <<0, 0, 1>>)' /\ Will(todo, Rx, <<1>>)'
        /\ route.out = "off" => Will(todo, Sink, <<0, 0, 0>>)' /\ Will(todo, Rx, <<0>>)'
    BY <1>2, <1>6, <2>1 DEF Coming
  <2>4. Will(todo, Volume, Low)' \/ \A l \in Lineouts : Will(todo, l, <<0>>)'
    BY <1>2, <1>6, <2>1 DEF Coming
  <2>5. /\ route.out \in {"none", "speaker"} =>
             Will(todo, Volume, Low)' /\ \A l \in Lineouts : Will(todo, l, <<1>>)'
        /\ route.out = "headphone" =>
             Will(todo, Volume, High)' /\ \A l \in Lineouts : Will(todo, l, <<0>>)'
    BY <1>2, <1>6, <2>1 DEF Coming
  <2>6. /\ route.in = "mic" => Will(todo, Source, <<0, 1, 1>>)' /\ Will(todo, Tx, <<1>>)'
        /\ route.in = "off" => Will(todo, Source, <<0, 1, 0>>)' /\ Will(todo, Tx, <<0>>)'
    BY <1>2, <1>6, <2>1 DEF Coming
  <2> QED
    BY <2>2, <2>3, <2>4, <2>5, <2>6 DEF Coming
<1> QED
  BY <1>1, <1>2, <1>4, <1>5, <1>7 DEF RouteInv, RouteType

\* Nothing but the copies changes, and there is nothing to apply.
LEMMA SettledKeeps ==
  ASSUME RouteInv, todo = <<>>, phase # "parse", phase' = "idle",
         UNCHANGED <<hardware, failed, todo, route, ar>>
  PROVE  RouteInv'
<1>1. \A c, v : Will(todo, c, v) => Will(todo, c, v)'
  BY DEF Will, Is, Sets, Leaves
<1>2. Coming'
  <2>1. Coming /\ route' = route
    BY DEF RouteInv
  <2> QED
    BY <1>1, <2>1 DEF Coming
<1> QED
  BY <1>2 DEF RouteInv, RouteType

LEMMA SelectKeeps == RouteInv /\ select_devices => RouteInv'
<1> SUFFICES ASSUME RouteInv, select_devices
             PROVE  RouteInv'
  OBVIOUS
<1>1. /\ phase = "idle" /\ phase' = "select" /\ UNCHANGED <<ar, unread, hardware, failed>>
      /\ todo = <<>> /\ Coming /\ RouteType /\ ar.paths = DonePaths(Names)
  BY DEF select_devices, Select, RouteInv
<1>2. \A n \in Names : ar.paths[n] = SettingsOf(Contents(n))
  BY <1>1 DEF DonePaths
<1>3. \A c, v : Sets(todo', c, v) => Will(todo, c, v)'
  BY <1>1, Starting
<1>4. \A c, v : Leaves(todo', c) /\ Will(todo, c, v) => Will(todo, c, v)'
  BY <1>1, Starting
<1>5. ASSUME NEW n \in Names, todo' = ar.paths[n], Coming',
             route' \in [out : {"none", "headphone", "speaker", "off"}, in : {"none", "mic", "off"}]
      PROVE  RouteInv'
  <2>1. todo' \in Seq(Setting)
    BY <1>2, <1>5, ContentsType, SettingsOfType
  <2> QED
    BY <1>1, <1>5, <2>1 DEF RouteInv, RouteType
<1>6. /\ \A l \in Lineouts : l # Sink /\ l # Rx /\ l # Source /\ l # Tx
      /\ Volume \notin {Sink, Rx} /\ Volume \notin {Source, Tx}
      /\ Source \notin {Sink, Rx} /\ Tx \notin {Sink, Rx}
      /\ Sink \notin {Source, Tx} /\ Rx \notin {Source, Tx}
  BY Kinds DEF Others
<1>7. CASE Select("out", "headphone", "headphone-enable")
  <2>1. PICK d : /\ d = SettingsOf(Contents("headphone-enable")) /\ todo' = d
                 /\ route' = [route EXCEPT !["out"] = "headphone"]
                 /\ "headphone-enable" \in Names /\ todo' = ar.paths["headphone-enable"]
    BY <1>2, <1>7 DEF Select, Names
  <2>2. route'.out = "headphone" /\ route'.in = route.in
    BY <1>1, <2>1 DEF RouteType
  <2>3. /\ Will(todo, Sink, <<0, 0, 1>>)' /\ Will(todo, Rx, <<1>>)' /\ Will(todo, Volume, High)'
        /\ \A l \in Lineouts : Will(todo, l, <<0>>)'
    BY <1>3, <2>1, OutputPaths
  <2>4. Leaves(todo', Source) /\ Leaves(todo', Tx)
    BY <2>1, OutputPaths
  <2>5. Coming'
    BY <1>1, <1>4, <2>2, <2>3, <2>4 DEF Coming
  <2> QED
    BY <1>1, <1>5, <2>1, <2>5 DEF RouteType
<1>8. CASE Select("out", "speaker", "speaker-enable")
  <2>1. PICK d : /\ d = SettingsOf(Contents("speaker-enable")) /\ todo' = d
                 /\ route' = [route EXCEPT !["out"] = "speaker"]
                 /\ "speaker-enable" \in Names /\ todo' = ar.paths["speaker-enable"]
    BY <1>2, <1>8 DEF Select, Names
  <2>2. route'.out = "speaker" /\ route'.in = route.in
    BY <1>1, <2>1 DEF RouteType
  <2>3. /\ Will(todo, Sink, <<0, 0, 1>>)' /\ Will(todo, Rx, <<1>>)' /\ Will(todo, Volume, Low)'
        /\ \A l \in Lineouts : Will(todo, l, <<1>>)'
    BY <1>3, <2>1, OutputPaths
  <2>4. Leaves(todo', Source) /\ Leaves(todo', Tx)
    BY <2>1, OutputPaths
  <2>5. Coming'
    BY <1>1, <1>4, <2>2, <2>3, <2>4 DEF Coming
  <2> QED
    BY <1>1, <1>5, <2>1, <2>5 DEF RouteType
<1>9. CASE Select("out", "off", "speaker-disable")
  <2>1. PICK d : /\ d = SettingsOf(Contents("speaker-disable")) /\ todo' = d
                 /\ route' = [route EXCEPT !["out"] = "off"]
                 /\ "speaker-disable" \in Names /\ todo' = ar.paths["speaker-disable"]
    BY <1>2, <1>9 DEF Select, Names
  <2>2. route'.out = "off" /\ route'.in = route.in
    BY <1>1, <2>1 DEF RouteType
  <2>3. Will(todo, Sink, <<0, 0, 0>>)' /\ Will(todo, Rx, <<0>>)'
    BY <1>3, <2>1, OutputPaths
  <2>4. \A c : c \notin {Sink, Rx} => Leaves(todo', c)
    BY <2>1, OutputPaths
  <2>5. Coming'
    BY <1>1, <1>4, <1>6, <2>2, <2>3, <2>4 DEF Coming
  <2> QED
    BY <1>1, <1>5, <2>1, <2>5 DEF RouteType
<1>10. CASE Select("in", "mic", "mic-enable")
  <2>1. PICK d : /\ d = SettingsOf(Contents("mic-enable")) /\ todo' = d
                 /\ route' = [route EXCEPT !["in"] = "mic"]
                 /\ "mic-enable" \in Names /\ todo' = ar.paths["mic-enable"]
    BY <1>2, <1>10 DEF Select, Names
  <2>2. route'.in = "mic" /\ route'.out = route.out
    BY <1>1, <2>1 DEF RouteType
  <2>3. Will(todo, Source, <<0, 1, 1>>)' /\ Will(todo, Tx, <<1>>)'
    BY <1>3, <2>1, InputPaths
  <2>4. \A c : c \notin {Source, Tx} => Leaves(todo', c)
    BY <2>1, InputPaths
  <2>5. Coming'
    BY <1>1, <1>4, <1>6, <2>2, <2>3, <2>4 DEF Coming
  <2> QED
    BY <1>1, <1>5, <2>1, <2>5 DEF RouteType
<1>11. CASE Select("in", "off", "mic-disable")
  <2>1. PICK d : /\ d = SettingsOf(Contents("mic-disable")) /\ todo' = d
                 /\ route' = [route EXCEPT !["in"] = "off"]
                 /\ "mic-disable" \in Names /\ todo' = ar.paths["mic-disable"]
    BY <1>2, <1>11 DEF Select, Names
  <2>2. route'.in = "off" /\ route'.out = route.out
    BY <1>1, <2>1 DEF RouteType
  <2>3. Will(todo, Source, <<0, 1, 0>>)' /\ Will(todo, Tx, <<0>>)'
    BY <1>3, <2>1, InputPaths
  <2>4. \A c : c \notin {Source, Tx} => Leaves(todo', c)
    BY <2>1, InputPaths
  <2>5. Coming'
    BY <1>1, <1>4, <1>6, <2>2, <2>3, <2>4 DEF Coming
  <2> QED
    BY <1>1, <1>5, <2>1, <2>5 DEF RouteType
<1> QED
  BY <1>7, <1>8, <1>9, <1>10, <1>11 DEF select_devices

LEMMA RouteInvHolds == RouteSpec => []RouteInv
<1>1. RouteInv /\ [RouteNext]_routeVars => RouteInv'
  <2> SUFFICES ASSUME RouteInv, [RouteNext]_routeVars
               PROVE  RouteInv'
    OBVIOUS
  <2>1. CASE start_tag \/ end_tag
    BY <2>1, ParseKeeps
  <2>2. CASE ApplyInit
    BY <2>2, ApplyInitKeeps
  <2>3. CASE path_apply
    BY <2>3, ApplyingKeeps
  <2>4. CASE audio_route_init
    BY <2>4, SettledKeeps DEF audio_route_init
  <2>5. CASE EndSelect
    BY <2>5, SettledKeeps DEF EndSelect
  <2>6. CASE select_devices
    BY <2>6, SelectKeeps
  <2>7. CASE UNCHANGED routeVars
    <3>1. UNCHANGED <<hardware, failed, todo, route, ar, unread, phase>>
      BY <2>7 DEF routeVars
    <3>2. Coming' <=> Coming
      BY <3>1 DEF Coming, Will, Sets, Leaves, Is
    <3>3. Parsing' <=> Parsing
      BY <3>1 DEF Parsing, Stage, Between, Inside, InsideAt, Within
    <3> QED
      BY <3>1, <3>2, <3>3 DEF RouteInv, RouteType
  <2> QED
    BY <2>1, <2>2, <2>3, <2>4, <2>5, <2>6, <2>7 DEF RouteNext
<1> QED
  BY <1>1, RouteStart, PTL DEF RouteSpec

\* Between two calls the hardware is routed as the last call for the output and the
\* last call for the input asked, whatever writes failed and however many line
\* outputs there are, with the paths the parser has made of the file.
THEOREM RoutesHold == RouteSpec => []Routed
<1>1. RouteInv => Routed
  BY ComingMeans DEF Routed
<1> QED
  BY <1>1, RouteInvHolds, PTL

=============================================================================
