------------------------- MODULE CameraSessionProofs -------------------------
(***************************************************************************)
(* Proofs about CameraSession, for any cameras, threads and number of      *)
(* objects made.                                                           *)
(***************************************************************************)
EXTENDS CameraSession, TLAPS

Stopping == {"cancel", "held", "timeout", "streaming", "end"}
Dropped == {"destroy", "forget"}
Deleting == {"delete", "deleting", "freed"}
Working == Framing \cup {"frame end", "focus lock", "af", "focus", "af unlock",
                         "focus done", "focus end"}
Places == {"idle", "create", "start", "frame", "ops", "focus"} \cup Stopping \cup Dropped
            \cup Deleting

App == [op : {"none", "open", "close", "cancel", "stop", "release", "start", "focus"},
        at : Places, id : Ids \cup {0}, by : Threads]
Worker == [at : {"none", "new frame", "new focus"} \cup Working \cup Dropped,
           from : Nat, obj : Nat]

TypeInv ==
  /\ session \in [Ids -> {"closed", "open", "released"}]
  /\ newest \in 0 .. MaxObjects
  /\ refs \in [Objects -> SUBSET (Ids \cup Threads)]
  /\ singleton \in Nat /\ singleton_releasing \in BOOLEAN
  /\ deleted \in SUBSET (0 .. newest) /\ misused \in BOOLEAN
  /\ cam \in Cam /\ focusing \in BOOLEAN
  /\ app \in App /\ (app.at # "idle" => app.id \in Ids)
  /\ worker \in [Workers -> Worker]

\* There is one object at most, and references to no other.
ObjectInv ==
  /\ live = {} \/ (newest # 0 /\ live = {newest})
  /\ singleton = IF live = {} THEN 0 ELSE newest
  /\ \A o \in Objects : refs[o] # {} =>
       o = newest /\ (o \notin deleted => libmmcamera = o /\ live = {o})

Refers(r) == newest \in Objects /\ r \in refs[newest]

\* Who works with the object holds a reference to it.  The object of a camera
\* that nobody has released has a reference that is not a thread's.
HolderInv ==
  /\ \A i \in Ids : session[i] # "closed" => Refers(i)
  /\ \A i \in Ids : session[i] = "released" => singleton_releasing
  /\ \A w \in Workers : worker[w].at \in Working => worker[w].obj = newest /\ Refers(w)
  /\ app.at = "start" => Refers("app") /\ newest \notin deleted
  /\ app.at \in Stopping => session[app.id] = "open"
  /\ live # {} /\ ~singleton_releasing => \E r \in Ids \cup {"app"} : Refers(r)

Dying == newest \in Objects /\ live = {newest} /\ singleton_releasing /\ refs[newest] = {}

\* An object whose camera has not started: createInstance alone refers to it,
\* and nobody does any more when it has returned.
DeletedInv ==
  /\ app.at \in Deleting => newest \in deleted /\ newest \in Objects /\ refs[newest] = {"app"}
  /\ app.at = "freed" => live = {}
  /\ newest \in deleted /\ app.at \notin Deleting =>
       live = {} /\ \A o \in Objects : refs[o] = {}

\* Only the one that has dropped the last reference destroys the object, and
\* the next cannot be made meanwhile.
DestroyInv ==
  /\ app.at \in Dropped => Dying
  /\ \A w \in Workers : worker[w].at \in Dropped =>
       /\ Dying /\ worker[w].obj = newest /\ app.at \notin Dropped
       /\ \A u \in Workers : worker[u].at \in Dropped => u = w

\* Whoever focuses has mCameraRunningLock.
FocusInv ==
  focusing => cam.mCameraRunning /\ \E w \in Workers : worker[w].at = "focus"

HeldInv == ObjectInv /\ HolderInv /\ DeletedInv /\ DestroyInv

IInv == TypeInv /\ FocusInv /\ (misused \/ HeldInv)

-----------------------------------------------------------------------------
(* Types.                                                                   *)

\* Where a call and a thread are after a step.
LEMMA AppGoes ==
  ASSUME app \in App, NEW from,
         NEW to \in Places, Goes(from, to)
  PROVE  app' \in App /\ app.at = from /\ app'.at = to /\ app'.id = app.id /\ app'.op = app.op
  BY DEF App, Goes

LEMMA AppReturns == Idle \in App /\ Idle.at = "idle"
  BY DEF App, Idle, Places, Threads

\* Where a call begins.
LEMMA AppBegins ==
  ASSUME NEW i \in Ids, NEW op \in {"open", "start", "focus", "close"}, NEW at \in Places,
         app' = [Idle EXCEPT !.op = op, !.at = at, !.id = i]
  PROVE  app' \in App /\ app'.at = at /\ app'.id = i
  BY DEF App, Idle, Threads

LEMMA AppCalls ==
  ASSUME NEW i \in Ids, NEW op \in {"cancel", "stop", "release"}, NEW t \in Threads,
         Begins(i, op, t)
  PROVE  /\ app = Idle /\ session[i] = "open"
         /\ app' \in App /\ app'.at \in {"cancel", "timeout", "end"} /\ app'.id = i
<1>1. PICK at \in {"cancel", "timeout", "end"} : app' = [op |-> op, at |-> at, id |-> i, by |-> t]
  BY DEF Begins
<1>2. {"cancel", "timeout", "end"} \subseteq Places
  BY DEF Places, Stopping
<1> QED
  BY <1>1, <1>2 DEF Begins, App

LEMMA WorkerGoesOn ==
  ASSUME TypeInv, NEW w \in Workers, NEW from, NEW to \in Working \cup Dropped, WorkerGoes(w, from, to)
  PROVE  /\ worker' \in [Workers -> Worker] /\ worker[w].at = from
         /\ worker'[w].at = to /\ worker'[w].obj = worker[w].obj
         /\ \A u \in Workers \ {w} : worker'[u] = worker[u]
  BY DEF TypeInv, Worker, WorkerGoes

LEMMA WorkerEnds == NoWorker \in Worker /\ NoWorker.at = "none"
  BY DEF Worker, NoWorker

LEMMA NewestType == TypeInv => newest \in Nat /\ (newest # 0 => newest \in Objects)
  BY SessionAssumption DEF TypeInv, Objects

\* A new thread has the place of none.
LEMMA SpawnedOne ==
  ASSUME TypeInv, NEW at \in {"new frame", "new focus"}, CanSpawn, Spawned(at)
  PROVE  /\ worker' \in [Workers -> Worker]
         /\ \E w \in Workers : /\ worker[w].at = "none" /\ worker'[w].at = at
                               /\ \A u \in Workers \ {w} : worker'[u] = worker[u]
<1> DEFINE w == CHOOSE w \in Workers : worker[w].at = "none"
<1>1. w \in Workers /\ worker[w].at = "none"
  BY DEF CanSpawn
<1>2. worker' = [worker EXCEPT ![w] = [at |-> at, from |-> newest, obj |-> 0]]
  BY DEF Spawned
<1>3. [at |-> at, from |-> newest, obj |-> 0] \in Worker
  <2>1. newest \in Nat
    BY NewestType
  <2> QED
    BY <2>1 DEF Worker
<1> HIDE DEF w
<1>4. worker' \in [Workers -> Worker]
  BY <1>1, <1>2, <1>3 DEF TypeInv
<1>5. worker'[w].at = at /\ \A u \in Workers \ {w} : worker'[u] = worker[u]
  BY <1>1, <1>2 DEF TypeInv
<1> QED
  BY <1>1, <1>4, <1>5

LEMMA TypeInit == Init => TypeInv
<1> SUFFICES ASSUME Init PROVE TypeInv
  OBVIOUS
<1>1. MaxObjects \in Nat
  BY SessionAssumption
<1>2. cam \in Cam /\ focusing \in BOOLEAN
  BY DEF Init, New, Cam
<1>3. newest \in 0 .. MaxObjects
  BY <1>1 DEF Init
<1>6. /\ session \in [Ids -> {"closed", "open", "released"}] /\ singleton_releasing \in BOOLEAN
      /\ singleton \in Nat /\ deleted \in SUBSET (0 .. newest) /\ misused \in BOOLEAN
  BY DEF Init
<1>5. refs \in [Objects -> SUBSET (Ids \cup Threads)]
  BY DEF Init
<1>4. app \in App /\ app.at = "idle" /\ worker \in [Workers -> Worker]
  BY AppReturns, WorkerEnds DEF Init
<1> QED
  BY <1>2, <1>3, <1>4, <1>5, <1>6 DEF TypeInv

\* The calls of the service.
LEMMA TypeCall == TypeInv /\ Call => TypeInv'
<1> SUFFICES ASSUME TypeInv, NEW i \in Ids,
                    \/ Open(i) \/ Close(i) \/ StartPreview(i) \/ AutoFocus(i)
                    \/ \E op \in {"cancel", "stop", "release"} : BeginCancel(i, op)
             PROVE  TypeInv'
  BY DEF Call
<1> USE DEF TypeInv, objectVars
<1>1. CASE Open(i) \/ StartPreview(i) \/ AutoFocus(i)
  <2>1. {"create", "frame", "focus"} \subseteq Places
    BY DEF Places
  <2>2. app' \in App /\ app'.id = i
    BY <1>1, <2>1, AppBegins DEF Open, StartPreview, AutoFocus
  <2> QED
    BY <1>1, <2>2 DEF Open, StartPreview, AutoFocus
<1>2. CASE Close(i)
  <2>1. refs' \in [Objects -> SUBSET (Ids \cup Threads)]
    BY <1>2 DEF Close, Drops
  <2>2. app' \in App /\ (app'.at # "idle" => app'.id \in Ids)
    BY <1>2, AppReturns, AppBegins DEF Close, Places, Dropped
  <2> QED
    BY <1>2, <2>1, <2>2 DEF Close
<1>3. ASSUME NEW op \in {"cancel", "stop", "release"}, BeginCancel(i, op) PROVE TypeInv'
  <2>1. app' \in App /\ app'.id = i
    BY <1>3, AppCalls DEF BeginCancel, Threads
  <2> QED
    BY <1>3, <2>1 DEF BeginCancel
<1> QED
  BY <1>1, <1>2, <1>3

\* The rest of a call.
LEMMA TypeCallStep == TypeInv /\ CallStep => TypeInv'
<1> SUFFICES ASSUME TypeInv, CallStep PROVE TypeInv'
  OBVIOUS
<1> USE DEF TypeInv, objectVars
<1>1. CASE UnknownCamera \/ GiveUp \/ NoDevice \/ EndCall \/ InitPreviewFails \/ AutoFocusNoThread
  BY <1>1, AppReturns DEF UnknownCamera, GiveUp, NoDevice, EndCall, InitPreviewFails,
                          AutoFocusNoThread, Returns
<1>2. CASE ShareObject
  <2>1. app.id \in Ids
    BY <1>2 DEF ShareObject, Returns
  <2>2. refs' \in [Objects -> SUBSET (Ids \cup Threads)]
    BY <1>2, <2>1 DEF ShareObject
  <2> QED
    BY <1>2, <2>1, <2>2, AppReturns DEF ShareObject, Returns, Opened
<1>3. CASE Construct
  <2>1. /\ newest' \in 0 .. MaxObjects /\ singleton' \in Nat
        /\ deleted' \in SUBSET (0 .. newest')
    BY <1>3, SessionAssumption DEF Construct
  <2>2. refs' \in [Objects -> SUBSET (Ids \cup Threads)]
    BY <1>3 DEF Construct, Threads
  <2>3. cam' \in Cam /\ focusing' \in BOOLEAN
    BY <1>3 DEF Construct, New, Cam
  <2>4. app' \in App /\ app'.id \in Ids
    BY <1>3, AppGoes DEF Construct, Goes, Places
  <2> QED
    BY <1>3, <2>1, <2>2, <2>3, <2>4 DEF Construct
<1>4. CASE StartCamera
  <2>1. app.id \in Ids
    BY <1>4 DEF StartCamera, Returns
  <2>2. refs' \in [Objects -> SUBSET (Ids \cup Threads)]
    BY <1>4, <2>1 DEF StartCamera
  <2> QED
    BY <1>4, <2>1, <2>2, AppReturns DEF StartCamera, Returns, Opened
<1>5. CASE Destroy
  <2>1. CASE Goes("destroy", "forget") /\ LeaveLibrary(newest) /\ UNCHANGED worker
    <3>1. app' \in App /\ app'.id \in Ids
      BY <2>1, AppGoes DEF Dropped, Places
    <3> QED
      BY <2>1, <3>1 DEF LeaveLibrary
  <2>2. CASE Returns("forget") /\ ForgetSingleton(newest) /\ UNCHANGED worker
    BY <2>2, AppReturns DEF ForgetSingleton, Returns
  <2> QED
    BY <1>5, <2>1, <2>2 DEF Destroy
<1>6. CASE CancelFocus
  <2>1. app' \in App /\ app'.id \in Ids
    BY <1>6, AppGoes DEF CancelFocus, AfterCancel, Stopping, Places
  <2> QED
    BY <1>6, <2>1 DEF CancelFocus
<1>7. CASE UnlockAf
  <2>1. app' \in App /\ app'.id \in Ids
    BY <1>7, AppGoes DEF UnlockAf, AfterCancel, Stopping, Places
  <2> QED
    BY <1>7, <2>1 DEF UnlockAf
<1>8. CASE LockTimeout
  <2>1. app' \in App /\ app'.id \in Ids
    BY <1>8, AppGoes DEF LockTimeout, Stopping, Places
  <2> QED
    BY <1>8, <2>1 DEF LockTimeout
<1>9. CASE StopStreaming
  <2>1. app' \in App /\ app'.id \in Ids
    BY <1>9, AppGoes DEF StopStreaming, Stopping, Places
  <2>2. cam' \in Cam
    BY <1>9 DEF StopStreaming, Stopped, Cam
  <2> QED
    BY <1>9, <2>1, <2>2 DEF StopStreaming
<1>10. CASE EndRelease
  BY <1>10, AppReturns DEF EndRelease, Returns, Releases, Released
<1>11. CASE InitPreview
  <2>0. Goes("frame", "ops")
    BY <1>11 DEF InitPreview
  <2>1. app' \in App /\ app'.id \in Ids
    BY <2>0, AppGoes DEF Places
  <2>2. worker' \in [Workers -> Worker]
    BY <1>11, SpawnedOne DEF InitPreview
  <2>3. cam' \in Cam
    BY <1>11 DEF InitPreview, Cam
  <2> QED
    BY <1>11, <2>1, <2>2, <2>3 DEF InitPreview
<1>12. CASE StartOps
  <2>1. cam' \in Cam
    BY <1>12 DEF StartOps, Cam
  <2>2. app' \in App /\ app'.at = "idle"
    BY <1>12, AppReturns DEF StartOps, Returns
  <2>3. UNCHANGED <<session, objectVars, focusing, worker>>
    BY <1>12 DEF StartOps
  <2> QED
    BY <2>1, <2>2, <2>3
<1>13. CASE AutoFocusThread
  <2>1. worker' \in [Workers -> Worker]
    BY <1>13, SpawnedOne DEF AutoFocusThread
  <2>2. cam' \in Cam
    BY <1>13 DEF AutoFocusThread, Cam
  <2> QED
    BY <1>13, <2>1, <2>2, AppReturns DEF AutoFocusThread, Returns
<1>14. CASE StartFails \/ DeleteCamera
  <2>1. app' \in App /\ app'.id \in Ids
    BY <1>14, AppGoes DEF StartFails, DeleteCamera, Deleting, Places, Goes
  <2>2. deleted' \in SUBSET (0 .. newest) /\ misused' \in BOOLEAN
    <3>1. CASE StartFails
      <4>1. newest \in 0 .. newest
        BY SessionAssumption
      <4> QED
        BY <3>1, <4>1 DEF StartFails
    <3>2. CASE DeleteCamera
      BY <3>2 DEF DeleteCamera, LeaveLibrary, ForgetSingleton
    <3> QED
      BY <1>14, <3>1, <3>2
  <2>3. UNCHANGED <<session, newest, refs, cam, focusing, worker>>
    BY <1>14 DEF StartFails, DeleteCamera, LeaveLibrary, ForgetSingleton
  <2>4. CASE UNCHANGED <<singleton, singleton_releasing>>
    BY <2>1, <2>2, <2>3, <2>4
  <2>5. CASE singleton' = 0 /\ singleton_releasing' = FALSE
    BY <2>1, <2>2, <2>3, <2>5
  <2> QED
    BY <1>14, <2>4, <2>5 DEF StartFails, DeleteCamera, LeaveLibrary, ForgetSingleton
<1>15. CASE ReturnNull
  <2>1. refs' \in [Objects -> SUBSET (Ids \cup Threads)]
    BY <1>15 DEF ReturnNull, Drops
  <2> QED
    BY <1>15, <2>1, AppReturns DEF ReturnNull, Returns
<1> QED
  BY <1>1, <1>2, <1>3, <1>4, <1>5, <1>6, <1>7, <1>8, <1>9, <1>10, <1>11, <1>12, <1>13, <1>14,
     <1>15 DEF CallStep

\* What a thread does from when it has begun until it ends.
WorkerGoing(w) ==
  \/ FrameError(w) \/ FrameTimeout(w) \/ CallsBack(w) \/ CallBegins(w) \/ CallbackReturns(w)
  \/ FrameEnds(w) \/ FocusBegins(w) \/ FocusSkipped(w) \/ FocusStarts(w) \/ FocusEnds(w)
  \/ FocusDone(w)

LEMMA GoingOn ==
  ASSUME NEW w \in Workers, WorkerGoing(w)
  PROVE  /\ \E from \in Working, to \in Working : WorkerGoes(w, from, to)
         /\ UNCHANGED <<session, objectVars>>
         /\ \/ app' = app
            \/ \E i \in Ids, op \in {"cancel", "stop", "release"} : Begins(i, op, w)
<1>1. ASSUME NEW from, NEW to, {from, to} \subseteq Working, WorkerGoes(w, from, to)
      PROVE  \E f \in Working, t \in Working : WorkerGoes(w, f, t)
  BY <1>1
<1>2. CASE FrameError(w) \/ FrameTimeout(w) \/ CallsBack(w) \/ CallBegins(w) \/ CallbackReturns(w)
           \/ FrameEnds(w)
  BY <1>1, <1>2 DEF FrameError, FrameTimeout, CallsBack, CallBegins, CallbackReturns, FrameEnds,
                    Working, Framing
<1>3. CASE FocusBegins(w) \/ FocusSkipped(w) \/ FocusStarts(w) \/ FocusEnds(w) \/ FocusDone(w)
  BY <1>1, <1>3 DEF FocusBegins, FocusSkipped, FocusStarts, FocusEnds, FocusDone, Working
<1> QED
  BY <1>2, <1>3 DEF WorkerGoing

\* The threads.
LEMMA TypeWorker ==
  ASSUME TypeInv, NEW w \in Workers, WorkerStep(w) \/ FrameError(w) \/ CallsBack(w)
  PROVE  TypeInv'
<1> USE DEF TypeInv, objectVars
<1>1. ASSUME NEW from, NEW to \in Working, Begin(w, from, to) PROVE TypeInv'
  <2>1. singleton \in Nat
    OBVIOUS
  <2>2. worker' \in [Workers -> Worker]
    <3>1. CASE worker' = [worker EXCEPT ![w].at = to, ![w].obj = singleton]
      <4>1. [worker[w] EXCEPT !.at = to] \in Worker
        BY DEF Worker
      <4>2. [worker[w] EXCEPT !.at = to, !.obj = singleton] \in Worker
        BY <2>1, <4>1 DEF Worker
      <4> QED
        BY <3>1, <4>2
    <3>2. CASE worker' = [worker EXCEPT ![w] = NoWorker]
      BY <3>2, WorkerEnds
    <3> QED
      BY <1>1, <3>1, <3>2 DEF Begin
  <2>3. refs' \in [Objects -> SUBSET (Ids \cup Threads)]
    BY <1>1 DEF Begin, Threads
  <2>4. misused' \in BOOLEAN
    BY <1>1, Zenon DEF Begin
  <2> QED
    BY <1>1, <2>2, <2>3, <2>4 DEF Begin
<1>2. ASSUME NEW from, End(w, from) PROVE TypeInv'
  <2>1. worker' \in [Workers -> Worker]
    <3>1. [worker[w] EXCEPT !.at = "destroy"] \in Worker
      BY DEF Worker, Dropped
    <3> QED
      BY <1>2, <3>1, WorkerEnds DEF End
  <2>2. refs' \in [Objects -> SUBSET (Ids \cup Threads)]
    BY <1>2 DEF End, Drops
  <2> QED
    BY <1>2, <2>1, <2>2 DEF End
<1>3. CASE WorkerDestroy(w)
  <2>1. CASE WorkerGoes(w, "destroy", "forget") /\ LeaveLibrary(worker[w].obj) /\ UNCHANGED app
    <3>1. worker' \in [Workers -> Worker]
      BY <2>1, WorkerGoesOn DEF Dropped
    <3> QED
      BY <2>1, <3>1 DEF LeaveLibrary
  <2>2. CASE /\ worker[w].at = "forget" /\ ForgetSingleton(worker[w].obj)
             /\ worker' = [worker EXCEPT ![w] = NoWorker] /\ UNCHANGED app
    BY <2>2, WorkerEnds DEF ForgetSingleton
  <2> QED
    BY <1>3, <2>1, <2>2 DEF WorkerDestroy
<1>4. CASE WorkerGoing(w)
  <2>1. worker' \in [Workers -> Worker]
    BY <1>4, GoingOn, WorkerGoesOn
  <2>2. cam' \in Cam
    BY <1>4 DEF WorkerGoing, FrameError, FrameTimeout, CallsBack, CallBegins, CallbackReturns,
       FrameEnds, FocusBegins, FocusSkipped, FocusStarts, FocusEnds, FocusDone, Cam
  <2>3. focusing' \in BOOLEAN
    BY <1>4 DEF WorkerGoing, FrameError, FrameTimeout, CallsBack, CallBegins, CallbackReturns,
       FrameEnds, FocusBegins, FocusSkipped, FocusStarts, FocusEnds, FocusDone
  <2>4. UNCHANGED <<session, objectVars>> /\ app' \in App /\ (app'.at # "idle" => app'.id \in Ids)
    BY <1>4, GoingOn, AppCalls DEF Threads
  <2> QED
    BY <2>1, <2>2, <2>3, <2>4
<1>5. "frame" \in Working /\ "focus lock" \in Working
  BY DEF Working, Framing
<1> QED
  BY <1>1, <1>2, <1>3, <1>4, <1>5 DEF WorkerStep, WorkerGoing

LEMMA TypeStep == TypeInv /\ [Next]_vars => TypeInv'
<1>1. TypeInv /\ UNCHANGED vars => TypeInv'
  BY DEF TypeInv, vars, objectVars
<1>2. TypeInv /\ Focused => TypeInv'
  BY DEF TypeInv, Focused, objectVars
<1> QED
  BY <1>1, <1>2, TypeCall, TypeCallStep, TypeWorker DEF Next

-----------------------------------------------------------------------------
(* References.                                                              *)

\* References are of cameras, threads and the call that makes the object.
LEMMA Apart ==
  /\ \A i \in Ids : i \notin Workers /\ i # "app"
  /\ \A w \in Workers : w # "app"
  BY SessionAssumption

\* A step that leaves references and sessions alone, where nobody begins to
\* work with the object or to destroy it.
LEMMA HeldSame ==
  ASSUME HeldInv, UNCHANGED <<session, objectVars>>,
         \A w \in Workers : worker'[w].at \in Working =>
           worker[w].at \in Working /\ worker'[w].obj = worker[w].obj,
         \A w \in Workers : worker'[w].at \in Dropped =>
           worker[w].at \in Dropped /\ worker'[w].obj = worker[w].obj,
         \/ app' = app
         \/ /\ app.at \notin Deleting /\ app'.at \notin Dropped \cup Deleting \cup {"start"}
            /\ app'.at \in Stopping => session[app'.id] = "open"
  PROVE  HeldInv'
<1> USE DEF HeldInv, objectVars
<1>1. ObjectInv'
  BY DEF ObjectInv
<1>2. HolderInv'
  BY DEF HolderInv, Refers
<1>4. DeletedInv'
  BY DEF DeletedInv, Deleting
<1>3. DestroyInv'
  BY DEF DestroyInv, Dying
<1> QED
  BY <1>1, <1>2, <1>3, <1>4

\* A new thread does not work with the object yet.
LEMMA HeldSpawn ==
  ASSUME TypeInv, HeldInv, NEW at \in {"new frame", "new focus"}, CanSpawn, Spawned(at),
         UNCHANGED <<session, objectVars>>, app.at \notin Deleting, app'.at \in {"idle", "ops"}
  PROVE  HeldInv'
<1>1. PICK w \in Workers : /\ worker'[w].at = at
                           /\ \A u \in Workers \ {w} : worker'[u] = worker[u]
  BY SpawnedOne
<1>2. at \notin Working /\ at \notin Dropped
  BY DEF Working, Framing, Dropped
<1>3. \A u \in Workers : worker'[u].at \in Working \cup Dropped => worker'[u] = worker[u]
  BY <1>1, <1>2
<1> QED
  BY <1>3, HeldSame DEF Stopping, Dropped, Deleting

\* What keeps an object from being made while another is destroyed.
LEMMA NothingLives ==
  ASSUME TypeInv, HeldInv, ~singleton_releasing, ~Promoted(singleton), app.at \notin Deleting
  PROVE  live = {} /\ \A o \in Objects : refs[o] = {}
<1> USE DEF HeldInv
<1>1. ASSUME live # {} PROVE FALSE
  <2>1. singleton = newest /\ newest # 0
    BY <1>1 DEF ObjectInv
  <2>2. newest \in Objects /\ refs[newest] # {}
    BY <1>1 DEF HolderInv, Refers
  <2> QED
    BY <2>1, <2>2 DEF Promoted
<1> QED
  BY <1>1 DEF ObjectInv, DeletedInv

LEMMA HeldConstruct == TypeInv /\ HeldInv /\ Construct => HeldInv'
<1> SUFFICES ASSUME TypeInv, HeldInv, Construct PROVE HeldInv'
  OBVIOUS
<1> USE DEF HeldInv
<1>0. app.at = "create" /\ app'.at = "start"
  BY AppGoes DEF Construct, TypeInv, Goes, Places
<1>1. live = {} /\ \A o \in Objects : refs[o] = {}
  BY <1>0, NothingLives DEF Construct, Deleting
<1>2. newest' \in Objects /\ newest' # 0
  BY NewestType, SessionAssumption DEF Construct, Objects
<1>3. /\ live' = {newest'} /\ singleton' = newest' /\ libmmcamera' = newest'
      /\ refs'[newest'] = {"app"} /\ \A o \in Objects \ {newest'} : refs'[o] = {}
      /\ ~singleton_releasing' /\ UNCHANGED <<session, worker, deleted>>
  BY <1>1, <1>2 DEF Construct, TypeInv
<1>8. newest' \notin deleted
  BY SessionAssumption DEF Construct, TypeInv
<1>4. ObjectInv'
  BY <1>2, <1>3 DEF ObjectInv
<1>5. /\ \A i \in Ids : session[i] = "closed"
      /\ \A w \in Workers : worker[w].at \notin Working \cup Dropped
  BY <1>1 DEF HolderInv, Refers, DestroyInv, Dying
<1>6. HolderInv'
  BY <1>0, <1>2, <1>3, <1>5, <1>8 DEF HolderInv, Refers, Stopping
<1>7. DestroyInv'
  BY <1>0, <1>3, <1>5 DEF DestroyInv, Dropped
<1>9. DeletedInv'
  BY <1>0, <1>3, <1>8 DEF DeletedInv, Deleting
<1> QED
  BY <1>4, <1>6, <1>7, <1>9

\* A reference more.
LEMMA HeldMore ==
  ASSUME TypeInv, HeldInv, NEW r \in Ids \cup Threads,
         newest \in Objects, refs[newest] # {}, refs' = [refs EXCEPT ![newest] = @ \cup {r}],
         newest \notin deleted, app'.at \notin Deleting,
         UNCHANGED <<newest, live, singleton, singleton_releasing, libmmcamera, deleted>>
  PROVE  /\ ObjectInv' /\ DeletedInv' /\ ~Dying
         /\ \A q : Refers(q) => Refers(q)'
         /\ Refers(r)'
<1>1. ObjectInv' /\ ~Dying /\ (\A q : Refers(q) => Refers(q)') /\ Refers(r)'
  BY DEF HeldInv, ObjectInv, Dying, Refers, TypeInv
<1>2. DeletedInv'
  BY DEF DeletedInv, Deleting
<1> QED
  BY <1>1, <1>2

LEMMA HeldShare == TypeInv /\ HeldInv /\ ShareObject => HeldInv'
<1> SUFFICES ASSUME TypeInv, HeldInv, ShareObject PROVE HeldInv'
  OBVIOUS
<1>0. live # {} /\ singleton = newest /\ newest \in Objects /\ refs[newest] # {}
  BY NewestType DEF ShareObject, Promoted, HeldInv, ObjectInv
<1>1. PICK j \in Ids : j = app.id
  BY DEF ShareObject, Returns, TypeInv
<1>6. app'.at = "idle" /\ app.at = "create"
  BY AppReturns DEF ShareObject, Returns
<1>7. newest \notin deleted /\ app'.at \notin Deleting
  BY <1>0, <1>6 DEF HeldInv, DeletedInv, Deleting
<1>2. /\ ObjectInv' /\ DeletedInv' /\ ~Dying
      /\ (\A q : Refers(q) => Refers(q)') /\ Refers(j)'
  BY <1>0, <1>1, <1>7, HeldMore DEF ShareObject
<1>3. /\ session' = [session EXCEPT ![j] = "open"]
      /\ UNCHANGED <<newest, live, singleton_releasing, worker, deleted>>
  BY <1>1 DEF ShareObject, Opened
<1>4. HolderInv'
  <2>1. \A i \in Ids : session'[i] # "closed" => Refers(i)'
    BY <1>1, <1>2, <1>3 DEF HolderInv, HeldInv, TypeInv
  <2>2. \A i \in Ids : session'[i] = "released" => singleton_releasing'
    BY <1>1, <1>3 DEF HolderInv, HeldInv, TypeInv
  <2>3. \A w \in Workers : worker'[w].at \in Working => worker'[w].obj = newest' /\ Refers(w)'
    BY <1>2, <1>3 DEF HolderInv, HeldInv
  <2>4. \E q \in Ids \cup {"app"} : Refers(q)'
    BY <1>1, <1>2
  <2> QED
    BY <1>6, <2>1, <2>2, <2>3, <2>4 DEF HolderInv, Stopping
<1>5. DestroyInv'
  BY <1>6, <1>2, <1>3 DEF DestroyInv, HeldInv, Dropped
<1> QED
  BY <1>2, <1>4, <1>5 DEF HeldInv

LEMMA HeldStart == TypeInv /\ HeldInv /\ StartCamera => HeldInv'
<1> SUFFICES ASSUME TypeInv, HeldInv, StartCamera PROVE HeldInv'
  OBVIOUS
<1>0. app.at = "start" /\ app'.at = "idle"
  BY AppReturns DEF StartCamera, Returns
<1>11. newest \notin deleted
  BY <1>0 DEF HeldInv, HolderInv
<1>9. PICK j \in Ids : j = app.id
  BY <1>0 DEF TypeInv
<1>1. newest \in Objects /\ "app" \in refs[newest]
  BY <1>0 DEF HeldInv, HolderInv, Refers
<1>2. /\ session' = [session EXCEPT ![j] = "open"]
      /\ refs' = [refs EXCEPT ![newest] = (@ \ {"app"}) \cup {j}]
      /\ UNCHANGED <<newest, live, singleton, singleton_releasing, libmmcamera, deleted, worker>>
  BY <1>9 DEF StartCamera, Opened
<1>3. /\ refs'[newest] = (refs[newest] \ {"app"}) \cup {j}
      /\ \A o \in Objects \ {newest} : refs'[o] = refs[o]
  BY <1>1, <1>2 DEF TypeInv
<1>4. ObjectInv'
  BY <1>1, <1>2, <1>3 DEF HeldInv, ObjectInv
<1>5. \A q : q # "app" /\ Refers(q) => Refers(q)'
  BY <1>1, <1>2, <1>3 DEF Refers
<1>6. Refers(j)'
  BY <1>1, <1>2, <1>3 DEF Refers
<1>7. HolderInv'
  <2>1. \A i \in Ids : session'[i] # "closed" => Refers(i)'
    BY <1>2, <1>5, <1>6, Apart DEF HolderInv, HeldInv, TypeInv
  <2>2. \A i \in Ids : session'[i] = "released" => singleton_releasing'
    BY <1>2 DEF HolderInv, HeldInv, TypeInv
  <2>3. \A w \in Workers : worker'[w].at \in Working => worker'[w].obj = newest' /\ Refers(w)'
    BY <1>2, <1>5, Apart DEF HolderInv, HeldInv
  <2>4. \E q \in Ids \cup {"app"} : Refers(q)'
    BY <1>6
  <2> QED
    BY <1>0, <2>1, <2>2, <2>3, <2>4 DEF HolderInv, Stopping
<1>8. DestroyInv'
  BY <1>0, <1>1, <1>2 DEF DestroyInv, HeldInv, Dropped, Dying
<1>10. DeletedInv'
  BY <1>0, <1>2, <1>11 DEF DeletedInv, Deleting
<1> QED
  BY <1>4, <1>7, <1>8, <1>10 DEF HeldInv

\* createInstance deletes the object it refers to, which nobody else may have
\* got hold of.
LEMMA HeldStartFails == TypeInv /\ HeldInv /\ StartFails /\ ~misused' => HeldInv'
<1> SUFFICES ASSUME TypeInv, HeldInv, StartFails, ~misused' PROVE HeldInv'
  OBVIOUS
<1>1. app.at = "start" /\ app'.at = "delete"
  BY AppGoes DEF StartFails, TypeInv, Goes, Places, Deleting
<1>2. /\ refs[newest] = {"app"} /\ deleted' = deleted \cup {newest}
      /\ UNCHANGED <<session, newest, live, refs, singleton, singleton_releasing, libmmcamera, worker>>
  BY DEF StartFails
<1>3. newest \in Objects
  BY <1>1 DEF HeldInv, HolderInv, Refers
<1>4. ObjectInv'
  BY <1>2 DEF HeldInv, ObjectInv
<1>5. HolderInv'
  BY <1>1, <1>2 DEF HeldInv, HolderInv, Refers, Stopping
<1>6. DeletedInv'
  BY <1>1, <1>2, <1>3 DEF DeletedInv, Deleting
<1>7. DestroyInv'
  BY <1>1, <1>2 DEF HeldInv, DestroyInv, Dying, Dropped
<1> QED
  BY <1>4, <1>5, <1>6, <1>7 DEF HeldInv

LEMMA HeldDelete == TypeInv /\ HeldInv /\ DeleteCamera => HeldInv'
<1> SUFFICES ASSUME TypeInv, HeldInv, DeleteCamera PROVE HeldInv'
  OBVIOUS
<1>1. app.at \in Deleting /\ UNCHANGED <<session, newest, refs, deleted, worker>>
  BY DEF DeleteCamera, Goes, LeaveLibrary, ForgetSingleton, Deleting
<1>2. /\ newest \in deleted /\ newest \in Objects /\ refs[newest] = {"app"}
  BY <1>1 DEF HeldInv, DeletedInv
<1>3. /\ \A i \in Ids : session[i] = "closed"
      /\ \A w \in Workers : worker[w].at \notin Working \cup Dropped
  BY <1>2, Apart DEF HeldInv, HolderInv, DestroyInv, Dying, Refers
<1>4. \/ LeaveLibrary(newest) /\ app'.at = "deleting"
      \/ ForgetSingleton(newest) /\ app'.at = "freed"
  BY AppGoes DEF DeleteCamera, TypeInv, Goes, Places, Deleting
<1>5. ObjectInv'
  BY <1>1, <1>2, <1>4 DEF HeldInv, ObjectInv, LeaveLibrary, ForgetSingleton
<1>6. HolderInv'
  <2>1. Refers("app")'
    BY <1>1, <1>2 DEF Refers
  <2> QED
    BY <1>1, <1>3, <1>4, <2>1 DEF HolderInv, Stopping
<1>7. DeletedInv'
  <2>1. app'.at = "freed" => live' = {}
    BY <1>4, <1>2 DEF HeldInv, ObjectInv, ForgetSingleton
  <2> QED
    BY <1>1, <1>2, <1>4, <2>1 DEF DeletedInv, Deleting
<1>8. DestroyInv'
  BY <1>1, <1>3, <1>4 DEF DestroyInv, Dropped
<1> QED
  BY <1>5, <1>6, <1>7, <1>8 DEF HeldInv

LEMMA HeldReturnNull == TypeInv /\ HeldInv /\ ReturnNull => HeldInv'
<1> SUFFICES ASSUME TypeInv, HeldInv, ReturnNull PROVE HeldInv'
  OBVIOUS
<1>1. app.at = "freed" /\ app'.at = "idle"
  BY AppReturns DEF ReturnNull, Returns
<1>2. /\ newest \in deleted /\ newest \in Objects /\ refs[newest] = {"app"} /\ live = {}
  BY <1>1 DEF HeldInv, DeletedInv, Deleting
<1>3. UNCHANGED <<session, newest, live, singleton, singleton_releasing, libmmcamera, deleted, worker>>
  BY DEF ReturnNull
<1>4. \A o \in Objects : refs'[o] = {}
  BY <1>2 DEF ReturnNull, Drops, TypeInv, HeldInv, ObjectInv
<1>5. /\ \A i \in Ids : session[i] = "closed"
      /\ \A w \in Workers : worker[w].at \notin Working \cup Dropped
  BY <1>2, Apart DEF HeldInv, HolderInv, DestroyInv, Dying, Refers
<1>6. ObjectInv'
  BY <1>3, <1>4 DEF HeldInv, ObjectInv
<1>7. HolderInv'
  BY <1>1, <1>2, <1>3, <1>5 DEF HolderInv, Stopping
<1>8. DeletedInv'
  BY <1>1, <1>2, <1>3, <1>4 DEF DeletedInv, Deleting
<1>9. DestroyInv'
  BY <1>1, <1>3, <1>5 DEF DestroyInv, Dropped
<1> QED
  BY <1>6, <1>7, <1>8, <1>9 DEF HeldInv

\* A thread finds the object and refers to it, or ends.
LEMMA HeldBegin ==
  ASSUME TypeInv, HeldInv, NEW w \in Workers, NEW from \in {"new frame", "new focus"},
         NEW to \in Working, Begin(w, from, to), ~misused'
  PROVE  HeldInv'
<1>0. worker[w].at = from /\ UNCHANGED <<session, app>>
  BY DEF Begin
<1>1. CASE /\ Promoted(singleton) /\ refs' = [refs EXCEPT ![singleton] = @ \cup {w}]
           /\ worker' = [worker EXCEPT ![w].at = to, ![w].obj = singleton]
           /\ singleton \notin deleted
  <2>1. live # {} /\ singleton = newest /\ newest \in Objects /\ refs[newest] # {}
    BY <1>1, NewestType DEF Promoted, HeldInv, ObjectInv
  <2>2. UNCHANGED <<newest, live, singleton, singleton_releasing, libmmcamera, deleted>>
    BY DEF Begin
  <2>7. newest \notin deleted /\ app'.at \notin Deleting
    BY <1>0, <1>1, <2>1 DEF HeldInv, DeletedInv
  <2>3. /\ ObjectInv' /\ DeletedInv' /\ ~Dying
        /\ (\A q : Refers(q) => Refers(q)') /\ Refers(w)'
    BY <1>1, <2>1, <2>2, <2>7, HeldMore DEF Threads
  <2>4. /\ worker'[w].at = to /\ worker'[w].obj = newest
        /\ \A u \in Workers \ {w} : worker'[u] = worker[u]
    BY <1>1, <2>1 DEF TypeInv, Worker
  <2>5. HolderInv'
    BY <1>0, <2>2, <2>3, <2>4 DEF HeldInv, HolderInv
  <2>6. DestroyInv'
    BY <1>0, <2>3, <2>4 DEF HeldInv, DestroyInv, Working, Framing, Dropped
  <2> QED
    BY <2>3, <2>5, <2>6 DEF HeldInv
<1>2. CASE worker' = [worker EXCEPT ![w] = NoWorker] /\ UNCHANGED <<refs, misused>>
  <2>1. UNCHANGED objectVars
    BY <1>2 DEF Begin, objectVars
  <2>2. worker'[w].at = "none" /\ \A u \in Workers \ {w} : worker'[u] = worker[u]
    BY <1>2, WorkerEnds DEF TypeInv
  <2> QED
    BY <1>0, <2>1, <2>2, HeldSame DEF Working, Framing, Dropped
<1> QED
  BY <1>1, <1>2 DEF Begin

-----------------------------------------------------------------------------
(* The end of an object.                                                    *)

\* A camera that is released keeps its reference until it is closed, and the
\* singleton is marked from then on.
LEMMA HeldRelease ==
  ASSUME TypeInv, HeldInv, NEW i \in Ids, session[i] = "open",
         session' = [session EXCEPT ![i] = "released"], singleton_releasing' = TRUE,
         UNCHANGED <<newest, live, refs, singleton, libmmcamera, deleted, worker>>, app'.at = "idle"
  PROVE  HeldInv'
<1>1. ObjectInv'
  BY DEF HeldInv, ObjectInv
<1>2. HolderInv'
  BY DEF HeldInv, HolderInv, Refers, Stopping, TypeInv
<1>3. DestroyInv'
  BY DEF HeldInv, DestroyInv, Dying, Dropped
<1>4. DeletedInv'
  <2>1. Refers(i) /\ i # "app"
    BY Apart DEF HeldInv, HolderInv
  <2>2. newest \notin deleted
    BY <2>1 DEF HeldInv, DeletedInv, Refers
  <2> QED
    BY <2>2 DEF DeletedInv, Deleting
<1> QED
  BY <1>1, <1>2, <1>3, <1>4 DEF HeldInv

\* A reference less: what is left holds, and if it was the last, the object
\* dies, and was marked before.
LEMMA HeldLess ==
  ASSUME TypeInv, HeldInv, NEW r \in Ids \cup Workers, Refers(r), Drops(r, newest),
         \A i \in Ids : r = i => singleton_releasing, app' = app \/ app'.at \notin Deleting,
         UNCHANGED <<newest, live, singleton, singleton_releasing, libmmcamera, deleted>>
  PROVE  /\ ObjectInv' /\ DeletedInv' /\ newest \notin deleted /\ ~Dying
         /\ \A q : q # r /\ Refers(q) => Refers(q)'
         /\ IsLast(r, newest) => Dying'
         /\ live # {} /\ ~singleton_releasing => \E q \in Ids \cup {"app"} : Refers(q)'
<1>1. newest \in Objects /\ r \in refs[newest] /\ newest # 0
  BY SessionAssumption DEF Refers, Objects
<1>2. /\ refs'[newest] = refs[newest] \ {r}
      /\ \A o \in Objects \ {newest} : refs'[o] = refs[o]
  BY <1>1 DEF Drops, TypeInv
<1>8. newest \notin deleted /\ app.at \notin Deleting
  BY <1>1, Apart DEF HeldInv, DeletedInv
<1>3. live = {newest}
  BY <1>1, <1>8 DEF HeldInv, ObjectInv
<1>4. ObjectInv'
  BY <1>1, <1>2 DEF HeldInv, ObjectInv
<1>9. DeletedInv'
  BY <1>8 DEF DeletedInv, Deleting
<1>5. \A q : q # r /\ Refers(q) => Refers(q)'
  BY <1>1, <1>2 DEF Refers
<1>6. ASSUME ~singleton_releasing PROVE \E q \in Ids \cup {"app"} : q # r /\ Refers(q)
  BY <1>3, <1>6, Apart DEF HeldInv, HolderInv
<1>7. IsLast(r, newest) => Dying'
  BY <1>1, <1>2, <1>3, <1>6 DEF IsLast, Dying, Refers, TypeInv
<1> QED
  BY <1>1, <1>4, <1>5, <1>6, <1>7, <1>8, <1>9 DEF Dying

LEMMA HeldClose ==
  ASSUME TypeInv, HeldInv, NEW i \in Ids, Close(i)
  PROVE  HeldInv'
<1>0. app = Idle /\ session[i] = "released" /\ UNCHANGED worker
      /\ session' = [session EXCEPT ![i] = "closed"]
      /\ UNCHANGED <<newest, live, singleton, singleton_releasing, libmmcamera, deleted>>
  BY DEF Close
<1>1. Refers(i) /\ singleton_releasing
  BY <1>0 DEF HeldInv, HolderInv
<1>3. app'.at = IF IsLast(i, newest) THEN "destroy" ELSE "idle"
  BY AppReturns, AppBegins DEF Close, Places, Dropped
<1>6. app'.at \notin Deleting
  BY <1>3 DEF Deleting
<1>2. /\ ObjectInv' /\ DeletedInv' /\ ~Dying
      /\ \A q : q # i /\ Refers(q) => Refers(q)'
      /\ IsLast(i, newest) => Dying'
  BY <1>0, <1>1, <1>6, HeldLess DEF Close
<1>4. HolderInv'
  <2>1. \A j \in Ids : session'[j] # "closed" => Refers(j)'
    BY <1>0, <1>2 DEF HeldInv, HolderInv, TypeInv
  <2>2. \A w \in Workers : worker'[w].at \in Working => worker'[w].obj = newest' /\ Refers(w)'
    BY <1>0, <1>2, Apart DEF HeldInv, HolderInv
  <2>3. singleton_releasing' /\ app'.at \notin Stopping \cup {"start"}
    BY <1>0, <1>1, <1>3 DEF Stopping
  <2> QED
    BY <2>1, <2>2, <2>3 DEF HolderInv
<1>5. DestroyInv'
  BY <1>0, <1>2, <1>3 DEF HeldInv, DestroyInv, Dropped
<1> QED
  BY <1>2, <1>4, <1>5 DEF HeldInv

LEMMA HeldEnd ==
  ASSUME TypeInv, HeldInv, NEW w \in Workers, NEW from \in Working, End(w, from)
  PROVE  HeldInv'
<1>0. worker[w].at = from /\ UNCHANGED <<session, app>>
      /\ UNCHANGED <<newest, live, singleton, singleton_releasing, libmmcamera, deleted>>
  BY DEF End
<1>1. Refers(w) /\ worker[w].obj = newest
  BY <1>0 DEF HeldInv, HolderInv
<1>2. /\ ObjectInv' /\ DeletedInv' /\ newest \notin deleted /\ ~Dying
      /\ \A q : q # w /\ Refers(q) => Refers(q)'
      /\ IsLast(w, newest) => Dying'
      /\ live # {} /\ ~singleton_releasing => \E q \in Ids \cup {"app"} : Refers(q)'
  BY <1>0, <1>1, HeldLess, Apart DEF End
<1>3. /\ worker'[w] = IF IsLast(w, newest) THEN [worker[w] EXCEPT !.at = "destroy"] ELSE NoWorker
      /\ \A u \in Workers \ {w} : worker'[u] = worker[u]
  BY <1>1, <1>2 DEF End, TypeInv, Worker
<1>4. worker'[w].at = IF IsLast(w, newest) THEN "destroy" ELSE "none"
  BY <1>3, WorkerEnds DEF TypeInv, Worker
<1>5. IsLast(w, newest) => worker'[w].obj = newest
  BY <1>1, <1>3 DEF TypeInv, Worker
<1>6. HolderInv'
  BY <1>0, <1>2, <1>3, <1>4, Apart DEF HeldInv, HolderInv, Working, Framing
<1>7. DestroyInv'
  <2>1. \A u \in Workers \ {w} : worker[u].at \notin Dropped
    BY <1>2 DEF HeldInv, DestroyInv
  <2>2. app.at \notin Dropped /\ app' = app /\ newest' = newest
    BY <1>0, <1>2 DEF HeldInv, DestroyInv
  <2>3. \A u \in Workers \ {w} : worker'[u].at \notin Dropped
    BY <1>3, <2>1
  <2>4. worker'[w].at \in Dropped => IsLast(w, newest)
    BY <1>4 DEF Dropped
  <2> QED
    BY <1>2, <1>5, <2>2, <2>3, <2>4 DEF DestroyInv
<1> QED
  BY <1>2, <1>6, <1>7 DEF HeldInv

\* The destructor: whoever runs it is the only one, and nobody has a reference.
LEMMA HeldLeave ==
  ASSUME TypeInv, HeldInv, Dying, libmmcamera' = 0,
         UNCHANGED <<session, newest, live, refs, singleton, singleton_releasing, deleted>>,
         app'.at \notin Deleting,
         \A w \in Workers : worker'[w].at \in Working => worker'[w] = worker[w],
         \A w \in Workers : worker'[w].at \in Dropped =>
           worker[w].at \in Dropped /\ worker'[w].obj = worker[w].obj,
         app'.at # "start", app'.at \in Dropped => app.at \in Dropped,
         app'.at \in Stopping => app' = app
  PROVE  HeldInv'
<1>1. \A o \in Objects : refs[o] = {}
  BY DEF Dying, HeldInv, ObjectInv
<1>2. ObjectInv'
  BY <1>1 DEF HeldInv, ObjectInv
<1>3. HolderInv'
  BY DEF HeldInv, HolderInv, Refers, Dying
<1>4. DestroyInv'
  BY DEF HeldInv, DestroyInv, Dying
<1>5. DeletedInv'
  BY DEF HeldInv, DeletedInv, Dying, Deleting
<1> QED
  BY <1>2, <1>3, <1>4, <1>5 DEF HeldInv

LEMMA HeldForget ==
  ASSUME TypeInv, HeldInv, Dying, ForgetSingleton(newest),
         \A w \in Workers : worker'[w].at \in Working => worker'[w] = worker[w],
         \A w \in Workers : worker'[w].at \notin Dropped,
         app'.at \notin Dropped \cup Deleting \cup {"start"}, app'.at \in Stopping => app' = app
  PROVE  HeldInv'
<1>0. /\ live' = {} /\ singleton' = 0 /\ ~singleton_releasing'
      /\ UNCHANGED <<session, newest, refs, libmmcamera, deleted>>
  BY DEF ForgetSingleton, Dying
<1>1. \A o \in Objects : refs[o] = {}
  BY DEF Dying, HeldInv, ObjectInv
<1>2. ObjectInv'
  BY <1>0, <1>1 DEF ObjectInv
<1>3. /\ \A i \in Ids : session[i] = "closed"
      /\ \A w \in Workers : worker[w].at \notin Working
  BY <1>1 DEF HeldInv, HolderInv, Refers
<1>4. HolderInv'
  BY <1>0, <1>3 DEF HeldInv, HolderInv
<1>5. DestroyInv'
  BY DEF DestroyInv
<1>6. DeletedInv'
  BY <1>0, <1>1 DEF DeletedInv, Deleting
<1> QED
  BY <1>2, <1>4, <1>5, <1>6 DEF HeldInv

LEMMA HeldDestroy == TypeInv /\ HeldInv /\ Destroy => HeldInv'
<1> SUFFICES ASSUME TypeInv, HeldInv, Destroy PROVE HeldInv'
  OBVIOUS
<1>0. app.at \in Dropped /\ UNCHANGED worker
  BY DEF Destroy, Goes, Returns, Dropped
<1>1. Dying /\ \A w \in Workers : worker[w].at \notin Dropped
  BY <1>0 DEF HeldInv, DestroyInv
<1>2. CASE Goes("destroy", "forget") /\ LeaveLibrary(newest)
  <2>1. app'.at = "forget"
    BY <1>2, AppGoes DEF TypeInv, Dropped, Places
  <2> QED
    BY <1>0, <1>1, <1>2, <2>1, HeldLeave DEF LeaveLibrary, Stopping, Deleting
<1>3. CASE Returns("forget") /\ ForgetSingleton(newest)
  <2>1. app'.at = "idle"
    BY <1>3, AppReturns DEF Returns
  <2> QED
    BY <1>0, <1>1, <1>3, <2>1, HeldForget DEF Stopping, Dropped, Deleting
<1> QED
  BY <1>2, <1>3 DEF Destroy

LEMMA HeldWorkerDestroy ==
  ASSUME TypeInv, HeldInv, NEW w \in Workers, WorkerDestroy(w)
  PROVE  HeldInv'
<1>0. worker[w].at \in Dropped /\ UNCHANGED app
  BY DEF WorkerDestroy, WorkerGoes, Dropped
<1>1. /\ Dying /\ worker[w].obj = newest /\ app.at \notin Dropped
      /\ \A u \in Workers \ {w} : worker[u].at \notin Dropped
  BY <1>0 DEF HeldInv, DestroyInv
<1>4. app.at # "start" /\ app.at \notin Deleting
  BY <1>1 DEF HeldInv, HolderInv, DeletedInv, Refers, Dying
<1>2. CASE WorkerGoes(w, "destroy", "forget") /\ LeaveLibrary(newest)
  <2>1. /\ worker'[w].at = "forget" /\ worker'[w].obj = worker[w].obj
        /\ \A u \in Workers \ {w} : worker'[u] = worker[u]
    BY <1>2, WorkerGoesOn DEF Dropped
  <2> QED
    BY <1>0, <1>1, <1>2, <1>4, <2>1, HeldLeave DEF LeaveLibrary, Working, Framing
<1>3. CASE ForgetSingleton(newest) /\ worker' = [worker EXCEPT ![w] = NoWorker]
  <2>1. worker'[w].at = "none" /\ \A u \in Workers \ {w} : worker'[u] = worker[u]
    BY <1>3, WorkerEnds DEF TypeInv
  <2> QED
    BY <1>0, <1>1, <1>3, <1>4, <2>1, HeldForget DEF Working, Framing, Dropped
<1> QED
  BY <1>1, <1>2, <1>3 DEF WorkerDestroy

-----------------------------------------------------------------------------
(* Every step.                                                              *)

LEMMA HeldInit == Init => HeldInv
  BY AppReturns, WorkerEnds DEF Init, HeldInv, ObjectInv, HolderInv, DestroyInv, DeletedInv,
                                Working, Framing, Dropped, Stopping, Deleting

\* A call that stops the camera, of the service or from a callback.
LEMMA HeldBegins ==
  ASSUME HeldInv, NEW i \in Ids, NEW op \in {"cancel", "stop", "release"}, NEW t \in Threads,
         Begins(i, op, t), UNCHANGED <<session, objectVars>>,
         \A w \in Workers : worker'[w].at \in Working =>
           worker[w].at \in Working /\ worker'[w].obj = worker[w].obj,
         \A w \in Workers : worker'[w].at \in Dropped =>
           worker[w].at \in Dropped /\ worker'[w].obj = worker[w].obj
  PROVE  HeldInv'
<1>1. /\ app.at = "idle" /\ session[i] = "open"
      /\ app'.at \in {"cancel", "timeout", "end"} /\ app'.id = i
  BY AppCalls, AppReturns
<1> QED
  BY <1>1, HeldSame DEF Deleting, Dropped

LEMMA HeldCall == TypeInv /\ HeldInv /\ Call => HeldInv'
<1> SUFFICES ASSUME TypeInv, HeldInv, NEW i \in Ids,
                    \/ Open(i) \/ Close(i) \/ StartPreview(i) \/ AutoFocus(i)
                    \/ \E op \in {"cancel", "stop", "release"} : BeginCancel(i, op)
             PROVE  HeldInv'
  BY DEF Call
<1>1. CASE Open(i) \/ StartPreview(i) \/ AutoFocus(i)
  <2>1. {"create", "frame", "focus"} \subseteq Places
    BY DEF Places
  <2>2. /\ UNCHANGED <<session, objectVars, worker>> /\ app = Idle
        /\ app'.at \in {"create", "frame", "focus"}
    BY <1>1, <2>1, AppBegins DEF Open, StartPreview, AutoFocus
  <2> QED
    BY <2>2, AppReturns, HeldSame DEF Stopping, Dropped, Deleting
<1>2. CASE Close(i)
  BY <1>2, HeldClose
<1>3. ASSUME NEW op \in {"cancel", "stop", "release"}, BeginCancel(i, op) PROVE HeldInv'
  <2>1. UNCHANGED <<session, objectVars, worker>> /\ Begins(i, op, "app")
    BY <1>3 DEF BeginCancel
  <2> QED
    BY <2>1, HeldBegins DEF Threads
<1> QED
  BY <1>1, <1>2, <1>3

LEMMA HeldCallStep == TypeInv /\ HeldInv /\ CallStep /\ ~misused' => HeldInv'
<1> SUFFICES ASSUME TypeInv, HeldInv, CallStep, ~misused' PROVE HeldInv'
  OBVIOUS
<1>1. CASE UnknownCamera \/ GiveUp \/ NoDevice \/ EndCall \/ InitPreviewFails \/ AutoFocusNoThread
           \/ StartOps
  <2>1. /\ UNCHANGED <<session, objectVars, worker>> /\ app'.at = "idle"
        /\ app.at \in {"create", "end", "frame", "focus", "ops"}
    BY <1>1, AppReturns DEF UnknownCamera, GiveUp, NoDevice, EndCall, InitPreviewFails,
                            AutoFocusNoThread, StartOps, Returns
  <2> QED
    BY <2>1, HeldSame DEF Stopping, Dropped, Deleting
<1>2. CASE CancelFocus \/ UnlockAf \/ LockTimeout \/ StopStreaming
  <2>1. UNCHANGED <<session, objectVars, worker>>
    BY <1>2 DEF CancelFocus, UnlockAf, LockTimeout, StopStreaming
  <2>2. /\ app.at \in Stopping /\ app'.at \in Stopping /\ app'.id = app.id
    BY <1>2, AppGoes DEF TypeInv, CancelFocus, UnlockAf, LockTimeout, StopStreaming, AfterCancel,
                         Stopping, Places, Goes
  <2>3. /\ session[app'.id] = "open" /\ app.at \notin Deleting
        /\ app'.at \notin Dropped \cup Deleting \cup {"start"}
    BY <2>2 DEF HeldInv, HolderInv, Stopping, Dropped, Deleting
  <2> QED
    BY <2>1, <2>3, HeldSame
<1>3. CASE EndRelease
  <2>1. app.at = "end" /\ app'.at = "idle"
    BY <1>3, AppReturns DEF EndRelease, Returns
  <2>2. app.id \in Ids /\ session[app.id] = "open"
    BY <2>1 DEF TypeInv, HeldInv, HolderInv, Stopping
  <2>3. PICK i \in Ids : i = app.id
    BY <2>2
  <2> QED
    BY <1>3, <2>1, <2>2, <2>3, HeldRelease DEF EndRelease, Releases, Released
<1>4. CASE InitPreview
  <2>1. Goes("frame", "ops")
    BY <1>4 DEF InitPreview
  <2>2. app.at = "frame" /\ app'.at = "ops"
    BY <2>1, AppGoes DEF TypeInv, Places
  <2> QED
    BY <1>4, <2>2, HeldSpawn DEF InitPreview, Deleting
<1>5. CASE AutoFocusThread
  <2>1. app.at = "focus" /\ app'.at = "idle"
    BY <1>5, AppReturns DEF AutoFocusThread, Returns
  <2> QED
    BY <1>5, <2>1, HeldSpawn DEF AutoFocusThread, Deleting
<1> QED
  BY <1>1, <1>2, <1>3, <1>4, <1>5, HeldShare, HeldConstruct, HeldStart, HeldStartFails, HeldDelete,
     HeldReturnNull, HeldDestroy DEF CallStep

LEMMA HeldWorker ==
  ASSUME TypeInv, HeldInv, NEW w \in Workers, WorkerStep(w) \/ FrameError(w) \/ CallsBack(w),
         ~misused'
  PROVE  HeldInv'
<1>1. CASE WorkerGoing(w)
  <2>1. PICK from \in Working, to \in Working : WorkerGoes(w, from, to)
    BY <1>1, GoingOn
  <2>2. UNCHANGED <<session, objectVars>>
    BY <1>1, GoingOn
  <2>3. /\ worker[w].at = from /\ worker'[w].at = to /\ worker'[w].obj = worker[w].obj
        /\ \A u \in Workers \ {w} : worker'[u] = worker[u]
    BY <2>1, WorkerGoesOn
  <2>4. to \notin Dropped
    BY <2>1 DEF Working, Framing, Dropped
  <2>5. /\ \A u \in Workers : worker'[u].at \in Working =>
             worker[u].at \in Working /\ worker'[u].obj = worker[u].obj
        /\ \A u \in Workers : worker'[u].at \in Dropped =>
             worker[u].at \in Dropped /\ worker'[u].obj = worker[u].obj
    BY <2>3, <2>4
  <2>6. CASE app' = app
    BY <2>2, <2>5, <2>6, HeldSame
  <2>7. ASSUME NEW i \in Ids, NEW op \in {"cancel", "stop", "release"}, Begins(i, op, w)
        PROVE  HeldInv'
    BY <2>2, <2>5, <2>7, HeldBegins DEF Threads
  <2> QED
    BY <1>1, <2>6, <2>7, GoingOn
<1>2. {"frame", "focus lock", "frame end", "focus end"} \subseteq Working
  BY DEF Working, Framing
<1> QED
  BY <1>1, <1>2, HeldBegin, HeldEnd, HeldWorkerDestroy DEF WorkerStep, WorkerGoing

LEMMA HeldStep == TypeInv /\ HeldInv /\ [Next]_vars /\ ~misused' => HeldInv'
<1> SUFFICES ASSUME TypeInv, HeldInv, [Next]_vars, ~misused' PROVE HeldInv'
  OBVIOUS
<1>1. CASE Focused \/ UNCHANGED vars
  <2>1. UNCHANGED <<session, objectVars, app, worker>>
    BY <1>1 DEF Focused, vars
  <2> QED
    BY <2>1, HeldSame
<1> QED
  BY <1>1, HeldCall, HeldCallStep, HeldWorker DEF Next

\* Once a thread has got hold of a deleted object, that is never undone.
LEMMA MisusedStays == misused /\ [Next]_vars => misused'
<1> SUFFICES ASSUME misused, [Next]_vars PROVE misused'
  OBVIOUS
<1>1. CASE Focused \/ UNCHANGED vars
  BY <1>1 DEF Focused, vars, objectVars
<1>2. CASE Call
  BY <1>2 DEF Call, Open, Close, StartPreview, AutoFocus, BeginCancel, objectVars
<1>3. CASE UnknownCamera \/ GiveUp \/ ShareObject \/ Construct \/ NoDevice \/ StartCamera
           \/ StartFails \/ DeleteCamera \/ ReturnNull \/ Destroy
  BY <1>3 DEF UnknownCamera, GiveUp, ShareObject, Construct, NoDevice, StartCamera, StartFails,
     DeleteCamera, ReturnNull, Destroy, LeaveLibrary, ForgetSingleton, objectVars
<1>4. CASE CancelFocus \/ UnlockAf \/ LockTimeout \/ StopStreaming \/ EndCall \/ EndRelease
           \/ InitPreviewFails \/ InitPreview \/ StartOps \/ AutoFocusNoThread \/ AutoFocusThread
  BY <1>4 DEF CancelFocus, UnlockAf, LockTimeout, StopStreaming, EndCall, EndRelease,
     InitPreviewFails, InitPreview, StartOps, AutoFocusNoThread, AutoFocusThread, objectVars
<1>5. ASSUME NEW w \in Workers, WorkerStep(w) \/ FrameError(w) \/ CallsBack(w) PROVE misused'
  <2>1. CASE WorkerGoing(w)
    BY <2>1, GoingOn DEF objectVars
  <2>2. CASE Begin(w, "new frame", "frame") \/ Begin(w, "new focus", "focus lock")
             \/ End(w, "frame end") \/ End(w, "focus end") \/ WorkerDestroy(w)
    BY <2>2 DEF Begin, End, WorkerDestroy, LeaveLibrary, ForgetSingleton
  <2> QED
    BY <1>5, <2>1, <2>2 DEF WorkerStep, WorkerGoing
<1> QED
  BY <1>1, <1>2, <1>3, <1>4, <1>5 DEF Next, CallStep

-----------------------------------------------------------------------------
(* Focusing.                                                                *)

\* A step that leaves those that focus, and a camera that runs while one does.
LEMMA FocusSame ==
  ASSUME FocusInv,
         focusing' => focusing,
         focusing /\ cam.mCameraRunning => cam'.mCameraRunning,
         \A w \in Workers : worker[w].at = "focus" => worker'[w].at = "focus"
  PROVE  FocusInv'
  BY DEF FocusInv

LEMMA FocusCallStep == TypeInv /\ FocusInv /\ CallStep => FocusInv'
<1> SUFFICES ASSUME TypeInv, FocusInv, CallStep PROVE FocusInv'
  OBVIOUS
<1>1. CASE UnknownCamera \/ GiveUp \/ ShareObject \/ NoDevice \/ StartCamera \/ Destroy
           \/ CancelFocus \/ UnlockAf \/ LockTimeout \/ EndCall \/ EndRelease \/ InitPreviewFails
           \/ AutoFocusNoThread \/ StartFails \/ DeleteCamera \/ ReturnNull
  <2>1. UNCHANGED <<cam, worker>> /\ (focusing' = focusing \/ focusing' = FALSE)
    BY <1>1 DEF UnknownCamera, GiveUp, ShareObject, NoDevice, StartCamera, Destroy, CancelFocus,
       UnlockAf, LockTimeout, EndCall, EndRelease, InitPreviewFails, AutoFocusNoThread,
       StartFails, DeleteCamera, ReturnNull, LeaveLibrary, ForgetSingleton
  <2> QED
    BY <2>1, FocusSame DEF TypeInv
<1>2. CASE Construct
  BY <1>2 DEF Construct, FocusInv
<1>3. CASE StopStreaming
  <2>1. ~focusing
    BY <1>3 DEF StopStreaming, RunningLockFree, FocusInv
  <2>2. ~focusing'
    BY <1>3, <2>1 DEF StopStreaming, TypeInv
  <2> QED
    BY <2>2 DEF FocusInv
<1>4. CASE InitPreview \/ AutoFocusThread
  <2>1. /\ focusing' = focusing /\ cam'.mCameraRunning = cam.mCameraRunning
        /\ \E at \in {"new frame", "new focus"} : CanSpawn /\ Spawned(at)
    BY <1>4 DEF InitPreview, AutoFocusThread, TypeInv, Cam
  <2>2. \A w \in Workers : worker[w].at = "focus" => worker'[w].at = "focus"
    BY <2>1, SpawnedOne
  <2> QED
    BY <2>1, <2>2, FocusSame
<1>5. CASE StartOps
  <2>1. UNCHANGED worker /\ (cam.mCameraRunning => cam'.mCameraRunning)
        /\ (focusing' => focusing)
    BY <1>5 DEF StartOps, TypeInv, Cam
  <2> QED
    BY <2>1, FocusSame
<1> QED
  BY <1>1, <1>2, <1>3, <1>4, <1>5 DEF CallStep

LEMMA FocusWorker ==
  ASSUME TypeInv, FocusInv, NEW w \in Workers, WorkerStep(w) \/ FrameError(w) \/ CallsBack(w)
  PROVE  FocusInv'
<1>1. CASE FocusStarts(w)
  <2>1. CASE /\ cam.mCameraRunning
             /\ WorkerGoes(w, "af", "focus") /\ focusing' = TRUE
    <3>1. worker'[w].at = "focus"
      BY <2>1 DEF WorkerGoes, TypeInv, Worker
    <3> QED
      BY <1>1, <2>1, <3>1 DEF FocusStarts, FocusInv
  <2>2. CASE WorkerGoes(w, "af", "af unlock") /\ UNCHANGED focusing
    <3>1. \A u \in Workers : worker[u].at = "focus" => worker'[u].at = "focus"
      BY <2>2 DEF WorkerGoes, TypeInv
    <3> QED
      BY <1>1, <2>2, <3>1, FocusSame DEF FocusStarts
  <2> QED
    BY <1>1, <2>1, <2>2 DEF FocusStarts
<1>2. CASE FocusEnds(w)
  <2>1. CASE ~focusing
    BY <1>2, <2>1 DEF FocusEnds, FocusInv
  <2>2. CASE WorkerGoes(w, "af unlock", "focus done")
    <3>1. \A u \in Workers : worker[u].at = "focus" => worker'[u].at = "focus"
      BY <2>2 DEF WorkerGoes, TypeInv
    <3> QED
      BY <1>2, <3>1, FocusSame DEF FocusEnds
  <2> QED
    BY <1>2, <2>1, <2>2 DEF FocusEnds
<1>3. ASSUME worker[w].at # "focus", \A u \in Workers \ {w} : worker'[u] = worker[u],
             UNCHANGED focusing, cam'.mCameraRunning = cam.mCameraRunning
      PROVE  FocusInv'
  BY <1>3, FocusSame
<1>4. CASE FrameError(w) \/ FrameTimeout(w) \/ CallsBack(w) \/ CallBegins(w) \/ CallbackReturns(w)
           \/ FrameEnds(w) \/ FocusBegins(w) \/ FocusSkipped(w) \/ FocusDone(w)
  BY <1>3, <1>4 DEF FrameError, FrameTimeout, CallsBack, CallBegins, CallbackReturns, FrameEnds,
                    FocusBegins, FocusSkipped, FocusDone, WorkerGoes, TypeInv, Cam
<1>5. CASE Begin(w, "new frame", "frame") \/ Begin(w, "new focus", "focus lock")
  BY <1>3, <1>5 DEF Begin, TypeInv
<1>6. CASE End(w, "frame end") \/ End(w, "focus end")
  BY <1>3, <1>6 DEF End, TypeInv
<1>7. CASE WorkerDestroy(w)
  BY <1>3, <1>7 DEF WorkerDestroy, WorkerGoes, LeaveLibrary, ForgetSingleton, TypeInv
<1> QED
  BY <1>1, <1>2, <1>4, <1>5, <1>6, <1>7 DEF WorkerStep

LEMMA FocusStep == TypeInv /\ FocusInv /\ [Next]_vars => FocusInv'
<1> SUFFICES ASSUME TypeInv, FocusInv, [Next]_vars PROVE FocusInv'
  OBVIOUS
<1>1. CASE UNCHANGED vars
  BY <1>1 DEF vars, FocusInv
<1>2. CASE Focused
  BY <1>2 DEF Focused, FocusInv, TypeInv
<1>3. CASE Call
  <2>1. UNCHANGED <<focusing, worker>> /\ cam'.mCameraRunning = cam.mCameraRunning
    BY <1>3 DEF Call, Open, Close, StartPreview, AutoFocus, BeginCancel
  <2> QED
    BY <2>1, FocusSame
<1> QED
  BY <1>1, <1>2, <1>3, FocusCallStep, FocusWorker DEF Next

-----------------------------------------------------------------------------
(* The theorems.                                                            *)

\* The inductive invariant holds in every state.
THEOREM SessionInvariant == Spec => []IInv
<1>1. Init => IInv
  BY TypeInit, HeldInit DEF Init, FocusInv, IInv
<1>2. IInv /\ [Next]_vars => IInv'
  BY TypeStep, HeldStep, FocusStep, MisusedStays DEF IInv
<1> QED
  BY <1>1, <1>2, PTL DEF Spec

\* Whoever holds a reference to a camera object (QualcommCameraHardware.cpp)
\* finds the library that object has loaded, and there is no other object: but
\* for the one that createInstance deletes when the camera does not start, and as
\* long as no thread has got hold of that.
THEOREM AlwaysLibraryKept == Spec => []LibraryKept
<1>1. IInv => LibraryKept
  BY DEF IInv, HeldInv, ObjectInv, LibraryKept
<1> QED
  BY <1>1, SessionInvariant, PTL

\* The lens is moved only while the camera is running (runAutoFocus).
THEOREM AlwaysFocusRuns == Spec => []FocusRuns
<1>1. IInv => FocusRuns
  BY DEF IInv, FocusInv, FocusRuns
<1> QED
  BY <1>1, SessionInvariant, PTL

=============================================================================
