--------------------------- MODULE CameraSession ---------------------------
(***************************************************************************)
(* The camera HAL from camera_device_open to camera_device_close            *)
(* (camerahal/cameraHAL.cpp and QualcommCameraHardware.cpp): the one object *)
(* all cameras share, which whoever drops the last reference destroys; the  *)
(* library it loads; preview, auto focus, and the frame thread's timeouts.  *)
(*                                                                         *)
(* The camera service makes one call at a time ("app"), which holds mLock,  *)
(* and releases a camera before it closes it.  The frame thread and auto    *)
(* focus threads are detached: each looks the object up when it begins, and *)
(* holds a reference until it ends.  The service's callbacks run on the     *)
(* frame thread, and may stop the preview and release the camera from it.   *)
(* An object is a number.                                                   *)
(***************************************************************************)
EXTENDS Naturals, FiniteSets

CONSTANTS
  Ids,        \* the cameras
  Workers,    \* bound: threads the HAL has at a time
  MaxObjects  \* bound: objects made

ASSUME SessionAssumption ==
  /\ Ids # {} /\ MaxObjects \in Nat /\ Ids \cap Workers = {} /\ "app" \notin Ids \cup Workers

VARIABLES
  session,    \* of each camera: closed, open or released
  newest,     \* objects made
  live,       \* those whose destructor has not ended
  refs,       \* who holds a reference: gCameraHals (an id), or a thread
  singleton,  \* the weak pointer, 0 for none
  singleton_releasing,
  libmmcamera,  \* the object that has set it, 0 for NULL
  deleted,    \* objects that createInstance deletes while it refers to them
  misused,    \* a thread has referred to one of those
  cam,        \* fields of the newest object
  focusing,   \* the driver is in the focus operation
  holder,     \* who holds each mutex
  app,        \* where the service's call is, and of which camera
  worker      \* where each thread is, and its object

objectVars == <<newest, live, refs, singleton, singleton_releasing, libmmcamera,
                deleted, misused>>
vars == <<session, objectVars, cam, focusing, holder, app, worker>>

Threads == Workers \cup {"app"}
Mutexes == {"singleton", "focusThread", "af", "timeout"}
Free == "free"

Objects == 1 .. MaxObjects

Cam == [mCameraRunning : BOOLEAN, mPreviewInitialized : BOOLEAN,
        mFrameThreadRunning : BOOLEAN, mAutoFocusThreadRunning : BOOLEAN,
        camframe_timeout_flag : BOOLEAN, terminate : BOOLEAN] \* LINK_camframe_terminate

New == [mCameraRunning |-> FALSE, mPreviewInitialized |-> FALSE,
        mFrameThreadRunning |-> FALSE, mAutoFocusThreadRunning |-> FALSE,
        camframe_timeout_flag |-> FALSE, terminate |-> FALSE]

Idle == [op |-> "none", at |-> "idle", id |-> 0, by |-> "app"]
NoWorker == [at |-> "none", from |-> 0, obj |-> 0]

Init ==
  /\ session = [i \in Ids |-> "closed"] /\ newest = 0 /\ live = {}
  /\ refs = [o \in Objects |-> {}] /\ singleton = 0 /\ singleton_releasing = FALSE
  /\ libmmcamera = 0 /\ deleted = {} /\ misused = FALSE /\ cam = New
  /\ focusing = FALSE
  /\ holder = [l \in Mutexes |-> Free]
  /\ app = Idle /\ worker = [w \in Workers |-> NoWorker]

Goes(from, to) == app.at = from /\ app' = [app EXCEPT !.at = to]
Returns(from) == app.at = from /\ app' = Idle

Lock(l, t) == holder[l] = Free /\ holder' = [holder EXCEPT ![l] = t]
Unlock(ls) == holder' = [l \in Mutexes |-> IF l \in ls THEN Free ELSE holder[l]]

Promoted(o) == o # 0 /\ refs[o] # {}

-----------------------------------------------------------------------------
(* The last reference.                                                      *)

\* t drops the reference r to o, and goes on to destroy it if it was the last.
Drops(r, o) == refs' = [refs EXCEPT ![o] = @ \ {r}]
IsLast(r, o) == refs[o] = {r}

\* ~QualcommCameraHardware, the library: no lock is held.
LeaveLibrary(o) ==
  /\ libmmcamera' = 0
  /\ UNCHANGED <<session, newest, live, refs, singleton, singleton_releasing, deleted, misused,
                 cam, focusing, holder>>

\* ~QualcommCameraHardware, under singleton_lock: those that wait for the
\* release go on.
ForgetSingleton(o) ==
  /\ holder["singleton"] = Free
  /\ live' = live \ {o} /\ singleton' = 0 /\ singleton_releasing' = FALSE
  /\ UNCHANGED <<session, newest, refs, libmmcamera, deleted, misused, cam, focusing, holder>>

-----------------------------------------------------------------------------
(* camera_device_open and createInstance.                                   *)

Open(i) ==
  /\ app = Idle /\ session[i] = "closed"
  /\ app' = [Idle EXCEPT !.op = "open", !.at = "create", !.id = i]
  /\ UNCHANGED <<session, objectVars, cam, focusing, holder, worker>>

\* The previous release has not ended after five seconds.
GiveUp ==
  /\ singleton_releasing /\ Returns("create")
  /\ UNCHANGED <<session, objectVars, cam, focusing, holder, worker>>

Opened == session' = [session EXCEPT ![app.id] = "open"]

ShareObject ==
  /\ Returns("create") /\ ~singleton_releasing /\ holder["singleton"] = Free
  /\ Promoted(singleton) /\ refs' = [refs EXCEPT ![singleton] = @ \cup {app.id}]
  /\ Opened
  /\ UNCHANGED <<newest, live, singleton, singleton_releasing, libmmcamera, deleted, misused,
                 cam, focusing, holder, worker>>

\* The constructor, its mutexes with it; singleton_lock is kept until the camera
\* has started.
Construct ==
  /\ ~singleton_releasing /\ ~Promoted(singleton) /\ newest < MaxObjects
  /\ holder["singleton"] = Free
  /\ holder' = [l \in Mutexes |-> IF l = "singleton" THEN "app" ELSE Free]
  /\ newest' = newest + 1 /\ live' = live \cup {newest'}
  /\ refs' = [refs EXCEPT ![newest'] = {"app"}] /\ singleton' = newest'
  /\ libmmcamera' = newest'
  /\ cam' = New /\ focusing' = FALSE
  /\ Goes("create", "start")
  /\ UNCHANGED <<session, singleton_releasing, deleted, misused, worker>>

\* HAL_openCameraHardware: the driver tells of no such camera.
UnknownCamera ==
  /\ Returns("create")
  /\ UNCHANGED <<session, objectVars, cam, focusing, holder, worker>>

\* /dev/oncrpc cannot be found.
NoDevice ==
  /\ ~singleton_releasing /\ holder["singleton"] = Free /\ ~Promoted(singleton)
  /\ Returns("create")
  /\ UNCHANGED <<session, objectVars, cam, focusing, holder, worker>>

\* startCamera joins the thread that opens the camera, initDefaultParameters.
StartCamera ==
  /\ Returns("start") /\ libmmcamera # 0 /\ Unlock({"singleton"})
  /\ Opened /\ refs' = [refs EXCEPT ![newest] = (@ \ {"app"}) \cup {app.id}]
  /\ UNCHANGED <<newest, live, singleton, singleton_releasing, libmmcamera, deleted, misused, cam,
                 focusing, worker>>

\* No library, the camera does not open, or the driver tells no sizes:
\* createInstance goes on to delete the object it refers to.
StartFails ==
  /\ Goes("start", "delete") /\ Unlock({"singleton"})
  /\ deleted' = deleted \cup {newest} /\ misused' = (misused \/ refs[newest] # {"app"})
  /\ UNCHANGED <<session, newest, live, refs, singleton, singleton_releasing, libmmcamera, cam,
                 focusing, worker>>

DeleteCamera ==
  \/ Goes("delete", "deleting") /\ LeaveLibrary(newest) /\ UNCHANGED worker
  \/ Goes("deleting", "freed") /\ ForgetSingleton(newest) /\ UNCHANGED worker

\* "hardware" goes out of scope, and the count is taken from freed memory.  Were
\* the destructor run again, it would find nothing left to clear.
ReturnNull ==
  /\ Returns("freed") /\ Drops("app", newest)
  /\ UNCHANGED <<session, newest, live, singleton, singleton_releasing, libmmcamera, deleted,
                 misused, cam, focusing, holder, worker>>

\* camera_device_close.
Close(i) ==
  /\ app = Idle /\ session[i] = "released"
  /\ session' = [session EXCEPT ![i] = "closed"]
  /\ Drops(i, newest)
  /\ app' = IF IsLast(i, newest)
            THEN [Idle EXCEPT !.op = "close", !.at = "destroy", !.id = i] ELSE Idle
  /\ UNCHANGED <<newest, live, singleton, singleton_releasing, libmmcamera, deleted, misused,
                 cam, focusing, holder, worker>>

Destroy ==
  \/ Goes("destroy", "forget") /\ LeaveLibrary(newest) /\ UNCHANGED worker
  \/ Returns("forget") /\ ForgetSingleton(newest) /\ UNCHANGED worker

-----------------------------------------------------------------------------
(* cancelAutoFocus, stopPreview and release.                                *)

\* A release without a preview, or after another camera's ("multiple release").
NothingToStop == singleton_releasing \/ ~cam.mCameraRunning

\* cancelAutoFocus, and stopPreviewInternal, which cancels first if the focus
\* message is enabled (the service enables and disables it as it likes: both are
\* possible), called by thread t.
Begins(i, op, t) ==
  /\ app = Idle /\ session[i] = "open"
  /\ \E at \in {"cancel", "timeout", "end"} :
       /\ IF op = "release" /\ NothingToStop THEN at = "end"
          ELSE cam.mCameraRunning /\ at # "end" /\ (op = "cancel" => at = "cancel")
       /\ app' = [op |-> op, at |-> at, id |-> i, by |-> t]

BeginCancel(i, op) ==
  /\ Begins(i, op, "app")
  /\ UNCHANGED <<session, objectVars, cam, focusing, holder, worker>>

AfterCancel == IF app.op = "cancel" THEN "end" ELSE "timeout"

\* cancelAutoFocusInternal: mAfLock is got, so focusing has not begun or has
\* ended, and is given back; or it is busy, and the driver is told to stop.
CancelFocus ==
  /\ \/ Lock("af", "app") /\ Goes("cancel", "held") /\ UNCHANGED focusing
     \/ /\ holder["af"] # Free /\ focusing' = FALSE
        /\ Goes("cancel", AfterCancel) /\ UNCHANGED holder
  /\ UNCHANGED <<session, objectVars, cam, worker>>

UnlockAf ==
  /\ Goes("held", AfterCancel) /\ Unlock({"af"})
  /\ UNCHANGED <<session, objectVars, cam, focusing, worker>>

LockTimeout ==
  /\ Goes("timeout", "streaming") /\ Lock("timeout", "app")
  /\ UNCHANGED <<session, objectVars, cam, focusing, worker>>

\* An auto focus thread holds mCameraRunningLock while it focuses.
RunningLockFree == \A w \in Workers : worker[w].at # "focus"

\* The driver is told to stop, which it may refuse, unless the frame thread has
\* timed out; a camera that has stopped ends its frame thread, whom nobody
\* waits for.
Stopped ==
  cam' = [cam EXCEPT !.mCameraRunning = FALSE, !.terminate = @ \/ cam.mPreviewInitialized,
                     !.mPreviewInitialized = FALSE]

StopStreaming_locked ==
  /\ Goes("streaming", "end") /\ RunningLockFree
  /\ Stopped \/ (~cam.camframe_timeout_flag /\ UNCHANGED cam)
  /\ UNCHANGED <<session, objectVars, focusing, holder, worker>>

StopStreaming_runs ==
  /\ Goes("streaming", "end") /\ RunningLockFree
  /\ cam' = [cam EXCEPT !.mCameraRunning = FALSE, !.mPreviewInitialized = FALSE]
  /\ Unlock({"timeout"})
  /\ UNCHANGED <<session, objectVars, focusing, worker>>

StopStreaming ==
  /\ Goes("streaming", "end") /\ RunningLockFree
  /\ Stopped \/ (~cam.camframe_timeout_flag /\ UNCHANGED cam)
  /\ Unlock({"timeout"})
  /\ UNCHANGED <<session, objectVars, focusing, worker>>

EndCall ==
  /\ app.op # "release" /\ Returns("end")
  /\ UNCHANGED <<session, objectVars, cam, focusing, holder, worker>>

\* The singleton is not marked.
Releases_silent == UNCHANGED singleton_releasing

Releases == singleton_releasing' = TRUE

Released(i) == session' = [session EXCEPT ![i] = "released"]

\* release, after the preview; pictures and heaps are in CameraStill.
EndRelease ==
  /\ app.op = "release" /\ Returns("end") /\ holder["singleton"] = Free
  /\ Releases /\ Released(app.id)
  /\ UNCHANGED <<newest, live, refs, singleton, libmmcamera, deleted, misused, cam, focusing,
                 holder, worker>>

-----------------------------------------------------------------------------
(* startPreview and autoFocus.                                              *)

CanSpawn == \E w \in Workers : worker[w].at = "none"
Spawned(at) ==
  worker' = [worker EXCEPT ![CHOOSE w \in Workers : worker[w].at = "none"] =
                             [at |-> at, from |-> newest, obj |-> 0]]

StartPreview(i) ==
  /\ app = Idle /\ session[i] = "open" /\ ~cam.mCameraRunning
  /\ app' = [Idle EXCEPT !.op = "start", !.at = "frame", !.id = i]
  /\ UNCHANGED <<session, objectVars, cam, focusing, holder, worker>>

\* initPreview waits for the last frame thread; no heap, or no thread.
InitPreviewFails ==
  /\ ~cam.mFrameThreadRunning /\ Returns("frame")
  /\ UNCHANGED <<session, objectVars, cam, focusing, holder, worker>>

InitPreview ==
  /\ ~cam.mFrameThreadRunning /\ CanSpawn /\ Spawned("new frame")
  /\ cam' = [cam EXCEPT !.mFrameThreadRunning = TRUE, !.mPreviewInitialized = TRUE,
                        !.terminate = FALSE]
  /\ Goes("frame", "ops")
  /\ UNCHANGED <<session, objectVars, focusing, holder>>

\* A camera that has been released does not start.
StartOps ==
  /\ Returns("ops") /\ RunningLockFree
  /\ \/ ~singleton_releasing /\ cam' = [cam EXCEPT !.mCameraRunning = TRUE]
     \/ cam' = [cam EXCEPT !.mPreviewInitialized = FALSE, !.terminate = TRUE]
  /\ UNCHANGED <<session, objectVars, focusing, holder, worker>>

AutoFocus(i) ==
  /\ app = Idle /\ session[i] = "open"
  /\ app' = [Idle EXCEPT !.op = "focus", !.at = "focus", !.id = i]
  /\ UNCHANGED <<session, objectVars, cam, focusing, holder, worker>>

\* Under mAutoFocusThreadLock, which a thread that focuses holds: the driver
\* does not prepare, or there is no thread, or a thread is running already.
AutoFocusNoThread ==
  /\ Returns("focus") /\ holder["focusThread"] = Free
  /\ UNCHANGED <<session, objectVars, cam, focusing, holder, worker>>

AutoFocusThread ==
  /\ Returns("focus") /\ holder["focusThread"] = Free
  /\ ~cam.mAutoFocusThreadRunning /\ ~singleton_releasing /\ CanSpawn
  /\ Spawned("new focus") /\ cam' = [cam EXCEPT !.mAutoFocusThreadRunning = TRUE]
  /\ UNCHANGED <<session, objectVars, focusing, holder>>

-----------------------------------------------------------------------------
(* The threads of the HAL.                                                  *)

WorkerGoes(w, from, to) == worker[w].at = from /\ worker' = [worker EXCEPT ![w].at = to]

\* getInstance: the object may be gone, or be another one than that which
\* started the thread.
Begin(w, from, to) ==
  /\ worker[w].at = from
  /\ \/ /\ Promoted(singleton)
        /\ refs' = [refs EXCEPT ![singleton] = @ \cup {w}]
        /\ worker' = [worker EXCEPT ![w].at = to, ![w].obj = singleton]
        /\ misused' = (misused \/ singleton \in deleted)
     \/ /\ ~Promoted(singleton) /\ worker' = [worker EXCEPT ![w] = NoWorker]
        /\ UNCHANGED <<refs, misused>>
  /\ UNCHANGED <<session, newest, live, singleton, singleton_releasing, libmmcamera, deleted, cam,
                 focusing, holder, app>>

\* The thread ends and drops its reference; whether it destroys an object that
\* has been deleted is up to what is in the memory.
End(w, from) ==
  /\ worker[w].at = from /\ Drops(w, worker[w].obj)
  /\ \/ /\ IsLast(w, worker[w].obj) /\ worker' = [worker EXCEPT ![w].at = "destroy"]
     \/ /\ ~IsLast(w, worker[w].obj) \/ worker[w].obj \in deleted
        /\ worker' = [worker EXCEPT ![w] = NoWorker]
  /\ UNCHANGED <<session, newest, live, singleton, singleton_releasing, libmmcamera, deleted,
                 misused, cam, focusing, holder, app>>

WorkerDestroy(w) ==
  \/ WorkerGoes(w, "destroy", "forget") /\ LeaveLibrary(worker[w].obj) /\ UNCHANGED app
  \/ /\ worker[w].at = "forget" /\ ForgetSingleton(worker[w].obj)
     /\ worker' = [worker EXCEPT ![w] = NoWorker] /\ UNCHANGED app

\* LINK_cam_frame gets no frames for too long: receive_camframe_error_timeout.
FrameError(w) ==
  /\ WorkerGoes(w, "frame", "error")
  /\ UNCHANGED <<session, objectVars, cam, focusing, holder, app>>

\* mCamframeTimeoutLock is kept until mNotifyCallback has returned.
FrameTimeout(w) ==
  /\ WorkerGoes(w, "error", "notify") /\ Lock("timeout", w)
  /\ cam' = [cam EXCEPT !.camframe_timeout_flag = TRUE]
  /\ UNCHANGED <<session, objectVars, focusing, app>>

\* A callback, of a preview frame or of the error, calls the HAL, which waits
\* for mLock: "when the refcount on the Camera client reaches zero" (external).
CallsBack(w) ==
  /\ \E from \in {"frame", "notify"} : WorkerGoes(w, from, "mLock")
  /\ UNCHANGED <<session, objectVars, cam, focusing, holder, app>>

CallBegins(w) ==
  /\ WorkerGoes(w, "mLock", "calling")
  /\ \E i \in Ids, op \in {"stop", "release"} : Begins(i, op, w)
  /\ UNCHANGED <<session, objectVars, cam, focusing, holder>>

\* It had nothing to call, nothing to stop, or its call has ended.
CallbackReturns(w) ==
  /\ \/ WorkerGoes(w, "notify", "frame")
     \/ WorkerGoes(w, "mLock", "frame") /\ app = Idle
     \/ WorkerGoes(w, "calling", "frame") /\ app.by # w
  /\ Unlock({l \in {"timeout"} : holder[l] = w})
  /\ UNCHANGED <<session, objectVars, cam, focusing, app>>

\* LINK_cam_frame returns, and runFrameThread ends.
FrameEnds(w) ==
  /\ cam.terminate /\ WorkerGoes(w, "frame", "frame end")
  /\ cam' = [cam EXCEPT !.mFrameThreadRunning = FALSE]
  /\ UNCHANGED <<session, objectVars, focusing, holder, app>>

\* runAutoFocus.
FocusBegins(w) ==
  /\ WorkerGoes(w, "focus lock", "af") /\ Lock("focusThread", w)
  /\ UNCHANGED <<session, objectVars, cam, focusing, app>>

\* The focus mode is infinity or continuous, or a cancel is under way.
FocusSkipped(w) ==
  /\ WorkerGoes(w, "af", "focus done")
  /\ UNCHANGED <<session, objectVars, cam, focusing, holder, app>>

FocusStarts_anyway(w) ==
  /\ Lock("af", w) /\ RunningLockFree
  /\ WorkerGoes(w, "af", "focus") /\ focusing' = TRUE
  /\ UNCHANGED <<session, objectVars, cam, app>>

\* With mAfLock and mCameraRunningLock, if the camera is running.
FocusStarts(w) ==
  /\ Lock("af", w) /\ RunningLockFree
  /\ \/ /\ cam.mCameraRunning
        /\ WorkerGoes(w, "af", "focus") /\ focusing' = TRUE
     \/ ~cam.mCameraRunning /\ WorkerGoes(w, "af", "af unlock") /\ UNCHANGED focusing
  /\ UNCHANGED <<session, objectVars, cam, app>>

\* "This will block until either AF completes or is cancelled."
FocusEnds(w) ==
  /\ \/ ~focusing /\ WorkerGoes(w, "focus", "focus done")
     \/ WorkerGoes(w, "af unlock", "focus done")
  /\ Unlock({"af"})
  /\ UNCHANGED <<session, objectVars, cam, focusing, app>>

\* The callback follows, with no lock.
FocusDone(w) ==
  /\ WorkerGoes(w, "focus done", "focus end") /\ Unlock({"focusThread"})
  /\ cam' = [cam EXCEPT !.mAutoFocusThreadRunning = FALSE]
  /\ UNCHANGED <<session, objectVars, focusing, app>>

\* The sensor has focused (external).
Focused ==
  /\ focusing /\ focusing' = FALSE
  /\ UNCHANGED <<session, objectVars, cam, holder, app, worker>>

-----------------------------------------------------------------------------

\* What the service may do, and what goes on by itself.
Call ==
  \E i \in Ids :
    \/ Open(i) \/ Close(i) \/ StartPreview(i) \/ AutoFocus(i)
    \/ \E op \in {"cancel", "stop", "release"} : BeginCancel(i, op)

CallStep ==
  \/ UnknownCamera \/ GiveUp \/ ShareObject \/ Construct \/ NoDevice \/ StartCamera
  \/ StartFails \/ DeleteCamera \/ ReturnNull \/ Destroy
  \/ CancelFocus \/ UnlockAf \/ LockTimeout \/ StopStreaming \/ EndCall \/ EndRelease
  \/ InitPreviewFails \/ InitPreview \/ StartOps \/ AutoFocusNoThread \/ AutoFocusThread

\* A frame thread ends sooner or later when it has been told to.
WorkerStep(w) ==
  \/ Begin(w, "new frame", "frame") \/ Begin(w, "new focus", "focus lock")
  \/ End(w, "frame end") \/ End(w, "focus end") \/ WorkerDestroy(w)
  \/ FrameTimeout(w) \/ CallBegins(w) \/ CallbackReturns(w) \/ FrameEnds(w)
  \/ FocusBegins(w) \/ FocusSkipped(w) \/ FocusStarts(w) \/ FocusEnds(w) \/ FocusDone(w)

Next ==
  \/ Call \/ CallStep \/ Focused
  \/ \E w \in Workers : WorkerStep(w) \/ FrameError(w) \/ CallsBack(w)

Spec == Init /\ [][Next]_vars

\* Calls go on, threads are scheduled, the sensor focuses in the end, and who
\* waits for a mutex that is free again and again gets it (the frame thread's
\* timeouts are seconds apart).
FairSpec ==
  Spec /\ WF_vars(CallStep) /\ SF_vars(LockTimeout) /\ WF_vars(Focused)
       /\ \A w \in Workers : /\ WF_vars(WorkerStep(w)) /\ SF_vars(FrameEnds(w))
                            /\ SF_vars(CallbackReturns(w))

-----------------------------------------------------------------------------
(* Properties.                                                              *)

\* Whoever holds a reference to the camera object can call into the library:
\* libmmcamera and the function pointers are globals, which the destructor of
\* an object that is closed late must not clear under the next one.  Excepted
\* is the object of a camera that has not started, deleted under createInstance's
\* own reference; and when a thread of the camera before has got hold of it too,
\* nothing is promised any more.
LibraryKept ==
  ~misused => \A o \in Objects \ deleted : refs[o] # {} => libmmcamera = o /\ live = {o}

\* The lens is moved only while the camera is running, though focusing, the
\* preview and its timeouts are three threads: mCameraRunningLock.
FocusRuns == focusing => cam.mCameraRunning

\* The frame thread's callback calls with the lock its own call, or another that
\* has mLock, waits for; or it waits for mLock, which startPreview has while it
\* waits for the frame thread.
LockedOut ==
  \E w \in Workers :
    \/ app.at = "timeout" /\ holder["timeout"] = w /\ worker[w].at \in {"mLock", "calling"}
    \/ app.at = "frame" /\ cam.mFrameThreadRunning /\ worker[w].at = "mLock"

\* Every call returns, whatever the frame thread and the focus threads wait for,
\* unless a callback has called back.
CallsReturn == (app # Idle) ~> (app = Idle \/ LockedOut)

\* A frame thread that began after its camera was closed and opened again.
Framing == {"frame", "error", "notify", "mLock", "calling"}
Stray == \E w \in Workers : worker[w].at \in Framing /\ worker[w].from # worker[w].obj

\* When every camera is closed the object goes, and the cameras can be opened
\* again, unless the driver has refused to stop (or a thread has strayed).
Reopens ==
  (\A i \in Ids : session[i] = "closed")
    ~> (live = {} \/ (\E i \in Ids : session[i] # "closed") \/ cam.mCameraRunning \/ Stray)

=============================================================================
