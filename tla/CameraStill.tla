----------------------------- MODULE CameraStill -----------------------------
(***************************************************************************)
(* Preview and still pictures of the camera HAL                            *)
(* (camerahal/QualcommCameraHardware.cpp under camerahal/cameraHAL.cpp):   *)
(* the calls of the camera service, the frame thread that delivers preview *)
(* frames, the snapshot thread of one picture and the jpeg encoder, and the *)
(* memory heaps they share.                                                *)
(*                                                                         *)
(* The camera service makes one call at a time; the call holds mLock from  *)
(* its first step to its last.  Of the other locks only those are kept     *)
(* that somebody waits for with another in hand.  The target is MSM8660    *)
(* (storeTargetType sets it last), textures are not streamed, and the      *)
(* messages of camera_take_picture stay enabled.                           *)
(***************************************************************************)
EXTENDS Naturals

CONSTANTS
  Calls,    \* the calls of the service
  Formats   \* picture formats: "jpeg", "raw"

ASSUME StillAssumption ==
  /\ Calls \subseteq {"startPreview", "stopPreview", "takePicture", "cancelPicture",
                      "stopRecording", "release", "setOverlay"}
  /\ Formats \subseteq {"jpeg", "raw"}

VARIABLES
  cam,      \* the fields of QualcommCameraHardware, see Cam
  heaps,    \* the heaps that are not NULL
  app,      \* where the service's call is
  frame,    \* where the frame thread is; mFrameThreadRunning is frame # "none"
  snap,     \* where the snapshot thread is; mSnapshotThreadRunning, likewise
  jpeg,     \* where the encoder is
  held,     \* mSnapshotThreadWaitLock is held by a takePicture that has returned
  dropped   \* history: stopRecording has freed mJpegHeap during a picture

vars == <<cam, heaps, app, frame, snap, jpeg, held, dropped>>

Heaps == {"preview", "raw", "jpeg", "thumbnail", "display", "postview", "rawsnap"}

Cam == [mCameraRunning : BOOLEAN, mInSnapshotMode : BOOLEAN,
        mSnapshotCancel : BOOLEAN, mJpegThreadRunning : BOOLEAN,
        mFirstFrame : BOOLEAN, mPrevHeapDeallocRunning : BOOLEAN,
        mOverlay : BOOLEAN,                         \* not NULL
        mLastQueuedFrame : {"none", "queued", "freed"}, \* freed: of a heap that is gone
        mSnapshotFormat : {"jpeg", "raw"},
        terminated : BOOLEAN]                       \* LINK_camframe_terminate was called

New == [mCameraRunning |-> FALSE, mInSnapshotMode |-> FALSE, mSnapshotCancel |-> FALSE,
        mJpegThreadRunning |-> FALSE, mFirstFrame |-> TRUE,
        mPrevHeapDeallocRunning |-> FALSE, mOverlay |-> FALSE,
        mLastQueuedFrame |-> "none", mSnapshotFormat |-> "jpeg", terminated |-> FALSE]

Init ==
  /\ cam = New /\ heaps = {}
  /\ app = "idle" /\ frame = "none" /\ snap = "none" /\ jpeg = "none"
  /\ held = FALSE /\ dropped = FALSE

-----------------------------------------------------------------------------
(* Locks and shared steps.                                                  *)

\* mLock is with the service's thread from the start of a call to its return;
\* camera_stop_recording makes two calls.
MLockFree == app \in {"idle", "restart", "released"}

\* mCallbackLock: receiveRawPicture, receiveRawSnapshot and receiveJpegPicture
\* hold it while they run.
MCallbackLockFree == snap \notin {"overlay", "raw_cb", "encode"} /\ jpeg # "deliver"

\* A frame of a heap that is freed is a dangling pointer.
Freed(q) == IF q = "queued" THEN "freed" ELSE q

\* deinitRaw on MSM8660: the thumbnail and display heaps stay for the overlay.
DeinitRaw == heaps' = heaps \ {"jpeg", "raw"}

\* stopPreviewInternal: the frame thread is told to end and not waited for.
\* When the driver does not stop, nothing else happens.
StopPreviewInternal ==
  \/ cam' = [cam EXCEPT !.mCameraRunning = FALSE, !.terminated = TRUE]
  \/ cam' = cam

-----------------------------------------------------------------------------
(* startPreview                                                             *)

StartPreviewInternal ==
  /\ ~cam.mCameraRunning
  /\ cam' = [cam EXCEPT !.mLastQueuedFrame = "none"]
  /\ app' = "frame"

StartPreview ==
  /\ "startPreview" \in Calls /\ app = "idle"
  /\ StartPreviewInternal
  /\ UNCHANGED <<heaps, frame, snap, jpeg, held, dropped>>

\* The frame thread is not waited for.
WaitFrameThread_not ==
  /\ app = "frame"
  /\ app' = "mode"
  /\ UNCHANGED <<cam, heaps, frame, snap, jpeg, held, dropped>>

WaitFrameThread ==
  /\ app = "frame" /\ frame = "none"
  /\ app' = "mode"
  /\ UNCHANGED <<cam, heaps, frame, snap, jpeg, held, dropped>>

WaitSnapshotMode ==
  /\ app = "mode" /\ ~cam.mInSnapshotMode
  /\ app' = "alloc"
  /\ UNCHANGED <<cam, heaps, frame, snap, jpeg, held, dropped>>

\* The heaps, then the thread.  The preview heap may fail, or what follows it.
InitPreview ==
  /\ app = "alloc"
  /\ \/ /\ heaps' = heaps \ {"preview"} /\ app' = "idle"
        /\ cam' = [cam EXCEPT !.mPrevHeapDeallocRunning = FALSE,
                              !.mLastQueuedFrame = Freed(@)]
        /\ UNCHANGED frame
     \/ \E first \in {cam.mFirstFrame, TRUE} :
          /\ heaps' = heaps \cup {"preview"} /\ app' = "idle"
          /\ cam' = [cam EXCEPT !.mPrevHeapDeallocRunning = FALSE,
                                !.mFirstFrame = first,
                                !.mLastQueuedFrame = Freed(@)]
          /\ UNCHANGED frame
     \/ /\ heaps' = heaps \cup {"preview"} /\ app' = "start" /\ frame' = "wait"
        /\ cam' = [cam EXCEPT !.mPrevHeapDeallocRunning = FALSE,
                              !.mFirstFrame = TRUE, !.terminated = FALSE,
                              !.mLastQueuedFrame = Freed(@)]
  /\ UNCHANGED <<snap, jpeg, held, dropped>>

StartOps ==
  /\ app = "start"
  /\ \/ cam' = [cam EXCEPT !.mCameraRunning = TRUE]
     \/ cam' = [cam EXCEPT !.terminated = TRUE, !.mOverlay = FALSE]
  /\ app' = "idle"
  /\ UNCHANGED <<heaps, frame, snap, jpeg, held, dropped>>

-----------------------------------------------------------------------------
(* Short calls.                                                             *)

\* stopPreview returns at once while a picture is under way.
StopPreview ==
  /\ "stopPreview" \in Calls /\ app = "idle"
  /\ cam.mCameraRunning /\ snap = "none"
  /\ StopPreviewInternal
  /\ UNCHANGED <<heaps, app, frame, snap, jpeg, held, dropped>>

\* cancelPicture takes no lock; the snapshot thread looks at the flag once.
CancelPicture ==
  /\ "cancelPicture" \in Calls /\ app = "idle"
  /\ cam' = [cam EXCEPT !.mSnapshotCancel = TRUE]
  /\ UNCHANGED <<heaps, app, frame, snap, jpeg, held, dropped>>

\* camera_set_preview_window sets or clears the overlay under mOverlayLock.
SetOverlay ==
  /\ "setOverlay" \in Calls /\ app = "idle"
  /\ cam' = [cam EXCEPT !.mOverlay = ~@]
  /\ UNCHANGED <<heaps, app, frame, snap, jpeg, held, dropped>>

\* The jpeg heap is freed whatever it is used for, but not while the application
\* has preview frames sent to it.
StopRecording ==
  /\ "stopRecording" \in Calls /\ app = "idle"
  /\ \/ heaps' = heaps \ {"jpeg"} /\ dropped' = (dropped \/ "jpeg" \in heaps)
     \/ UNCHANGED <<heaps, dropped>>
  /\ app' = "restart"
  /\ UNCHANGED <<cam, frame, snap, jpeg, held>>

\* Then camera_stop_recording has the preview started again.
RestartPreview ==
  /\ app = "restart"
  /\ \/ StartPreviewInternal
     \/ cam.mCameraRunning /\ app' = "idle" /\ UNCHANGED cam
  /\ UNCHANGED <<heaps, frame, snap, jpeg, held, dropped>>

-----------------------------------------------------------------------------
(* takePicture                                                              *)

\* The service takes pictures while the preview runs.
TakePicture ==
  /\ "takePicture" \in Calls /\ app = "idle"
  /\ cam.mCameraRunning
  /\ app' = "snap"
  /\ UNCHANGED <<cam, heaps, frame, snap, jpeg, held, dropped>>

\* The old snapshot thread is waited for; from here to "thread" the call has
\* mSnapshotThreadWaitLock.  The driver may refuse to prepare a jpeg picture.
WaitSnapshotThread ==
  /\ app = "snap" /\ snap = "none" /\ ~held
  /\ \E f \in Formats :
       /\ cam' = [cam EXCEPT !.mSnapshotFormat = f]
       /\ app' \in {"store"} \cup (IF f = "jpeg" THEN {"idle"} ELSE {})
  /\ UNCHANGED <<heaps, frame, snap, jpeg, held, dropped>>

\* storePreviewFrameForPostview.  When the heap cannot be had takePicture
\* returns, and does not unlock.
StorePostview ==
  /\ app = "store"
  /\ \/ /\ heaps' = heaps \cup {"postview"}
        /\ app' = "copy"
        /\ UNCHANGED held
     \/ /\ "postview" \notin heaps
        /\ app' = "idle" /\ held' = TRUE
        /\ UNCHANGED heaps
  /\ UNCHANGED <<cam, frame, snap, jpeg, dropped>>

\* Whether there is a frame to copy, and a heap to copy it to.
TestPostview ==
  /\ app = "copy"
  /\ app' = IF "postview" \in heaps /\ cam.mLastQueuedFrame # "none"
            THEN "show" ELSE "stop"
  /\ UNCHANGED <<cam, heaps, frame, snap, jpeg, held, dropped>>

CopyPostview ==
  /\ app = "show"
  /\ app' = "stop"
  /\ UNCHANGED <<cam, heaps, frame, snap, jpeg, held, dropped>>

StopForPicture ==
  /\ app = "stop"
  /\ StopPreviewInternal
  /\ app' = IF cam.mSnapshotFormat = "jpeg" THEN "pmem" ELSE "init"
  /\ UNCHANGED <<heaps, frame, snap, jpeg, held, dropped>>

\* The preview heap is not waited for.
WaitPmem_not ==
  /\ app = "pmem"
  /\ app' = "init"
  /\ UNCHANGED <<cam, heaps, frame, snap, jpeg, held, dropped>>

\* initRaw waits until the frame thread has freed the preview heap.
WaitPmem ==
  /\ app = "pmem" /\ cam.mPrevHeapDeallocRunning
  /\ app' = "init"
  /\ UNCHANGED <<cam, heaps, frame, snap, jpeg, held, dropped>>

\* initRaw; initRawSnapshot; all heaps of the picture, or none.
JpegHeaps == {"raw", "jpeg", "thumbnail"}
RawHeaps == {"rawsnap"}
PictureHeaps(f) == IF f = "jpeg" THEN JpegHeaps ELSE RawHeaps

InitRaw ==
  /\ app = "init"
  /\ \/ /\ heaps' = heaps \cup PictureHeaps(cam.mSnapshotFormat)
        /\ app' = "thread"
     \/ \E lost \in SUBSET (PictureHeaps(cam.mSnapshotFormat) \cap {"thumbnail"}) :
          \* the old thumbnail is freed last, before the new one is tried
          /\ heaps' = (heaps \ {"raw", "jpeg", "rawsnap"}) \ lost
          /\ app' = "idle"
  /\ UNCHANGED <<cam, frame, snap, jpeg, held, dropped>>

StartSnapshotThread ==
  /\ app = "thread"
  /\ cam' = [cam EXCEPT !.mSnapshotCancel = FALSE]
  /\ snap' \in {"begin", "none"}
  /\ app' = "setmode"
  /\ dropped' = FALSE
  /\ UNCHANGED <<heaps, frame, jpeg, held>>

\* Only now; the thread may be anywhere, or gone.
SetSnapshotMode ==
  /\ app = "setmode"
  /\ cam' = [cam EXCEPT !.mInSnapshotMode = TRUE]
  /\ app' = "idle"
  /\ UNCHANGED <<heaps, frame, snap, jpeg, held, dropped>>

-----------------------------------------------------------------------------
(* The frame thread.                                                        *)

\* LINK_cam_frame calls receivePreviewFrame; mCameraRunning is read without
\* a lock, and a frame of a camera that has been stopped is ignored.
FrameArrives ==
  /\ frame = "wait" /\ cam.mCameraRunning
  /\ frame' = "callback"
  /\ UNCHANGED <<cam, heaps, app, snap, jpeg, held, dropped>>

\* The callbacks are read under mCallbackLock, the overlay is fed under
\* mOverlayLock; the first frame frees the heaps of the picture before.
FeedOverlay ==
  /\ frame = "callback" /\ MCallbackLockFree
  /\ IF cam.mOverlay
     THEN LET last == cam.mFirstFrame /\ snap = "none"
          IN /\ heaps' = IF last THEN heaps \ {"thumbnail", "display", "postview"}
                         ELSE heaps
             /\ cam' = [cam EXCEPT !.mFirstFrame = @ /\ ~last,
                                   !.mLastQueuedFrame = "queued"]
     ELSE UNCHANGED <<heaps, cam>>
  /\ frame' = "app"
  /\ UNCHANGED <<app, snap, jpeg, held, dropped>>

PreviewCallback ==
  /\ frame = "app"
  /\ frame' = "wait"
  /\ UNCHANGED <<cam, heaps, app, snap, jpeg, held, dropped>>

FrameThreadEnds ==
  /\ frame = "wait" /\ cam.terminated
  /\ frame' = "clear"
  /\ UNCHANGED <<cam, heaps, app, snap, jpeg, held, dropped>>

\* The frame thread forgets to say that the heap is free.
ClearPreviewHeap_silent ==
  /\ frame = "clear"
  /\ heaps' = heaps \ {"preview"}
  /\ cam' = [cam EXCEPT !.mLastQueuedFrame = Freed(@)]
  /\ frame' = "flag"
  /\ UNCHANGED <<app, snap, jpeg, held, dropped>>

ClearPreviewHeap ==
  /\ frame = "clear"
  /\ heaps' = heaps \ {"preview"}
  /\ cam' = [cam EXCEPT !.mPrevHeapDeallocRunning = TRUE,
                        !.mLastQueuedFrame = Freed(@)]
  /\ frame' = "flag"
  /\ UNCHANGED <<app, snap, jpeg, held, dropped>>

FrameThreadGone ==
  /\ frame = "flag"
  /\ frame' = "none"
  /\ UNCHANGED <<cam, heaps, app, snap, jpeg, held, dropped>>

-----------------------------------------------------------------------------
(* The snapshot thread.                                                     *)

\* A picture cancelled before the thread looks is not taken.
SnapshotCancelled ==
  /\ snap = "begin" /\ cam.mSnapshotCancel
  /\ DeinitRaw
  /\ cam' = [cam EXCEPT !.mSnapshotCancel = FALSE, !.mInSnapshotMode = FALSE]
  /\ snap' = "end"
  /\ UNCHANGED <<app, frame, jpeg, held, dropped>>

SnapshotOps ==
  /\ snap = "begin" /\ ~cam.mSnapshotCancel
  /\ snap' \in {"receive", "failed"}
  /\ UNCHANGED <<cam, heaps, app, frame, jpeg, held, dropped>>

\* notifyShutter makes the thumbnail heap the one on display: the shutter sound
\* has been played, mShutterPending is set since takePicture, and so is the
\* message, which camera_disable_msg_type leaves enabled.
NotifyShutter ==
  heaps' = IF "thumbnail" \in heaps THEN heaps \cup {"display"} ELSE heaps \ {"display"}

\* receiveRawPicture: the driver has no picture, or has one.
ReceiveRawPicture ==
  /\ snap = "receive" /\ cam.mSnapshotFormat = "jpeg" /\ MCallbackLockFree
  /\ \/ snap' = "failed" /\ UNCHANGED heaps
     \/ snap' = "overlay" /\ NotifyShutter
  /\ UNCHANGED <<cam, app, frame, jpeg, held, dropped>>

\* receiveRawSnapshot: the raw data goes to the application in one step.
ReceiveRawSnapshot ==
  /\ snap = "receive" /\ cam.mSnapshotFormat = "raw" /\ MCallbackLockFree
  /\ \/ snap' = "failed" /\ UNCHANGED heaps
     \/ snap' = "taken" /\ heaps' = heaps \ {"rawsnap"}
  /\ UNCHANGED <<cam, app, frame, jpeg, held, dropped>>

ShowPicture ==
  /\ snap = "overlay"
  /\ snap' = "raw_cb"
  /\ UNCHANGED <<cam, heaps, app, frame, jpeg, held, dropped>>

\* wrap_data_callback answers CAMERA_MSG_RAW_IMAGE with disableMsgType, which
\* takes mLock.
RawCallback ==
  /\ snap = "raw_cb" /\ MLockFree
  /\ snap' = "encode"
  /\ UNCHANGED <<cam, heaps, app, frame, jpeg, held, dropped>>

EncoderStarts ==
  /\ snap = "encode"
  /\ cam' = [cam EXCEPT !.mJpegThreadRunning = TRUE]
  /\ jpeg' = "encoding" /\ snap' = "taken"
  /\ UNCHANGED <<heaps, app, frame, held, dropped>>

\* The encoder cannot be initialised; or it cannot encode, and
\* mJpegThreadRunning stays set.
EncodeFails ==
  /\ snap = "encode"
  /\ cam' \in {cam, [cam EXCEPT !.mJpegThreadRunning = TRUE]}
  /\ DeinitRaw /\ snap' = "failed"
  /\ UNCHANGED <<app, frame, jpeg, held, dropped>>

LeaveSnapshotMode ==
  /\ snap \in {"taken", "failed"}
  /\ cam' = [cam EXCEPT !.mInSnapshotMode = FALSE]
  /\ snap' = IF snap = "taken" THEN "jpeg" ELSE "deinit"
  /\ UNCHANGED <<heaps, app, frame, jpeg, held, dropped>>

WaitJpegThread ==
  /\ snap = "jpeg" /\ ~cam.mJpegThreadRunning
  /\ snap' = "join"
  /\ UNCHANGED <<cam, heaps, app, frame, jpeg, held, dropped>>

JoinEncoder ==
  /\ snap = "join" /\ jpeg = "none"
  /\ snap' = "deinit"
  /\ UNCHANGED <<cam, heaps, app, frame, jpeg, held, dropped>>

EndPicture ==
  /\ snap = "deinit"
  /\ DeinitRaw
  /\ snap' = "end"
  /\ UNCHANGED <<cam, app, frame, jpeg, held, dropped>>

SnapshotThreadGone ==
  /\ snap = "end" /\ ~held
  /\ app \notin {"store", "copy", "show", "stop", "pmem", "init", "thread"}
  /\ snap' = "none"
  /\ UNCHANGED <<cam, heaps, app, frame, jpeg, held, dropped>>

-----------------------------------------------------------------------------
(* The encoder.                                                             *)

\* Fragments go to the jpeg heap; then receiveJpegPicture, or the encoder ends
\* with another event, which receive_jpeg_callback does not pass on.
EncoderDone ==
  /\ jpeg = "encoding"
  /\ \/ jpeg' = "deliver" /\ MCallbackLockFree
     \/ jpeg' = "none"
  /\ UNCHANGED <<cam, heaps, app, frame, snap, held, dropped>>

\* The answer to the jpeg callback takes mLock, as that to the raw one does.
ReceiveJpegPicture_locked ==
  /\ jpeg = "deliver" /\ MLockFree
  /\ cam' = [cam EXCEPT !.mJpegThreadRunning = FALSE]
  /\ jpeg' = "none"
  /\ UNCHANGED <<heaps, app, frame, snap, held, dropped>>

ReceiveJpegPicture ==
  /\ jpeg = "deliver"
  /\ cam' = [cam EXCEPT !.mJpegThreadRunning = FALSE]
  /\ jpeg' = "none"
  /\ UNCHANGED <<heaps, app, frame, snap, held, dropped>>

-----------------------------------------------------------------------------
(* release, close, and the next open.                                       *)

Release ==
  /\ "release" \in Calls /\ app = "idle"
  /\ IF cam.mCameraRunning THEN StopPreviewInternal ELSE UNCHANGED cam
  /\ app' = "join"
  /\ UNCHANGED <<heaps, frame, snap, jpeg, held, dropped>>

ReleaseJoin ==
  /\ app = "join" /\ jpeg = "none"
  /\ app' = "unjpeg"
  /\ UNCHANGED <<cam, heaps, frame, snap, jpeg, held, dropped>>

ReleaseSnapshot ==
  /\ app = "unjpeg"
  /\ cam' = [cam EXCEPT !.mJpegThreadRunning = FALSE]
  /\ app' = "waitsnap"
  /\ UNCHANGED <<heaps, frame, snap, jpeg, held, dropped>>

\* release does not wait for the snapshot thread.
ReleaseWait_not ==
  /\ app = "waitsnap"
  /\ app' = "clear"
  /\ UNCHANGED <<cam, heaps, frame, snap, jpeg, held, dropped>>

ReleaseWait ==
  /\ app = "waitsnap" /\ snap = "none" /\ ~held
  /\ app' = "clear"
  /\ UNCHANGED <<cam, heaps, frame, snap, jpeg, held, dropped>>

ReleaseHeaps ==
  /\ app = "clear"
  /\ heaps' = {}
  /\ cam' = [cam EXCEPT !.mLastQueuedFrame = Freed(@)]
  /\ app' = "released"
  /\ UNCHANGED <<frame, snap, jpeg, held, dropped>>

\* camera_device_close drops its reference; the object goes with the last
\* thread that has one, and only then createInstance makes another.  The
\* pointer to the last frame is static and outlives it.
Reopen ==
  /\ app = "released"
  /\ frame = "none" /\ snap = "none" /\ jpeg = "none"
  /\ cam' = [New EXCEPT !.mLastQueuedFrame = cam.mLastQueuedFrame]
  /\ heaps' = {} /\ app' = "idle" /\ held' = FALSE /\ dropped' = FALSE
  /\ UNCHANGED <<frame, snap, jpeg>>

-----------------------------------------------------------------------------

Call == StartPreview \/ StopPreview \/ CancelPicture \/ SetOverlay \/ StopRecording
          \/ TakePicture \/ Release \/ Reopen

AppStep == RestartPreview \/ WaitFrameThread \/ WaitSnapshotMode \/ InitPreview \/ StartOps
             \/ WaitSnapshotThread \/ StorePostview \/ TestPostview \/ CopyPostview
             \/ StopForPicture \/ WaitPmem \/ InitRaw \/ StartSnapshotThread
             \/ SetSnapshotMode \/ ReleaseJoin \/ ReleaseSnapshot \/ ReleaseWait
             \/ ReleaseHeaps

FrameStep == FeedOverlay \/ PreviewCallback \/ FrameThreadEnds \/ ClearPreviewHeap
               \/ FrameThreadGone

SnapStep == SnapshotCancelled \/ SnapshotOps \/ ReceiveRawPicture \/ ReceiveRawSnapshot
              \/ ShowPicture \/ RawCallback \/ EncoderStarts \/ EncodeFails
              \/ LeaveSnapshotMode
              \/ WaitJpegThread \/ JoinEncoder \/ EndPicture \/ SnapshotThreadGone

JpegStep == EncoderDone \/ ReceiveJpegPicture

Next == Call \/ AppStep \/ FrameArrives \/ FrameStep \/ SnapStep \/ JpegStep

Spec == Init /\ [][Next]_vars

\* Threads run on.  mLock is free between two calls of the service, and the
\* snapshot thread that waits for it is given it sooner or later.
FairSpec ==
  /\ Spec
  /\ WF_vars(AppStep) /\ WF_vars(FrameStep) /\ WF_vars(JpegStep)
  /\ WF_vars(SnapStep) /\ SF_vars(RawCallback)

-----------------------------------------------------------------------------
(* Properties.                                                              *)

\* What the snapshot thread and the encoder are about to read is still there:
\* the heap shown as postview, the raw picture and its thumbnail, the heap the
\* fragments are copied to.  Only stopRecording during a picture breaks it, and
\* only for the jpeg heap.
PictureHeapsKept ==
  /\ snap \in {"overlay", "raw_cb"} => "display" \in heaps
  /\ snap \in {"overlay", "raw_cb", "encode"} => {"raw", "thumbnail"} \subseteq heaps
  /\ snap = "receive" => PictureHeaps(cam.mSnapshotFormat) \subseteq heaps \cup {"jpeg"}
  /\ jpeg # "none" => "jpeg" \in heaps \/ dropped

\* While a frame thread can still deliver a frame the preview heap is that of
\* its preview; only release takes it away from under the thread.
FrameHeapKept ==
  frame \in {"wait", "callback", "app"} => "preview" \in heaps \/ app = "released"

\* release returns only when neither the snapshot thread nor the encoder is
\* left to use what it has freed.
ReleaseQuiet == app = "released" => snap = "none" /\ jpeg = "none"

\* The ways in which this code stops for good.
\* The snapshot thread wants mLock for the raw callback; the call that has it
\* waits for the snapshot thread.
LockCircle == snap = "raw_cb" /\ app \in {"mode", "snap", "waitsnap"}

\* takePicture set the snapshot mode when the thread that resets it was gone.
ModeStuck == app = "mode" /\ cam.mInSnapshotMode /\ snap = "none"

\* The driver did not stop, so the frame thread does not end.
StopFailed == app = "pmem" /\ cam.mCameraRunning

\* Nobody is left to reset mJpegThreadRunning.
JpegLost == snap = "jpeg" /\ cam.mJpegThreadRunning /\ jpeg = "none"

Stuck == LockCircle \/ ModeStuck \/ held \/ StopFailed \/ JpegLost

\* Every call returns, but for these five.
CallsReturn == (app \notin {"idle", "released"}) ~> (app \in {"idle", "released"} \/ Stuck)

\* A picture ends and its thread with it, but for these five.
PictureEnds == (snap # "none") ~> (snap = "none" \/ Stuck)

=============================================================================
