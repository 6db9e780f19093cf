---------------------------- MODULE CameraRecord ----------------------------
(***************************************************************************)
(* Recording with the camera HAL (camerahal/QualcommCameraHardware.cpp     *)
(* under camerahal/cameraHAL.cpp): the record buffers on their way from the *)
(* driver through the busy queue, a video thread and the encoder back to   *)
(* the free queue, while the service starts and stops the preview and the  *)
(* recording, and live snapshots.                                          *)
(*                                                                         *)
(* The target is MSM8660, with VPE.  The driver, and the library's queue of *)
(* free buffers, are external and modelled as the code uses them.          *)
(***************************************************************************)
EXTENDS Naturals, Sequences, FiniteSets, SequencesExt

CONSTANTS
  Buffers,   \* recordframes, but the last, which is VPE's and put in no queue
  Active,    \* those the driver and the frame library start with
  Threads,   \* bound: video threads alive at one time
  GoOn,      \* bound: go on after an overlap of two recordings
  NoBuffer   \* no buffer, or one of a heap that is gone

ASSUME RecordAssumption ==
  GoOn \in BOOLEAN /\ Active \subseteq Buffers /\ IsFiniteSet(Buffers) /\ NoBuffer \notin Buffers

MaxCopies == 2   \* bound: how often one buffer is counted in the free queue

VARIABLES
  cam,      \* the flags, see Cam
  app,      \* where the service's call is
  frame,    \* mFrameThreadRunning
  heap,     \* mRecordHeap is not NULL
  driver,   \* the buffers the driver fills
  free,     \* how often a buffer is in the free queue
  busy,     \* g_busy_frame_queue
  flag,     \* record_buffers_tracking_flag
  video,    \* the video threads: where each is, and with which buffer
  live,     \* the live snapshot, see Live
  overlap   \* history: buffers were handed out anew while a video thread lived

vars == <<cam, app, frame, heap, driver, free, busy, flag, video, live, overlap>>
queues == <<driver, free, busy, flag>>

Cam == [mCameraRunning : BOOLEAN, mVideoThreadExit : BOOLEAN,
        mVideoThreadRunning : BOOLEAN, recordingState : BOOLEAN,
        videoMsg : BOOLEAN,     \* CAMERA_MSG_VIDEO_FRAME is enabled
        previewMsg : BOOLEAN]   \* CAMERA_MSG_PREVIEW_FRAME is enabled

Live == [state : {"DONE", "IN_PROGRESS", "STOPPED"}, \* liveshot_state
         heap : BOOLEAN,      \* mJpegHeap is not NULL
         shot : BOOLEAN,      \* the driver has been given the heap
         cut : BOOLEAN]       \* history: a recording was stopped since

None == [at |-> "none", buf |-> NoBuffer]

Init ==
  /\ cam = [mCameraRunning |-> FALSE, mVideoThreadExit |-> FALSE,
            mVideoThreadRunning |-> FALSE, recordingState |-> FALSE,
            videoMsg |-> FALSE, previewMsg |-> FALSE]
  /\ app = "idle" /\ frame = FALSE /\ heap = FALSE
  /\ driver = {} /\ free = [b \in Buffers |-> 0] /\ busy = <<>>
  /\ flag = [b \in Buffers |-> FALSE]
  /\ video = [t \in Threads |-> None]
  /\ live = [state |-> "DONE", heap |-> FALSE, shot |-> FALSE, cut |-> FALSE]
  /\ overlap = FALSE

-----------------------------------------------------------------------------
(* The queues.                                                              *)

Freed(f, bs) == [b \in Buffers |-> IF b \in bs /\ f[b] < MaxCopies THEN f[b] + 1 ELSE f[b]]

Emptied == [b \in Buffers |-> 0]

Alive == {t \in Threads : video[t].at # "none"}
Waiting == {t \in Threads : video[t].at = "wait"}

\* pthread_cond_signal: one of those that wait, if any does.
Signal ==
  IF Waiting = {} THEN UNCHANGED video
  ELSE \E t \in Waiting : video' = [video EXCEPT ![t].at = "woken"]

\* The frame library posts a filled buffer, whether the preview is still to run
\* or not, and gives the driver a free one.  startRecording takes buffers from the
\* queue without its lock: one that is posted meanwhile may be lost.
Post ==
  /\ cam.recordingState /\ frame
  /\ \E b \in driver :
       /\ \/ \E f \in {x \in Buffers : free[x] > 0} :
               driver' = (driver \ {b}) \cup {f} /\ free' = [free EXCEPT ![f] = @ - 1]
          \/ ~cam.mCameraRunning /\ driver' = driver \ {b} /\ UNCHANGED free
       /\ \/ busy' = Append(busy, b)
          \/ app = "drain" /\ UNCHANGED busy
  /\ Signal
  /\ UNCHANGED <<cam, app, frame, heap, flag, live, overlap>>

-----------------------------------------------------------------------------
(* Preview, as far as recording goes.                                       *)

\* initPreview waits for the old frame thread.
InitPreview(next) ==
  /\ ~cam.mCameraRunning /\ ~frame
  /\ app' = next

StartPreview ==
  /\ app \in {"idle", "restart"}
  /\ InitPreview("init")
  /\ UNCHANGED <<cam, frame, heap, queues, video, live, overlap>>

\* initRecord makes new buffers, none of them tracked, and flushes the busy queue.
\* A buffer that is with the encoder is one of the old heap.  The driver may
\* refuse the size (setDIS), and the memory may not be had.
NewHeap ==
  /\ app \in {"init", "initrec"}
  /\ \/ /\ heap' = TRUE /\ busy' = <<>>
        /\ flag' = [b \in Buffers |-> FALSE]
        /\ video' = [t \in Threads |-> IF video[t].at = "rcb"
                                       THEN [video[t] EXCEPT !.buf = NoBuffer] ELSE video[t]]
        /\ overlap' = (overlap \/ Alive # {})
        /\ app' = IF app = "init" THEN "fill" ELSE "fillrec"
     \/ /\ heap' \in {heap, FALSE} /\ app' = "idle"
        /\ UNCHANGED <<busy, flag, video, overlap>>
  /\ UNCHANGED <<cam, frame, driver, free, live>>

FillFree_keeps ==
  /\ app \in {"fill", "fillrec"} /\ ~cam.mVideoThreadRunning
  /\ free' = Freed(free, Buffers \ Active)
  /\ \E thread, started, vpe \in BOOLEAN :
       /\ started => thread
       /\ vpe => started /\ app = "fillrec"
       /\ frame' = thread
       /\ driver' = IF started THEN Active ELSE {}
       /\ cam' = [cam EXCEPT !.mCameraRunning = started, !.recordingState = @ \/ vpe]
       /\ app' = IF vpe THEN "drain" ELSE "idle"
  /\ UNCHANGED <<heap, busy, flag, video, live, overlap>>

\* The rest of initRecord waits for a video thread and fills the emptied free
\* queue.  Then the frame thread and the driver are started; a driver that does
\* not start ends the frame thread again.  A recording goes on when the driver
\* takes the rotation (setVpeParameters).
FillFree ==
  /\ app \in {"fill", "fillrec"} /\ ~cam.mVideoThreadRunning
  /\ free' = Freed(Emptied, Buffers \ Active)
  /\ \E thread, started, vpe \in BOOLEAN :
       /\ started => thread
       /\ vpe => started /\ app = "fillrec"
       /\ frame' = thread
       /\ driver' = IF started THEN Active ELSE {}
       /\ cam' = [cam EXCEPT !.mCameraRunning = started, !.recordingState = @ \/ vpe]
       /\ app' = IF vpe THEN "drain" ELSE "idle"
  /\ UNCHANGED <<heap, busy, flag, video, live, overlap>>

StopPreview_runs ==
  /\ app = "idle" /\ cam.mCameraRunning /\ ~cam.videoMsg
  /\ cam' = [cam EXCEPT !.mCameraRunning = FALSE]
  /\ Signal
  /\ busy' = <<>> /\ free' = Emptied
  /\ UNCHANGED <<app, frame, heap, driver, flag, live, overlap>>

\* stopPreview does nothing while video messages are enabled or if the driver does
\* not stop; else the video thread is told to exit and the queues are flushed.
\* The frame thread may still have frames the driver has filled.
StopPreview ==
  /\ app = "idle" /\ cam.mCameraRunning /\ ~cam.videoMsg
  /\ cam' = [cam EXCEPT !.mCameraRunning = FALSE, !.mVideoThreadExit = TRUE]
  /\ Signal
  /\ busy' = <<>> /\ free' = Emptied
  /\ UNCHANGED <<app, frame, heap, driver, flag, live, overlap>>

\* The frame thread clears mRecordHeap when it ends, and says so after that.
FrameThreadEnds ==
  /\ frame /\ ~cam.mCameraRunning
  /\ heap' = FALSE /\ frame' = FALSE
  /\ UNCHANGED <<cam, app, queues, video, live, overlap>>

PreviewMsg ==
  /\ app = "idle"
  /\ cam' = [cam EXCEPT !.previewMsg = ~@]
  /\ UNCHANGED <<app, frame, heap, queues, video, live, overlap>>

-----------------------------------------------------------------------------
(* Recording.                                                               *)

\* The service enables the messages, then calls; it does not call while it
\* records.  A preview that runs is recorded if the driver takes the rotation.
StartRecording ==
  /\ app = "idle" /\ ~cam.videoMsg
  /\ \/ /\ cam.mCameraRunning
        /\ \E vpe \in BOOLEAN :
             /\ cam' = [cam EXCEPT !.videoMsg = TRUE, !.recordingState = @ \/ vpe]
             /\ app' = IF vpe THEN "drain" ELSE "idle"
     \/ InitPreview("initrec") /\ cam' = [cam EXCEPT !.videoMsg = TRUE]
  /\ UNCHANGED <<frame, heap, queues, video, live, overlap>>

\* "Remove the left out frames in busy Q and them in free Q."
Drain ==
  /\ app = "drain"
  /\ \/ /\ busy # <<>>
        /\ free' = Freed(free, {Head(busy)}) /\ busy' = Tail(busy)
        /\ UNCHANGED app
     \/ busy = <<>> /\ app' = "dangling" /\ UNCHANGED <<free, busy>>
  /\ UNCHANGED <<cam, frame, heap, driver, flag, video, live, overlap>>

\* "Clear the dangling buffers and put them in free queue."
Dangling ==
  /\ app = "dangling"
  /\ free' = Freed(free, {b \in Buffers : flag[b]})
  /\ flag' = [b \in Buffers |-> FALSE]
  /\ overlap' = (overlap \/ Alive # {})
  /\ app' = "thread"
  /\ UNCHANGED <<cam, frame, heap, driver, busy, video, live>>

\* pthread_create returns 0 when it has made a thread, and the flag is set to
\* what it returns.
StartVideoThread ==
  /\ app = "thread"
  /\ \/ \E t \in Threads \ Alive :
          /\ video' = [video EXCEPT ![t] = [at |-> "check", buf |-> NoBuffer]]
          /\ cam' = [cam EXCEPT !.mVideoThreadExit = FALSE, !.mVideoThreadRunning = FALSE]
     \/ /\ cam' = [cam EXCEPT !.mVideoThreadExit = FALSE, !.mVideoThreadRunning = TRUE]
        /\ UNCHANGED video
  /\ app' = "idle"
  /\ UNCHANGED <<frame, heap, queues, live, overlap>>

\* camera_stop_recording starts the preview if it does not run.
Back == app' = IF cam.mCameraRunning THEN "idle" ELSE "restart"

\* With preview messages enabled stopRecording is over at once.
StopRecording ==
  /\ app = "idle" /\ cam.videoMsg
  /\ IF cam.previewMsg
     THEN cam' = [cam EXCEPT !.videoMsg = FALSE] /\ Back
     ELSE cam' = [cam EXCEPT !.videoMsg = FALSE, !.mVideoThreadExit = TRUE] /\ app' = "signal"
  /\ UNCHANGED <<frame, heap, queues, video, live, overlap>>

StopSignal_none ==
  /\ app = "signal"
  /\ live' = [live EXCEPT !.heap = FALSE, !.cut = live.shot]
  /\ cam' = [cam EXCEPT !.recordingState = FALSE]
  /\ Back
  /\ UNCHANGED <<frame, heap, queues, video, overlap>>

StopSignal ==
  /\ app = "signal"
  /\ Signal
  /\ live' = [live EXCEPT !.heap = FALSE, !.cut = live.shot]
  /\ cam' = [cam EXCEPT !.recordingState = FALSE]
  /\ Back
  /\ UNCHANGED <<frame, heap, queues, overlap>>

-----------------------------------------------------------------------------
(* A video thread.                                                          *)

\* What it finds when it holds the queue's lock and is not told to exit.
Take(t) ==
  IF busy = <<>> THEN video' = [video EXCEPT ![t].at = "check"] /\ UNCHANGED busy
  ELSE /\ video' = [video EXCEPT ![t] = [at |-> "got", buf |-> Head(busy)]]
       /\ busy' = Tail(busy)

Exit(t) ==
  /\ video[t].at \in {"check", "woken"} /\ cam.mVideoThreadExit
  /\ video' = [video EXCEPT ![t] = None]
  /\ cam' = [cam EXCEPT !.mVideoThreadRunning = FALSE]
  /\ UNCHANGED <<app, frame, heap, queues, live, overlap>>

Check(t) ==
  /\ video[t].at = "check" /\ ~cam.mVideoThreadExit
  /\ IF busy = <<>>
     THEN video' = [video EXCEPT ![t].at = "wait"] /\ UNCHANGED busy
     ELSE Take(t)
  /\ UNCHANGED <<cam, app, frame, heap, driver, free, flag, live, overlap>>

Woken(t) ==
  /\ video[t].at = "woken" /\ ~cam.mVideoThreadExit
  /\ Take(t)
  /\ UNCHANGED <<cam, app, frame, heap, driver, free, flag, live, overlap>>

\* A wait may end without a signal.
WakesUp(t) ==
  /\ video[t].at = "wait"
  /\ video' = [video EXCEPT ![t].at = "woken"]
  /\ UNCHANGED <<cam, app, frame, heap, queues, live, overlap>>

\* The buffer is tracked, and given to the encoder if that wants it.
Deliver(t) ==
  /\ video[t].at = "got"
  /\ flag' = [flag EXCEPT ![video[t].buf] = TRUE]
  /\ video' = IF cam.videoMsg THEN [video EXCEPT ![t].at = "rcb"]
              ELSE [video EXCEPT ![t] = [at |-> "check", buf |-> NoBuffer]]
  /\ UNCHANGED <<cam, app, frame, heap, driver, free, busy, live, overlap>>

Release_tracked(t) ==
  /\ video[t].at = "rcb"
  /\ LET b == video[t].buf
     IN IF b \in Buffers /\ frame
        THEN free' = Freed(free, {b}) /\ UNCHANGED flag
        ELSE UNCHANGED <<flag, free>>
  /\ video' = [video EXCEPT ![t] = [at |-> "check", buf |-> NoBuffer]]
  /\ UNCHANGED <<cam, app, frame, heap, driver, busy, live, overlap>>

\* wrap_data_callback_timestamp gives the buffer back when the callback has
\* returned: found by its address, and only with a frame thread.
Release(t) ==
  /\ video[t].at = "rcb"
  /\ LET b == video[t].buf
     IN IF b \in Buffers /\ frame
        THEN flag' = [flag EXCEPT ![b] = FALSE] /\ free' = Freed(free, {b})
        ELSE UNCHANGED <<flag, free>>
  /\ video' = [video EXCEPT ![t] = [at |-> "check", buf |-> NoBuffer]]
  /\ UNCHANGED <<cam, app, frame, heap, driver, busy, live, overlap>>

-----------------------------------------------------------------------------
(* Live snapshots.                                                          *)

Shoot ==
  \/ live' = [live EXCEPT !.state = "STOPPED", !.heap = FALSE]
  \/ live' = [live EXCEPT !.state = "IN_PROGRESS", !.heap = FALSE]
  \/ live' = [live EXCEPT !.state = "IN_PROGRESS", !.heap = TRUE, !.shot = TRUE, !.cut = FALSE]

\* No memory, or the driver does not start: STOPPED.  When the parameters are
\* refused the state is left as it is.
TakeLiveSnapshot ==
  /\ app = "idle" /\ live.state # "IN_PROGRESS" /\ cam.recordingState
  /\ Shoot
  /\ UNCHANGED <<cam, app, frame, heap, queues, video, overlap>>

ReceiveLiveSnapshot ==
  /\ live.shot
  /\ live' = [state |-> "DONE", heap |-> FALSE, shot |-> FALSE, cut |-> FALSE]
  /\ UNCHANGED <<cam, app, frame, heap, queues, video, overlap>>

-----------------------------------------------------------------------------

Restart == app = "restart" /\ StartPreview

AppStep == Restart \/ NewHeap \/ FillFree \/ Drain \/ Dangling \/ StartVideoThread \/ StopSignal

Call == StartPreview \/ StopPreview \/ PreviewMsg \/ StartRecording \/ StopRecording
          \/ TakeLiveSnapshot

VideoStep(t) == Exit(t) \/ Check(t) \/ Woken(t) \/ Deliver(t) \/ Release(t)

Next ==
  /\ overlap => GoOn
  /\ \/ Call \/ AppStep \/ Post \/ FrameThreadEnds \/ ReceiveLiveSnapshot
     \/ \E t \in Threads : VideoStep(t) \/ WakesUp(t)

Spec == Init /\ [][Next]_vars

\* Threads run on; the service's calls and the driver's frames come or do not.
FairSpec ==
  /\ Spec /\ WF_vars(AppStep) /\ WF_vars(FrameThreadEnds)
  /\ \A t \in Threads : WF_vars(VideoStep(t))

-----------------------------------------------------------------------------
(* Properties.                                                              *)

Holders(b) == {t \in Threads : video[t].buf = b}
Places(b) ==
  (IF b \in driver THEN 1 ELSE 0) + free[b] + Cardinality({i \in DOMAIN busy : busy[i] = b})
    + Cardinality(Holders(b))

\* No buffer is in two places: what the encoder reads the driver does not
\* fill, and nothing is in a queue twice.  It takes a recording that starts
\* while the video thread of the one before still lives to break this.
OnePlace == ~overlap => \A b \in Buffers : Places(b) <= 1

\* A tracked buffer is in no queue and not with the driver: freeing what is
\* tracked when a recording starts frees nothing twice.
Tracked ==
  ~overlap => \A b \in Buffers :
    flag[b] => b \notin driver /\ free[b] = 0 /\ b \notin ToSet(busy)

\* What is about to be used has its heap: a video thread that has a frame
\* finds the one the frame is in, unless it has been told to exit, and the
\* driver that makes a live snapshot the one it was given, unless the recording
\* was stopped.
RecordHeapKept ==
  /\ (\E t \in Threads : video[t].at = "got") => heap \/ cam.mVideoThreadExit
  /\ live.shot => live.heap \/ live.cut

\* A video thread that has been told to exit ends, or a recording is started
\* first, or lived on beside the next.
VideoThreadEnds ==
  (cam.mVideoThreadExit /\ app = "idle" /\ Alive # {})
    ~> (Alive = {} \/ ~cam.mVideoThreadExit \/ overlap)

=============================================================================
