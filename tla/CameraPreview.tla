---------------------------- MODULE CameraPreview ----------------------------
(***************************************************************************)
(* Preview frames on their way to the screen: the preview heap and the     *)
(* buffers the driver has of it (camerahal/QualcommCameraHardware.cpp), and *)
(* the "overlay" of camerahal/cameraHAL.cpp that copies each frame into a  *)
(* gralloc buffer of the window the service has set.                       *)
(*                                                                         *)
(* Windows, gralloc and the frame library are external.  The service makes *)
(* one call at a time, changes the preview size only while the preview is  *)
(* stopped, sets the window right before it starts the preview whatever    *)
(* came of it, and unsets it before it closes the device.                  *)
(*                                                                         *)
(* Two more steps call the hook, for the first frame of the heap, and are  *)
(* left out.  takePicture's is a call of the service itself, during which  *)
(* neither window nor size can change.  The snapshot thread's comes when   *)
(* initRaw has waited for the preview heap to be gone and before a new     *)
(* preview may start, so the hook finds no heap and gives up.              *)
(***************************************************************************)
EXTENDS Naturals, FiniteSets

CONSTANTS
  Windows,   \* preview_stream_ops
  Sizes,     \* preview sizes, by the bytes of a frame
  Buffers,   \* the kPreviewBufferCount buffers of a heap
  Null       \* no window

ASSUME PreviewAssumption ==
  /\ Sizes \subseteq Nat \ {0} /\ Sizes # {} /\ Null \notin Windows /\ IsFiniteSet(Buffers)

VARIABLES
  dev,        \* priv_camera_device_t, see Dev
  geometry,   \* of the buffers of each window
  param,      \* the preview size in mParameters
  overlaySet, \* mOverlay is not NULL
  heap,       \* mPreviewHeap, see Heap
  registered, \* the buffers of the newest heap the driver knows
  running,    \* mCameraRunning
  app,        \* where the service's call is, and with which window
  frame,      \* the frame thread, see Frame
  failed      \* history: the last set_preview_window returned an error

vars == <<dev, geometry, param, overlaySet, heap, registered, running, app, frame, failed>>

Dev == [open : BOOLEAN, window : Windows \cup {Null}, size : Sizes \cup {0},
        overlay : BOOLEAN]   \* overlay is not NULL

\* Which heap it is, one or the next, and the size of its frames.
Heap == [live : BOOLEAN, gen : {0, 1}, size : Sizes \cup {0}]

NoFrame == [at |-> "none", gen |-> 0, window |-> Null, size |-> 0, room |-> 0, heap |-> 0,
            terminate |-> FALSE]

NewDev == [open |-> TRUE, window |-> Null, size |-> 0, overlay |-> FALSE]
Idle == [at |-> "idle", next |-> "idle"]

Init ==
  /\ dev = NewDev /\ geometry = [w \in Windows |-> 0] /\ param \in Sizes
  /\ overlaySet = FALSE /\ heap = [live |-> FALSE, gen |-> 0, size |-> 0]
  /\ registered = {} /\ running = FALSE
  /\ app = Idle /\ frame = NoFrame /\ failed = FALSE

\* mOverlayLock, which the frame thread holds through the hook.
OverlayFree == frame.at \notin {"hook", "dequeue", "copy"}

Goes(from, to) == app.at = from /\ app' = [app EXCEPT !.at = to]
Returns(from) == app.at = from /\ app' = [app EXCEPT !.at = app.next, !.next = "idle"]

-----------------------------------------------------------------------------
(* camera_set_preview_window and what the service does around it.           *)

SetSize(s) ==
  /\ app = Idle /\ dev.open /\ ~running /\ param' = s
  /\ UNCHANGED <<dev, geometry, overlaySet, heap, registered, running, app, frame, failed>>

\* dev->window changes with no lock; then comes the rest, and next.
SetWindow(w, next) ==
  /\ app = Idle /\ dev.open /\ (next = "idle" => running)
  /\ dev' = [dev EXCEPT !.window = w]
  /\ app' = [at |-> IF w = Null THEN "unset" ELSE "geometry", next |-> next]
  /\ UNCHANGED <<geometry, param, overlaySet, heap, registered, running, frame, failed>>

\* get_min_undequeued_buffer_count, set_buffer_count or set_buffers_geometry.
WindowFails ==
  /\ Returns("geometry") /\ failed' = TRUE
  /\ UNCHANGED <<dev, geometry, param, overlaySet, heap, registered, running, frame>>

SetGeometry ==
  /\ Goes("geometry", "size") /\ geometry' = [geometry EXCEPT ![dev.window] = param]
  /\ UNCHANGED <<dev, param, overlaySet, heap, registered, running, frame, failed>>

SetDevSize ==
  /\ Goes("size", "overlay") /\ dev' = [dev EXCEPT !.size = param, !.overlay = TRUE]
  /\ UNCHANGED <<geometry, param, overlaySet, heap, registered, running, frame, failed>>

\* The overlay is exchanged without its lock.
SetOverlay_unlocked ==
  /\ Returns("overlay") \/ Returns("unset")
  /\ overlaySet' = (app.at = "overlay") /\ failed' = FALSE
  /\ UNCHANGED <<dev, geometry, param, heap, registered, running, frame>>

SetOverlay ==
  /\ OverlayFree
  /\ Returns("overlay") \/ Returns("unset")
  /\ overlaySet' = (app.at = "overlay") /\ failed' = FALSE
  /\ UNCHANGED <<dev, geometry, param, heap, registered, running, frame>>

\* The device is freed when the window is unset and the preview has stopped;
\* it is opened anew when the frame thread has let go of the old camera.
Close ==
  /\ app = Idle /\ dev.open /\ dev.window = Null /\ ~failed /\ ~running
  /\ dev' = [NewDev EXCEPT !.open = FALSE]
  /\ UNCHANGED <<geometry, param, overlaySet, heap, registered, running, app, frame, failed>>

Reopen ==
  /\ app = Idle /\ ~dev.open /\ frame.at = "none"
  /\ dev' = NewDev /\ overlaySet' = FALSE
  /\ UNCHANGED <<geometry, param, heap, registered, running, app, frame, failed>>

-----------------------------------------------------------------------------
(* The preview heap, startPreview and stopPreview.                          *)

\* The driver registers each buffer, or does not, which nobody looks at.
PmemPool ==
  /\ registered' \in SUBSET Buffers
  /\ heap' = [live |-> TRUE, gen |-> 1 - heap.gen, size |-> param]

\* The destructor; a buffer that is not registered is no matter.
PoolGone == registered' = {} /\ heap' = [heap EXCEPT !.live = FALSE]

AlreadyRunning ==
  /\ running /\ Returns("start")
  /\ UNCHANGED <<dev, geometry, param, overlaySet, heap, registered, running, frame, failed>>

\* initPreview waits for the old frame thread, has a new heap and starts a new
\* frame thread.
InitPreview ==
  /\ ~running /\ frame.at = "none" /\ Goes("start", "ops") /\ PmemPool
  /\ frame' = [NoFrame EXCEPT !.at = "wait"]
  /\ UNCHANGED <<dev, geometry, param, overlaySet, running, failed>>

\* No memory for the heap; or a heap, but the driver does not take the
\* dimensions, there are no record buffers, or no thread.
InitPreviewFails ==
  /\ ~running /\ frame.at = "none" /\ Returns("start")
  /\ PmemPool \/ PoolGone
  /\ UNCHANGED <<dev, geometry, param, overlaySet, running, frame, failed>>

\* native_start_ops.
StartOps ==
  /\ Returns("ops") /\ running' = TRUE
  /\ UNCHANGED <<dev, geometry, param, overlaySet, heap, registered, frame, failed>>

\* deinitPreview; nothing is shown until a window is set again.
StartOpsFails ==
  /\ Goes("ops", "no preview") /\ frame' = [frame EXCEPT !.terminate = TRUE]
  /\ UNCHANGED <<dev, geometry, param, overlaySet, heap, registered, running, failed>>

ClearOverlay ==
  /\ OverlayFree /\ Returns("no preview") /\ overlaySet' = FALSE
  /\ UNCHANGED <<dev, geometry, param, heap, registered, running, frame, failed>>

\* The frame thread is told to end and not waited for.  When the driver does not
\* stop nothing changes.
StopPreview ==
  /\ app = Idle /\ running /\ running' = FALSE
  /\ frame' = [frame EXCEPT !.terminate = TRUE]
  /\ UNCHANGED <<dev, geometry, param, overlaySet, heap, registered, app, failed>>

-----------------------------------------------------------------------------
(* The frame thread: receivePreviewFrame and wrap_queue_buffer_hook.        *)

FrameGoes(to) == frame' = [frame EXCEPT !.at = to]

FrameOnly ==
  UNCHANGED <<dev, geometry, param, overlaySet, heap, registered, running, app, failed>>

\* The library has a filled buffer.
Deliver ==
  /\ frame.at = "wait" /\ running /\ registered # {}
  /\ frame' = [frame EXCEPT !.at = "got", !.gen = heap.gen]
  /\ FrameOnly

\* mCameraRunning is read without its lock.
Check ==
  /\ frame.at = "got" /\ FrameGoes(IF running THEN "checked" ELSE "wait") /\ FrameOnly

\* mOverlayLock.
EnterHook ==
  /\ frame.at = "checked" /\ FrameGoes(IF overlaySet THEN "hook" ELSE "wait") /\ FrameOnly

\* The hook gives up without a window or a heap.
ReadWindow ==
  /\ frame.at = "hook"
  /\ frame' = IF dev.window = Null \/ ~heap.live THEN [frame EXCEPT !.at = "wait"]
              ELSE [frame EXCEPT !.at = "dequeue", !.window = dev.window]
  /\ FrameOnly

\* There is a gralloc buffer of the window's geometry, or none, or it cannot be
\* locked; then the frame is skipped, and a buffer that was dequeued is kept.
Dequeue ==
  /\ frame.at = "dequeue"
  /\ \/ frame' = [frame EXCEPT !.at = "copy", !.size = dev.size, !.heap = heap.size,
                               !.room = geometry[frame.window]]
     \/ FrameGoes("wait")
  /\ FrameOnly

\* memcpy is done and the buffer enqueued, or not; mOverlayLock is given back.
EndCopy == frame.at = "copy" /\ FrameGoes("wait") /\ FrameOnly

\* LINK_cam_frame returns; runFrameThread lets go of the heap.
FrameEnds ==
  /\ frame.at = "wait" /\ frame.terminate /\ frame' = NoFrame /\ PoolGone
  /\ UNCHANGED <<dev, geometry, param, overlaySet, running, app, failed>>

-----------------------------------------------------------------------------

Next ==
  \/ \E s \in Sizes : SetSize(s)
  \/ \E w \in Windows \cup {Null}, next \in {"idle", "start"} : SetWindow(w, next)
  \/ WindowFails \/ SetGeometry \/ SetDevSize \/ SetOverlay \/ Close \/ Reopen
  \/ AlreadyRunning \/ InitPreview \/ InitPreviewFails
  \/ StartOps \/ StartOpsFails \/ ClearOverlay \/ StopPreview
  \/ Deliver \/ Check \/ EnterHook \/ ReadWindow \/ Dequeue \/ EndCopy \/ FrameEnds

Spec == Init /\ [][Next]_vars

-----------------------------------------------------------------------------
(* Properties.                                                              *)

\* The overlay is copied into by a thread that holds only mOverlayLock, while
\* the window, its geometry, the size to copy and the heap to copy from are set
\* by calls that take that lock last or not at all.  Once a set_preview_window
\* has returned, no frame is copied with what it replaced: a copy goes to the
\* window of an open device, into a buffer of the size that is copied; and while
\* the preview runs, it is a frame of the present heap and fits it.  (While the
\* window is being exchanged, or after the exchange has failed, this does not
\* hold.  Nor is the last part true of a preview that has been stopped: a frame
\* that was past the check of mCameraRunning is copied with the size set since,
\* which may be more than the old heap has.)
CopySound ==
  frame.at = "copy" /\ app.at \in {"idle", "start", "ops", "no preview"} /\ ~failed =>
    /\ dev.open /\ frame.window = dev.window /\ frame.room = frame.size
    /\ running => frame.gen = heap.gen /\ heap.live /\ frame.size = heap.size

=============================================================================
