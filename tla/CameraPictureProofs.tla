------------------------ MODULE CameraPictureProofs ------------------------
(***************************************************************************)
(* What the camera's still pictures and its parameters promise.  The first *)
(* part is about CameraStill, for every set of calls and picture formats;   *)
(* the second about CameraParams, for every sensor, every table of sizes,   *)
(* every request and every way the driver may fail.                        *)
(***************************************************************************)
EXTENDS CameraStill, CameraParams, FiniteSetTheorems, TLAPS

(* Still pictures: the inductive invariant.                                 *)

Apps == {"idle", "restart", "frame", "mode", "alloc", "start", "snap", "store", "copy", "show",
         "stop", "pmem", "init", "thread", "setmode", "join", "unjpeg", "waitsnap", "clear",
         "released"}

TypeInv ==
  /\ cam \in Cam /\ heaps \subseteq Heaps
  /\ app \in Apps
  /\ frame \in {"none", "wait", "callback", "app", "clear", "flag"}
  /\ snap \in {"none", "begin", "receive", "overlay", "raw_cb", "encode", "taken", "failed",
               "jpeg", "join", "deinit", "end"}
  /\ jpeg \in {"none", "encoding", "deliver"}
  /\ held \in BOOLEAN /\ dropped \in BOOLEAN

\* Who can be at work at the same time.  A call that prepares a picture, or has
\* waited to release the camera, is alone with its heaps; the encoder works only
\* while its snapshot thread waits for it; a call that starts the preview has seen
\* the old frame thread end, and one that prepares a jpeg picture has seen it give
\* up its heap.
OrderInv ==
  /\ app \in {"store", "copy", "show", "stop", "pmem", "init", "thread", "clear", "released"}
       => snap = "none"
  /\ jpeg # "none" => snap \in {"taken", "jpeg", "join"}
  /\ app \in {"mode", "alloc"} => frame = "none"
  /\ cam.mPrevHeapDeallocRunning => frame \in {"none", "flag"}
  /\ app \in {"init", "thread"} /\ cam.mSnapshotFormat = "jpeg" => frame \in {"none", "flag"}

\* The heap the fragments will go to, unless stopRecording has taken it.
JpegThere == "jpeg" \in heaps \/ dropped

\* What a picture needs later is there from the moment its heaps have been had.
HeapInv ==
  /\ app = "thread" => PictureHeaps(cam.mSnapshotFormat) \subseteq heaps
  /\ snap = "begin" => PictureHeaps(cam.mSnapshotFormat) \subseteq heaps \cup {"jpeg"}
  /\ snap \in {"begin", "receive"} /\ cam.mSnapshotFormat = "jpeg" => JpegThere
  /\ snap \in {"overlay", "raw_cb", "encode"} => JpegThere

IInv == TypeInv /\ OrderInv /\ HeapInv /\ PictureHeapsKept /\ FrameHeapKept

-----------------------------------------------------------------------------
(* Fields and types.                                                        *)

\* The format of the picture is chosen by takePicture, or is that of a new
\* object, and then no picture is under way.  The sign that the preview heap has
\* been given up comes from the frame thread and is taken back by the next preview.
LEMMA FieldsKept ==
  ASSUME cam \in Cam, Next
  PROVE  /\ cam' \in Cam
         /\ \/ cam'.mSnapshotFormat = cam.mSnapshotFormat
            \/ snap = "none" /\ snap' = "none" /\ app' \in {"store", "idle"}
         /\ cam'.mPrevHeapDeallocRunning =>
              \/ frame' = "flag"
              \/ /\ cam.mPrevHeapDeallocRunning
                 /\ frame \in {"none", "flag"} => frame' \in {"none", "flag"}
<1> USE DEF Cam
<1>1. CASE StartPreview
  BY <1>1, StillAssumption DEF StartPreview, StartPreviewInternal
<1>2. CASE StopPreview
  BY <1>2, StillAssumption DEF StopPreview, StopPreviewInternal
<1>3. CASE CancelPicture
  BY <1>3, StillAssumption DEF CancelPicture
<1>4. CASE SetOverlay
  BY <1>4, StillAssumption DEF SetOverlay
<1>5. CASE StopRecording
  BY <1>5, StillAssumption DEF StopRecording
<1>5a. CASE RestartPreview
  BY <1>5a DEF RestartPreview, StartPreviewInternal
<1>6. CASE Release
  <2>1. frame' = frame /\ snap' = snap /\ (StopPreviewInternal \/ cam' = cam)
    BY <1>6 DEF Release
  <2>2. CASE cam' = cam
    BY <2>1, <2>2
  <2>3. CASE StopPreviewInternal
    BY <2>1, <2>3 DEF StopPreviewInternal
  <2> QED
    BY <2>1, <2>2, <2>3
<1>7. CASE Reopen
  BY <1>7, StillAssumption DEF Reopen, New
<1>8. CASE InitPreview
  <2>1. snap' = snap /\ frame' \in {frame, "wait"}
    BY <1>8 DEF InitPreview
  <2> DEFINE q == Freed(cam.mLastQueuedFrame)
  <2>2. \/ cam' = [cam EXCEPT !.mPrevHeapDeallocRunning = FALSE, !.mLastQueuedFrame = q]
        \/ \E first \in BOOLEAN :
             cam' = [cam EXCEPT !.mPrevHeapDeallocRunning = FALSE, !.mFirstFrame = first,
                                !.mLastQueuedFrame = q]
        \/ cam' = [cam EXCEPT !.mPrevHeapDeallocRunning = FALSE, !.mFirstFrame = TRUE,
                              !.terminated = FALSE, !.mLastQueuedFrame = q]
    BY <1>8 DEF InitPreview
  <2>3. q \in {"none", "queued", "freed"}
    BY DEF Freed
  <2> HIDE DEF q
  <2> QED
    BY <2>1, <2>2, <2>3
<1>9. CASE StartOps
  BY <1>9, StillAssumption DEF StartOps
<1>10. CASE WaitSnapshotThread
  BY <1>10, StillAssumption DEF WaitSnapshotThread
<1>11. CASE StopForPicture
  BY <1>11, StillAssumption DEF StopForPicture, StopPreviewInternal
<1>12. CASE StartSnapshotThread
  BY <1>12, StillAssumption DEF StartSnapshotThread
<1>13. CASE SetSnapshotMode
  BY <1>13, StillAssumption DEF SetSnapshotMode
<1>14. CASE ReleaseSnapshot
  BY <1>14, StillAssumption DEF ReleaseSnapshot
<1>15. CASE ReleaseHeaps
  BY <1>15, StillAssumption DEF ReleaseHeaps, Freed
<1>16. CASE FeedOverlay
  <2>1. snap' = snap /\ frame' = "app" /\ frame = "callback"
    BY <1>16 DEF FeedOverlay
  <2>2. \/ cam' = cam
        \/ \E first \in BOOLEAN :
             cam' = [cam EXCEPT !.mFirstFrame = first, !.mLastQueuedFrame = "queued"]
    BY <1>16 DEF FeedOverlay
  <2> QED
    BY <2>1, <2>2
<1>17. CASE ClearPreviewHeap
  BY <1>17, StillAssumption DEF ClearPreviewHeap, Freed
<1>18. CASE SnapshotCancelled
  BY <1>18, StillAssumption DEF SnapshotCancelled, DeinitRaw
<1>19. CASE EncoderStarts
  BY <1>19, StillAssumption DEF EncoderStarts
<1>20. CASE EncodeFails
  BY <1>20, StillAssumption DEF EncodeFails, DeinitRaw
<1>21. CASE LeaveSnapshotMode
  BY <1>21, StillAssumption DEF LeaveSnapshotMode
<1>22. CASE ReceiveJpegPicture
  BY <1>22, StillAssumption DEF ReceiveJpegPicture
<1>23. CASE UNCHANGED <<cam, frame>>
  BY <1>23
<1>24. CASE PreviewCallback \/ FrameThreadEnds \/ FrameThreadGone \/ FrameArrives
  BY <1>24 DEF PreviewCallback, FrameThreadEnds, FrameThreadGone, FrameArrives
<1> QED
  BY <1>1, <1>2, <1>3, <1>4, <1>5, <1>5a, <1>6, <1>7, <1>8, <1>9, <1>10, <1>11, <1>12,
     <1>13, <1>14, <1>15, <1>16, <1>17, <1>18, <1>19, <1>20, <1>21, <1>22, <1>23, <1>24
     DEF Next, Call, AppStep, FrameStep, SnapStep, JpegStep, TakePicture,
         WaitFrameThread, WaitSnapshotMode, StorePostview, TestPostview, CopyPostview,
         WaitPmem, InitRaw, ReleaseJoin, ReleaseWait, SnapshotOps, ReceiveRawPicture,
         ReceiveRawSnapshot, ShowPicture, RawCallback, WaitJpegThread, JoinEncoder,
         EndPicture, SnapshotThreadGone, EncoderDone

LEMMA TypeNext == TypeInv /\ [Next]_vars => TypeInv'
<1> SUFFICES ASSUME TypeInv, Next PROVE TypeInv'
  BY DEF TypeInv, vars
<1> USE DEF TypeInv
<1>1. cam' \in Cam
  BY FieldsKept
<1>2. heaps' \subseteq Heaps
  <2>1. CASE Call
    BY <2>1 DEF Call, StartPreview, StartPreviewInternal, StopPreview, CancelPicture,
                SetOverlay, StopRecording, TakePicture, Release, Reopen, Heaps
  <2>2. CASE AppStep
    BY <2>2 DEF AppStep, RestartPreview, StartPreviewInternal, WaitFrameThread,
                WaitSnapshotMode, InitPreview, StartOps,
                WaitSnapshotThread, StorePostview, TestPostview, CopyPostview,
                StopForPicture, WaitPmem, InitRaw, StartSnapshotThread,
                SetSnapshotMode, ReleaseJoin, ReleaseSnapshot, ReleaseWait,
                ReleaseHeaps, Heaps, PictureHeaps, JpegHeaps, RawHeaps
  <2>3. CASE FrameStep \/ FrameArrives
    BY <2>3 DEF FrameStep, FeedOverlay, PreviewCallback, FrameThreadEnds,
                ClearPreviewHeap, FrameThreadGone, FrameArrives, Heaps
  <2>4. CASE SnapStep
    BY <2>4 DEF SnapStep, SnapshotCancelled, DeinitRaw, SnapshotOps, ReceiveRawPicture,
                NotifyShutter, ReceiveRawSnapshot, ShowPicture, RawCallback,
                EncoderStarts, EncodeFails, LeaveSnapshotMode, WaitJpegThread,
                JoinEncoder, EndPicture, SnapshotThreadGone, Heaps
  <2>5. CASE JpegStep
    BY <2>5 DEF JpegStep, EncoderDone, ReceiveJpegPicture, Heaps
  <2> QED
    BY <2>1, <2>2, <2>3, <2>4, <2>5 DEF Next
<1>3. /\ app' \in Apps
      /\ frame' \in {"none", "wait", "callback", "app", "clear", "flag"}
      /\ snap' \in {"none", "begin", "receive", "overlay", "raw_cb", "encode", "taken",
                    "failed", "jpeg", "join", "deinit", "end"}
      /\ jpeg' \in {"none", "encoding", "deliver"}
      /\ held' \in BOOLEAN /\ dropped' \in BOOLEAN
  <2>1. CASE Call
    BY <2>1 DEF Call, StartPreview, StartPreviewInternal, StopPreview, CancelPicture,
                SetOverlay, StopRecording, TakePicture, Release, Reopen, Apps
  <2>2. CASE AppStep
    BY <2>2 DEF AppStep, RestartPreview, StartPreviewInternal, WaitFrameThread,
                WaitSnapshotMode, InitPreview, StartOps,
                WaitSnapshotThread, StorePostview, TestPostview, CopyPostview,
                StopForPicture, WaitPmem, InitRaw, StartSnapshotThread,
                SetSnapshotMode, ReleaseJoin, ReleaseSnapshot, ReleaseWait,
                ReleaseHeaps, Apps
  <2>3. CASE FrameStep \/ FrameArrives
    BY <2>3 DEF FrameStep, FeedOverlay, PreviewCallback, FrameThreadEnds,
                ClearPreviewHeap, FrameThreadGone, FrameArrives, Apps
  <2>4. CASE SnapStep
    BY <2>4 DEF SnapStep, SnapshotCancelled, SnapshotOps, ReceiveRawPicture,
                ReceiveRawSnapshot, ShowPicture, RawCallback, EncoderStarts,
                EncodeFails, LeaveSnapshotMode, WaitJpegThread, JoinEncoder,
                EndPicture, SnapshotThreadGone, Apps
  <2>5. CASE JpegStep
    BY <2>5 DEF JpegStep, EncoderDone, ReceiveJpegPicture, Apps
  <2> QED
    BY <2>1, <2>2, <2>3, <2>4, <2>5 DEF Next
<1> QED
  BY <1>1, <1>2, <1>3

-----------------------------------------------------------------------------
(* Who is at work at the same time.                                         *)

LEMMA OrderNext == TypeInv /\ OrderInv /\ [Next]_vars => OrderInv'
<1> SUFFICES ASSUME TypeInv, OrderInv, Next PROVE OrderInv'
  BY DEF OrderInv, vars
<1>f. /\ \/ cam'.mSnapshotFormat = cam.mSnapshotFormat
         \/ snap = "none" /\ snap' = "none" /\ app' \in {"store", "idle"}
      /\ cam'.mPrevHeapDeallocRunning =>
           \/ frame' = "flag"
           \/ /\ cam.mPrevHeapDeallocRunning
              /\ frame \in {"none", "flag"} => frame' \in {"none", "flag"}
  BY FieldsKept DEF TypeInv
<1> USE DEF OrderInv
<1>1. CASE Call
  BY <1>1, <1>f DEF Call, StartPreview, StartPreviewInternal, StopPreview,
                    CancelPicture, SetOverlay, StopRecording, TakePicture, Release,
                    Reopen
<1>2. CASE AppStep
  BY <1>2, <1>f DEF AppStep, RestartPreview, StartPreviewInternal, WaitFrameThread,
                WaitSnapshotMode, InitPreview, StartOps,
                    WaitSnapshotThread, StorePostview, TestPostview, CopyPostview,
                    StopForPicture, WaitPmem, InitRaw, StartSnapshotThread,
                    SetSnapshotMode, ReleaseJoin, ReleaseSnapshot, ReleaseWait,
                    ReleaseHeaps
<1>3. CASE FrameStep \/ FrameArrives
  BY <1>3, <1>f DEF FrameStep, FeedOverlay, PreviewCallback, FrameThreadEnds,
                    ClearPreviewHeap, FrameThreadGone, FrameArrives
<1>4. CASE SnapStep
  BY <1>4, <1>f DEF SnapStep, SnapshotCancelled, SnapshotOps, ReceiveRawPicture,
                    ReceiveRawSnapshot, ShowPicture, RawCallback, EncoderStarts,
                    EncodeFails, LeaveSnapshotMode, WaitJpegThread, JoinEncoder,
                    EndPicture, SnapshotThreadGone
<1>5. CASE JpegStep
  BY <1>5, <1>f DEF JpegStep, EncoderDone, ReceiveJpegPicture
<1> QED
  BY <1>1, <1>2, <1>3, <1>4, <1>5 DEF Next

-----------------------------------------------------------------------------
(* The heaps of a picture.                                                  *)

\* A step that leaves the heaps and the picture alone.
LEMMA PictureSame ==
  ASSUME HeapInv, PictureHeapsKept, heaps \subseteq heaps', UNCHANGED <<snap, jpeg, dropped>>,
         app' = "thread" => app = "thread",
         \/ cam'.mSnapshotFormat = cam.mSnapshotFormat
         \/ snap = "none" /\ app' \in {"store", "idle"}
  PROVE  HeapInv' /\ PictureHeapsKept'
  BY DEF HeapInv, PictureHeapsKept, JpegThere

LEMMA PictureNext ==
  ASSUME IInv, Next
  PROVE  HeapInv' /\ PictureHeapsKept'
<1>f. \/ cam'.mSnapshotFormat = cam.mSnapshotFormat
      \/ snap = "none" /\ snap' = "none" /\ app' \in {"store", "idle"}
  BY FieldsKept DEF IInv, TypeInv
<1> USE DEF PictureHeaps, JpegHeaps, RawHeaps, JpegThere, IInv, OrderInv, HeapInv,
            PictureHeapsKept
<1>1. CASE StartPreview \/ RestartPreview \/ StopPreview \/ CancelPicture \/ SetOverlay
           \/ TakePicture \/ Release \/ WaitFrameThread \/ WaitSnapshotMode \/ StartOps
           \/ WaitSnapshotThread \/ StorePostview \/ TestPostview \/ CopyPostview
           \/ StopForPicture \/ WaitPmem \/ SetSnapshotMode \/ ReleaseJoin
           \/ ReleaseSnapshot \/ ReleaseWait \/ PreviewCallback \/ FrameThreadEnds
           \/ FrameThreadGone \/ FrameArrives
  <2>1. heaps \subseteq heaps' /\ UNCHANGED <<snap, jpeg, dropped>>
        /\ (app' = "thread" => app = "thread")
    BY <1>1 DEF StartPreview, RestartPreview, StartPreviewInternal, StopPreview, CancelPicture,
                SetOverlay, TakePicture, Release, WaitFrameThread, WaitSnapshotMode,
                StartOps, WaitSnapshotThread, StorePostview, TestPostview,
                CopyPostview, StopForPicture, WaitPmem, SetSnapshotMode, ReleaseJoin,
                ReleaseSnapshot, ReleaseWait, PreviewCallback, FrameThreadEnds,
                FrameThreadGone, FrameArrives
  <2> QED
    BY <2>1, <1>f, PictureSame
<1>2. CASE StopRecording
  <2>1. CASE UNCHANGED heaps /\ UNCHANGED dropped
    <3>1. UNCHANGED <<snap, jpeg>> /\ app' # "thread"
      BY <1>2 DEF StopRecording
    <3> QED
      BY <2>1, <3>1, <1>f, PictureSame
  <2>2. CASE heaps' = heaps \ {"jpeg"} /\ dropped' = (dropped \/ "jpeg" \in heaps)
    BY <1>2, <2>2, <1>f DEF StopRecording
  <2> QED
    BY <1>2, <2>1, <2>2 DEF StopRecording
<1>3. CASE InitPreview
  BY <1>3, <1>f DEF InitPreview
<1>4. CASE InitRaw
  BY <1>4, <1>f DEF InitRaw
<1>5. CASE StartSnapshotThread
  BY <1>5, <1>f DEF StartSnapshotThread
<1>6. CASE ReleaseHeaps
  BY <1>6, <1>f DEF ReleaseHeaps
<1>7. CASE Reopen
  BY <1>7, <1>f DEF Reopen
<1>8. CASE FeedOverlay
  BY <1>8, <1>f DEF FeedOverlay
<1>9. CASE ClearPreviewHeap
  BY <1>9, <1>f DEF ClearPreviewHeap
<1>10. CASE SnapshotCancelled
  BY <1>10, <1>f DEF SnapshotCancelled, DeinitRaw
<1>11. CASE SnapshotOps
  BY <1>11, <1>f DEF SnapshotOps
<1>12. CASE ReceiveRawPicture
  BY <1>12, <1>f DEF ReceiveRawPicture, NotifyShutter
<1>13. CASE ReceiveRawSnapshot
  BY <1>13, <1>f DEF ReceiveRawSnapshot
<1>14. CASE ShowPicture
  BY <1>14, <1>f DEF ShowPicture
<1>15. CASE RawCallback
  BY <1>15, <1>f DEF RawCallback
<1>16. CASE EncoderStarts
  BY <1>16, <1>f DEF EncoderStarts
<1>17. CASE EncodeFails
  BY <1>17, <1>f DEF EncodeFails, DeinitRaw
<1>18. CASE LeaveSnapshotMode
  BY <1>18, <1>f DEF LeaveSnapshotMode
<1>19. CASE WaitJpegThread
  BY <1>19, <1>f DEF WaitJpegThread
<1>20. CASE JoinEncoder
  BY <1>20, <1>f DEF JoinEncoder
<1>21. CASE EndPicture
  BY <1>21, <1>f DEF EndPicture, DeinitRaw
<1>22. CASE SnapshotThreadGone
  BY <1>22, <1>f DEF SnapshotThreadGone
<1>23. CASE EncoderDone
  BY <1>23, <1>f DEF EncoderDone
<1>24. CASE ReceiveJpegPicture
  BY <1>24, <1>f DEF ReceiveJpegPicture
<1> QED
  BY <1>1, <1>2, <1>3, <1>4, <1>5, <1>6, <1>7, <1>8, <1>9, <1>10, <1>11, <1>12, <1>13,
     <1>14, <1>15, <1>16, <1>17, <1>18, <1>19, <1>20, <1>21, <1>22, <1>23, <1>24
     DEF Next, Call, AppStep, FrameStep, SnapStep, JpegStep

-----------------------------------------------------------------------------
(* The heap of the preview.                                                 *)

LEMMA FrameNext ==
  ASSUME IInv, Next
  PROVE  FrameHeapKept'
<1>1. CASE Call
  BY <1>1 DEF Call, StartPreview, StartPreviewInternal, StopPreview, CancelPicture,
              SetOverlay, StopRecording, TakePicture, Release, Reopen, IInv, OrderInv,
              FrameHeapKept
<1>2. CASE AppStep
  BY <1>2 DEF AppStep, RestartPreview, StartPreviewInternal, WaitFrameThread,
                WaitSnapshotMode, InitPreview, StartOps,
              WaitSnapshotThread, StorePostview, TestPostview, CopyPostview,
              StopForPicture, WaitPmem, InitRaw, StartSnapshotThread, SetSnapshotMode,
              ReleaseJoin, ReleaseSnapshot, ReleaseWait, ReleaseHeaps, PictureHeaps,
              JpegHeaps, RawHeaps, IInv, OrderInv, FrameHeapKept
<1>3. CASE FrameStep \/ FrameArrives
  BY <1>3 DEF FrameStep, FeedOverlay, PreviewCallback, FrameThreadEnds,
              ClearPreviewHeap, FrameThreadGone, FrameArrives, IInv, OrderInv,
              FrameHeapKept
<1>4. CASE SnapStep
  BY <1>4 DEF SnapStep, SnapshotCancelled, DeinitRaw, SnapshotOps, ReceiveRawPicture,
              NotifyShutter, ReceiveRawSnapshot, ShowPicture, RawCallback,
              EncoderStarts, EncodeFails, LeaveSnapshotMode, WaitJpegThread,
              JoinEncoder, EndPicture, SnapshotThreadGone, IInv, OrderInv, FrameHeapKept
<1>5. CASE JpegStep
  BY <1>5 DEF JpegStep, EncoderDone, ReceiveJpegPicture, IInv, OrderInv, FrameHeapKept
<1> QED
  BY <1>1, <1>2, <1>3, <1>4, <1>5 DEF Next

-----------------------------------------------------------------------------
(* The theorems.                                                            *)

LEMMA InvInit == Init => IInv
<1> SUFFICES ASSUME Init PROVE IInv
  OBVIOUS
<1>1. cam \in Cam /\ ~cam.mPrevHeapDeallocRunning
  BY DEF Init, New, Cam
<1>2. TypeInv
  BY <1>1 DEF Init, TypeInv, Apps
<1>3. OrderInv /\ HeapInv /\ PictureHeapsKept /\ FrameHeapKept
  BY <1>1 DEF Init, OrderInv, HeapInv, PictureHeapsKept, FrameHeapKept
<1> QED
  BY <1>2, <1>3 DEF IInv

LEMMA InvNext == IInv /\ [Next]_vars => IInv'
<1>1. CASE UNCHANGED vars
  BY <1>1 DEF vars, IInv, TypeInv, OrderInv, HeapInv, JpegThere, PictureHeapsKept,
              FrameHeapKept
<1>2. CASE Next
  BY <1>2, TypeNext, OrderNext, PictureNext, FrameNext DEF IInv
<1> QED
  BY <1>1, <1>2

LEMMA Invariant == Spec => []IInv
  BY InvInit, InvNext, PTL DEF Spec

\* The heaps that the snapshot thread shows and encodes, and the one that the
\* encoder writes, are there as long as it may use them, whatever preview frames,
\* calls of the service and the previous picture do meanwhile; but for the jpeg
\* heap, which stopRecording frees.
THEOREM PictureKeepsItsHeaps == Spec => []PictureHeapsKept
<1>1. IInv => PictureHeapsKept
  BY DEF IInv
<1> QED
  BY <1>1, Invariant, PTL

\* A frame thread that can still deliver a frame has its preview heap: no
\* startPreview begins while one lives, and nobody but release takes it away.
THEOREM PreviewKeepsItsHeap == Spec => []FrameHeapKept
<1>1. IInv => FrameHeapKept
  BY DEF IInv
<1> QED
  BY <1>1, Invariant, PTL

\* When release has returned neither the snapshot thread nor the encoder runs.
THEOREM ReleaseWaitsForAll == Spec => []ReleaseQuiet
<1>1. IInv => ReleaseQuiet
  BY DEF IInv, OrderInv, ReleaseQuiet
<1> QED
  BY <1>1, Invariant, PTL

-----------------------------------------------------------------------------
(* Sizes.                                                                   *)

SizeType == [preview : Pairs, video : Pairs, shown : Pairs, display : Pairs,
             key : Pairs \cup {Unparsed}]

\* The sizes are pairs and the preview size is reported as it is.
SizesInv == size \in SizeType /\ PreviewReported

\* Either setter keeps the sizes well formed and the preview reported,
\* whatever is asked for.
LEMMA PreviewSizeKeeps ==
  ASSUME NEW z \in SizeType, z.shown = z.preview, z.display = z.preview, NEW preview
  PROVE  LET y == setPreviewSize(z, preview)
         IN y \in SizeType /\ y.shown = y.preview /\ y.display = y.preview
<1>1. CASE preview \in Previews
  <2>1. preview \in Pairs
    BY <1>1, ParamsAssumption
  <2>2. setPreviewSize(z, preview)
          = [z EXCEPT !.preview = preview, !.shown = preview, !.display = preview]
    BY <1>1 DEF setPreviewSize
  <2> QED
    BY <2>1, <2>2 DEF SizeType
<1>2. CASE preview \notin Previews
  <2>1. setPreviewSize(z, preview) = [z EXCEPT !.shown = z.preview]
    BY <1>2 DEF setPreviewSize
  <2> QED
    BY <2>1 DEF SizeType
<1> QED
  BY <1>1, <1>2

LEMMA RecordSizeKeeps ==
  ASSUME NEW z \in SizeType, z.shown = z.preview, z.display = z.preview,
         NEW video \in Pairs \cup {Missing, Unparsed}
  PROVE  LET y == setRecordSize(z, video)
         IN y \in SizeType /\ y.shown = y.preview /\ y.display = y.preview
<1>1. CASE video = Unparsed
  <2>1. setRecordSize(z, video) = [z EXCEPT !.key = Unparsed]
    BY <1>1 DEF setRecordSize
  <2> QED
    BY <2>1 DEF SizeType
<1>2. CASE video # Unparsed /\ video = Missing
  <2>1. setRecordSize(z, video)
          = [z EXCEPT !.video = z.preview, !.key = z.preview, !.display = z.preview]
    BY <1>2 DEF setRecordSize
  <2> QED
    BY <2>1 DEF SizeType
<1>3. CASE video # Unparsed /\ video # Missing
  <2> DEFINE p == IF Greater(z.preview, video) THEN video ELSE z.preview
             v == IF video \in Previews THEN video ELSE DefaultVideo
             n == IF p = z.preview THEN z.shown ELSE p
  <2>1. setRecordSize(z, video)
          = [z EXCEPT !.preview = p, !.shown = n, !.video = v, !.key = v, !.display = p]
    BY <1>3 DEF setRecordSize
  <2>2. p \in Pairs /\ v \in Pairs /\ n = p
    BY <1>3, ParamsAssumption DEF SizeType
  <2> HIDE DEF p, v, n
  <2> QED
    BY <2>1, <2>2 DEF SizeType
<1> QED
  BY <1>1, <1>2, <1>3

\* Setting the record size again with the same request changes nothing, so
\* that the four calls of setParameters are one.
THEOREM RecordSizeOnce ==
  ASSUME NEW z \in SizeType, NEW video \in Pairs \cup {Missing, Unparsed}
  PROVE  LET y == setRecordSize(z, video) IN setRecordSize(y, video) = y
<1>1. CASE video = Unparsed
  <2>1. PICK y : y = [z EXCEPT !.key = Unparsed]
    OBVIOUS
  <2>2. [y EXCEPT !.key = Unparsed] = y
    BY <2>1 DEF SizeType
  <2>3. setRecordSize(z, video) = y
    BY <1>1, <2>1 DEF setRecordSize
  <2>4. setRecordSize(y, video) = [y EXCEPT !.key = Unparsed]
    BY <1>1 DEF setRecordSize
  <2> QED
    BY <2>2, <2>3, <2>4
<1>2. CASE video # Unparsed /\ video = Missing
  <2>1. PICK y : y = [z EXCEPT !.video = z.preview, !.key = z.preview, !.display = z.preview]
    OBVIOUS
  <2>2. /\ y \in SizeType
        /\ y.video = y.preview /\ y.key = y.preview /\ y.display = y.preview
    BY <2>1 DEF SizeType
  <2>3. [y EXCEPT !.video = y.preview, !.key = y.preview, !.display = y.preview] = y
    BY <2>2 DEF SizeType
  <2>4. setRecordSize(z, video) = y
    BY <1>2, <2>1 DEF setRecordSize
  <2>5. setRecordSize(y, video)
          = [y EXCEPT !.video = y.preview, !.key = y.preview, !.display = y.preview]
    BY <1>2 DEF setRecordSize
  <2> QED
    BY <2>3, <2>4, <2>5
<1>3. CASE video # Unparsed /\ video # Missing
  <2> DEFINE v == IF video \in Previews THEN video ELSE DefaultVideo
             P(y) == IF Greater(y.preview, video) THEN video ELSE y.preview
             S(y) == IF P(y) = y.preview THEN y.shown ELSE P(y)
             R(y) == [y EXCEPT !.preview = P(y), !.shown = S(y), !.video = v, !.key = v,
                               !.display = P(y)]
  <2>1. \A y : setRecordSize(y, video) = R(y)
    BY <1>3 DEF setRecordSize
  <2>2. video \in Nat \X Nat
    BY <1>3 DEF Pairs
  <2>3. ~Greater(video, video)
    BY <2>2 DEF Greater
  <2>4. P(z) \in {video, z.preview} /\ ~Greater(P(z), video)
    BY <2>3
  <2> HIDE DEF v
  <2>5. R(z).preview = P(z) /\ R(z).video = v /\ R(z).key = v /\ R(z).display = P(z)
    BY DEF SizeType
  <2>6. P(R(z)) = R(z).preview
    BY <2>4, <2>5
  <2>7. S(R(z)) = R(z).shown
    BY <2>6
  <2>8. R(z) \in [{"preview", "video", "shown", "key", "display"} ->
                    {R(z)[i] : i \in {"preview", "video", "shown", "key", "display"}}]
    BY DEF SizeType
  <2>9. R(R(z)) = R(z)
    BY <2>5, <2>6, <2>7, <2>8
  <2> HIDE DEF R, P, S
  <2>10. setRecordSize(z, video) = R(z) /\ setRecordSize(R(z), video) = R(R(z))
    BY <2>1
  <2> QED
    BY <2>9, <2>10
<1> QED
  BY <1>1, <1>2, <1>3

-----------------------------------------------------------------------------
(* The specification.                                                       *)

\* A call leaves the sizes well formed and the preview reported.
LEMMA CallKeeps ==
  ASSUME SizesInv, NEW p, NEW f, NEW preview,
         NEW video \in Pairs \cup {Missing, Unparsed}, setParameters(p, preview, video, f)
  PROVE  SizesInv'
<1> DEFINE a == setPreviewSize(size, preview)
<1>1. a \in SizeType /\ a.shown = a.preview /\ a.display = a.preview
  BY PreviewSizeKeeps DEF SizesInv, PreviewReported
<1>2. size' = setRecordSize(a, video)
  BY DEF setParameters, Sizes
<1> HIDE DEF a
<1>3. LET y == setRecordSize(a, video)
      IN y \in SizeType /\ y.shown = y.preview /\ y.display = y.preview
  BY <1>1, RecordSizeKeeps
<1> QED
  BY <1>2, <1>3 DEF SizesInv, PreviewReported

\* The preview size that is read back is the one in use, for every table of
\* sizes and every sequence of requests: whatever is asked for, the second
\* setter starts from the sizes the first has left in agreement.
THEOREM SizesAgree == ParamsSpec => []PreviewReported
<1>1. ParamsInit => SizesInv
  BY ParamsAssumption DEF ParamsInit, SizesInv, SizeType, PreviewReported
<1>2. SizesInv /\ [ParamsNext]_paramsVars => SizesInv'
  <2> SUFFICES ASSUME SizesInv, [ParamsNext]_paramsVars PROVE SizesInv'
    OBVIOUS
  <2>k. size.key \in Pairs \cup {Missing, Unparsed}
    BY DEF SizesInv, SizeType
  <2>1. CASE initDefaultParameters
    BY <2>1, <2>k, CallKeeps DEF initDefaultParameters
  <2>2. CASE SetValue
    <3>1. PICK k, v, f : setParameters([getParameters EXCEPT ![k] = v], size.shown, size.key, f)
      BY <2>2 DEF SetValue
    <3> QED
      BY <3>1, <2>k, CallKeeps
  <2>3. CASE SetSizes
    <3>1. PICK preview \in {size.shown} \cup Requested,
              video \in {size.key, Missing, Unparsed} \cup Requested :
            setParameters(getParameters, preview, video, NoFault)
      BY <2>3 DEF SetSizes
    <3>2. video \in Pairs \cup {Missing, Unparsed}
      BY <2>k, ParamsAssumption
    <3> QED
      BY <3>1, <3>2, CallKeeps
  <2>4. CASE Snapshot
    BY <2>4 DEF Snapshot, SizesInv, PreviewReported
  <2>5. CASE UNCHANGED paramsVars
    BY <2>5 DEF paramsVars, SizesInv, PreviewReported
  <2> QED
    BY <2>1, <2>2, <2>3, <2>4, <2>5 DEF ParamsNext
<1>3. SizesInv => PreviewReported
  BY DEF SizesInv
<1> QED
  BY <1>1, <1>2, <1>3, PTL DEF ParamsSpec

-----------------------------------------------------------------------------
(* Settings: the state of a call.                                           *)

Any == Values \cup {"bad", "none"}

CallType == [par : [Keys -> Any], dev : [Settings -> Any], mHJR : Values,
             mBrightness : Any, mSkinTone : Any, rc : {"NO_ERROR", "ERROR"}, ran : SUBSET Keys]

\* What the driver may do with a call: it never refuses scene detection.
Fault == {f \in [Settings -> {"ok"} \cup Wrong] :
            f["scenedetect"] # "refused" /\ f["snow"] # "refused"}

\* A call that has met no error so far has the driver agree with what it has set.
Settled(s, p, f) ==
  s.rc = "NO_ERROR" =>
    /\ \A k \in Sent(s.ran, p, f) \cap DirectKeys : s.dev[k] = s.par[k]
    /\ "scenedetect" \in Sent(s.ran, p, f) => s.dev["scenedetect"] = s.dev["snow"]

\* Hand-jitter reduction follows mHJR, which is the ISO value, until it has
\* failed (l).
Jitter(s, l) == s.mHJR = s.par["iso"] /\ (~l => (s.dev["hjr"] = "hi" <=> s.mHJR = "hi"))

CallInv(s, p, f, l) == s \in CallType /\ Settled(s, p, f) /\ Jitter(s, l)

\* t is s but for the keys in K, and an error of s is not forgotten.
Touches(s, t, K) ==
  /\ t \in CallType /\ t.ran = s.ran /\ t.mHJR = s.mHJR
  /\ \A k \in Keys \ K : t.par[k] = s.par[k]
  /\ \A k \in Settings \ K : t.dev[k] = s.dev[k]
  /\ s.rc = "ERROR" => t.rc = "ERROR"

\* The keys with nothing to keep but their own value.
Plain == Keys \ (DirectKeys \cup {"scenedetect", "iso"})

\* What the steps of the setters touch.
LEMMA StepsTouch ==
  ASSUME NEW s \in CallType, NEW k \in Settings, NEW v \in Any, NEW f
  PROVE  /\ Native(s, k, v, f) \in CallType
         /\ Touches(s, Native(s, k, v, f), {k})
         /\ Touches(s, Told(s, k, f), {})
         /\ Touches(s, Failed(s), {})
         /\ k \in Keys => Touches(s, [s EXCEPT !.par[k] = v], {k})
<1>1. [s EXCEPT !.dev[k] = v] \in CallType
  BY DEF CallType
<1>2. Native(s, k, v, f) \in CallType /\ Touches(s, Native(s, k, v, f), {k})
  BY <1>1 DEF Native, Touches, CallType
<1>3. Touches(s, Failed(s), {})
  BY DEF Failed, Touches, CallType
<1>4. Touches(s, Told(s, k, f), {})
  BY <1>3 DEF Told, Touches
<1>5. ASSUME k \in Keys PROVE Touches(s, [s EXCEPT !.par[k] = v], {k})
  BY <1>5 DEF Touches, CallType
<1> QED
  BY <1>2, <1>3, <1>4, <1>5

\* What one setter leaves alone the next one leaves alone too.
LEMMA TouchesOn ==
  ASSUME NEW s, NEW t, NEW u, NEW K, NEW L, Touches(s, t, K), Touches(t, u, L)
  PROVE  Touches(s, u, K \cup L)
  BY DEF Touches

LEMMA TouchesMore ==
  ASSUME NEW s, NEW t, NEW K, NEW L, Touches(s, t, K), K \subseteq L
  PROVE  Touches(s, t, L)
  BY DEF Touches

LEMMA TouchesNone == \A s \in CallType : Touches(s, s, {})
  BY DEF Touches

\* The kinds of setters touch their own key.
LEMMA KindsTouch ==
  ASSUME NEW s \in CallType, NEW k \in Keys, NEW p \in [Keys -> Any], NEW f
  PROVE  /\ Touches(s, Given(k, s, p, f), {k})
         /\ Touches(s, Direct(k, s, p, f), {k})
         /\ Touches(s, Silent(k, s, p, f), {k})
         /\ Touches(s, Kept(k, s, p), {k})
<1>1. p[k] \in Any /\ k \in Settings
  BY DEF Settings
<1> DEFINE a == [s EXCEPT !.par[k] = p[k]]
           b == Native(a, k, p[k], f)
           c == Told(b, k, f)
<1>2. Touches(s, a, {k}) /\ Touches(s, Failed(s), {k}) /\ Touches(s, s, {k})
  BY <1>1, StepsTouch, TouchesMore, TouchesNone
<1>3. a \in CallType
  BY <1>2 DEF Touches
<1>4. Touches(a, b, {k}) /\ b \in CallType
  BY <1>1, <1>3, StepsTouch
<1>5. Touches(b, c, {})
  BY <1>1, <1>4, StepsTouch
<1> HIDE DEF a, b, c
<1>6. Touches(s, b, {k})
  <2>1. Touches(s, b, {k} \cup {k})
    BY <1>2, <1>4, TouchesOn
  <2> QED
    BY <2>1
<1>7. Touches(s, c, {k})
  <2>1. Touches(s, c, {k} \cup {})
    BY <1>6, <1>5, TouchesOn
  <2> QED
    BY <2>1
<1> QED
  BY <1>2, <1>6, <1>7 DEF a, b, c, Given, Direct, Silent, Kept

\* A setter of another key's value and setting keeps what a call has reached.
LEMMA PlainKeeps ==
  ASSUME NEW p, NEW f, NEW l, NEW s, CallInv(s, p, f, l), NEW t, Touches(s, t, Plain),
         NEW k \in Plain
  PROVE  CallInv([t EXCEPT !.ran = @ \cup {k}], p, f, l)
<1> DEFINE u == [t EXCEPT !.ran = @ \cup {k}]
<1>1. /\ u \in CallType /\ u.ran = s.ran \cup {k} /\ u.rc = t.rc
      /\ u.par = t.par /\ u.dev = t.dev /\ u.mHJR = t.mHJR
  BY DEF Touches, CallType, Plain
<1>2. {"scenedetect", "iso"} \subseteq Keys \ Plain /\ DirectKeys \subseteq Keys \ Plain
  BY DEF Plain, Keys, DirectKeys
<1>3. /\ {"scenedetect", "snow", "hjr"} \subseteq Settings \ Plain
      /\ DirectKeys \subseteq Settings \ Plain
  BY <1>2 DEF Settings, Plain, Keys
<1>4. u.rc = "NO_ERROR" => s.rc = "NO_ERROR"
  BY <1>1 DEF Touches, CallType, CallInv
<1>5. Settled(u, p, f)
  <2> SUFFICES ASSUME u.rc = "NO_ERROR"
               PROVE  /\ \A j \in Sent(u.ran, p, f) \cap DirectKeys : u.dev[j] = u.par[j]
                      /\ "scenedetect" \in Sent(u.ran, p, f)
                           => u.dev["scenedetect"] = u.dev["snow"]
    BY DEF Settled
  <2>1. \A j \in Keys \ Plain : j \in Sent(u.ran, p, f) => j \in Sent(s.ran, p, f)
    BY <1>1 DEF Sent
  <2> QED
    BY <1>1, <1>2, <1>3, <1>4, <2>1 DEF CallInv, Settled, Touches
<1>6. Jitter(u, l)
  BY <1>1, <1>2, <1>3 DEF CallInv, Jitter, Touches
<1> QED
  BY <1>1, <1>5, <1>6 DEF CallInv

\* The setters of plain keys touch plain keys.
LEMMA PlainTouches ==
  ASSUME NEW s \in CallType, NEW p \in [Keys -> Any], NEW f, NEW k \in Plain
  PROVE  Touches(s, Apply(s, k, p, f), Plain)
<1>1. \A j \in Plain : /\ Touches(s, Direct(j, s, p, f), Plain)
                       /\ Touches(s, Silent(j, s, p, f), Plain)
                       /\ Touches(s, Kept(j, s, p), Plain)
  <2> SUFFICES ASSUME NEW j \in Plain
               PROVE  /\ Touches(s, Direct(j, s, p, f), Plain)
                      /\ Touches(s, Silent(j, s, p, f), Plain)
                      /\ Touches(s, Kept(j, s, p), Plain)
    OBVIOUS
  <2>1. j \in Keys /\ {j} \subseteq Plain
    BY DEF Plain
  <2> QED
    BY <2>1, KindsTouch, TouchesMore
<1>2. Touches(s, s, Plain)
  BY TouchesNone, TouchesMore
<1>3. CASE k \in {"picture", "thumbnail", "jpegquality", "pictureformat", "previewformat",
                  "rotation", "orientation", "focus", "fpsrange"}
  <2>1. Apply(s, k, p, f) = Kept(k, s, p)
    BY <1>3 DEF Apply, setPictureSize, setJpegThumbnailSize, setJpegQuality, setPictureFormat,
                setPreviewFormat, setRotation, setOrientation, setFocusMode, setPreviewFpsRange
  <2> QED
    BY <2>1, <1>1
<1>4. CASE k \in {"lensshade", "caf"}
  <2>1. Apply(s, k, p, f) = Silent(k, s, p, f)
    BY <1>4 DEF Apply, setLensshadeValue, setContinuousAf
  <2> QED
    BY <2>1, <1>1
<1>5. CASE k = "touch"
  <2>1. Apply(s, k, p, f) \in {Silent(k, s, p, f), s}
    BY <1>5 DEF Apply, setTouchAfAec
  <2> QED
    BY <2>1, <1>1, <1>2
<1>6. CASE k = "fps"
  <2>1. Apply(s, k, p, f) \in {Direct(k, s, p, f), s}
    BY <1>6 DEF Apply, setPreviewFrameRate
  <2> QED
    BY <2>1, <1>1, <1>2
<1>7. CASE k \in {"gps", "strtextures"}
  <2>1. Apply(s, k, p, f) = [s EXCEPT !.par[k] = p[k]]
    BY <1>7 DEF Apply, setGpsLocation, setStrTextures
  <2>2. k \in Settings /\ p[k] \in Any /\ k \in Keys /\ {k} \subseteq Plain
    BY DEF Plain, Settings
  <2>3. Touches(s, [s EXCEPT !.par[k] = p[k]], {k})
    BY <2>2, StepsTouch
  <2> QED
    BY <2>1, <2>2, <2>3, TouchesMore
<1>8. CASE k = "fpsmode"
  <2> DEFINE a == [s EXCEPT !.par["fpsmode"] = p["fpsmode"]]
             t == Native(a, "fpsmode", p["fpsmode"], f)
             u == Given("fps", t, p, f)
  <2>1. "fpsmode" \in Settings /\ p["fpsmode"] \in Any /\ "fpsmode" \in Keys
        /\ "fps" \in Keys /\ {"fpsmode"} \cup {"fpsmode"} \subseteq Plain
        /\ {"fpsmode"} \cup {"fps"} \subseteq Plain
    BY DEF Plain, Settings, Keys, DirectKeys
  <2>2. Touches(s, a, {"fpsmode"}) /\ a \in CallType
    <3>1. Touches(s, a, {"fpsmode"})
      BY <2>1, StepsTouch
    <3> QED
      BY <3>1 DEF Touches
  <2>3. Touches(a, t, {"fpsmode"}) /\ t \in CallType
    BY <2>1, <2>2, StepsTouch
  <2>4. Touches(t, u, {"fps"})
    BY <2>1, <2>3, KindsTouch
  <2> HIDE DEF a, t, u
  <2>5. Touches(s, t, {"fpsmode"})
    <3>1. Touches(s, t, {"fpsmode"} \cup {"fpsmode"})
      BY <2>2, <2>3, TouchesOn
    <3> QED
      BY <3>1
  <2>6. Touches(s, u, {"fpsmode"} \cup {"fps"})
    BY <2>4, <2>5, TouchesOn
  <2>7. Touches(s, t, Plain) /\ Touches(s, u, Plain)
    BY <2>1, <2>5, <2>6, TouchesMore
  <2>8. Touches(s, Failed(s), Plain)
    <3>1. Touches(s, Failed(s), {})
      BY <2>1, StepsTouch
    <3> QED
      BY <3>1, TouchesMore
  <2>9. Apply(s, k, p, f) \in {s, Failed(s), t, u}
    BY <1>8 DEF Apply, setPreviewFrameRateMode, a, t, u
  <2> QED
    BY <2>7, <2>8, <2>9, <1>2
<1>9. CASE k = "brightness"
  <2> DEFINE a == [s EXCEPT !.mBrightness = p["brightness"]]
             t == Native(a, "brightness", p["brightness"], f)
             u == Told(t, "brightness", f)
  <2>1. "brightness" \in Settings /\ p["brightness"] \in Any
        /\ ({} \cup {"brightness"}) \cup {} \subseteq Plain
    BY DEF Plain, Settings, Keys, DirectKeys
  <2>2. Touches(s, a, {}) /\ a \in CallType
    BY <2>1 DEF Touches, CallType
  <2>3. Touches(a, t, {"brightness"}) /\ t \in CallType
    BY <2>1, <2>2, StepsTouch
  <2>4. Touches(t, u, {})
    BY <2>1, <2>3, StepsTouch
  <2> HIDE DEF a, t, u
  <2>5. Touches(s, t, {} \cup {"brightness"})
    BY <2>2, <2>3, TouchesOn
  <2>6. Touches(s, u, ({} \cup {"brightness"}) \cup {})
    BY <2>4, <2>5, TouchesOn
  <2>7. Touches(s, u, Plain)
    BY <2>1, <2>6, TouchesMore
  <2>8. Apply(s, k, p, f) \in {s, u}
    BY <1>9 DEF Apply, setBrightness, a, t, u
  <2> QED
    BY <2>7, <2>8, <1>2
<1>10. CASE k = "skintone"
  <2> DEFINE a == [s EXCEPT !.mSkinTone = p["skintone"], !.par["skintone"] = p["skintone"]]
             t == Native(a, "skintone", p["skintone"], f)
             u == Told(t, "skintone", f)
  <2>1. "skintone" \in Settings /\ p["skintone"] \in Any /\ "skintone" \in Keys
        /\ ({"skintone"} \cup {"skintone"}) \cup {} \subseteq Plain
    BY DEF Plain, Settings, Keys, DirectKeys
  <2>2. Touches(s, a, {"skintone"}) /\ a \in CallType
    BY <2>1 DEF Touches, CallType
  <2>3. Touches(a, t, {"skintone"}) /\ t \in CallType
    BY <2>1, <2>2, StepsTouch
  <2>4. Touches(t, u, {})
    BY <2>1, <2>3, StepsTouch
  <2> HIDE DEF a, t, u
  <2>5. Touches(s, t, {"skintone"} \cup {"skintone"})
    BY <2>2, <2>3, TouchesOn
  <2>6. Touches(s, u, ({"skintone"} \cup {"skintone"}) \cup {})
    BY <2>4, <2>5, TouchesOn
  <2>7. Touches(s, u, Plain)
    BY <2>1, <2>6, TouchesMore
  <2>8. Apply(s, k, p, f) \in {s, u}
    BY <1>10 DEF Apply, setSkinToneEnhancement, a, t, u
  <2> QED
    BY <2>7, <2>8, <1>2
<1>11. Plain = {"picture", "thumbnail", "jpegquality", "pictureformat", "previewformat",
                "rotation", "orientation", "focus", "fpsrange", "lensshade", "caf", "touch",
                "fps", "gps", "strtextures", "fpsmode", "brightness", "skintone"}
  BY DEF Plain, Keys, DirectKeys
<1> QED
  BY <1>3, <1>4, <1>5, <1>6, <1>7, <1>8, <1>9, <1>10, <1>11

\* A setter that answers for its driver leaves the driver with its value, or an
\* error.
LEMMA DirectKeeps ==
  ASSUME NEW p \in [Keys -> Any], NEW f \in Fault, NEW l,
         NEW s, CallInv(s, p, f, l), NEW k \in DirectKeys
  PROVE  CallInv([Apply(s, k, p, f) EXCEPT !.ran = @ \cup {k}], p, f, l)
<1> DEFINE t == Apply(s, k, p, f)
           u == [t EXCEPT !.ran = @ \cup {k}]
<1>k. k \in Keys /\ k \in Settings /\ p[k] \in Any
  BY DEF Keys, DirectKeys, Settings
<1>s. s \in CallType
  BY DEF CallInv
<1>1. t = Direct(k, s, p, f) \/ (k = "contrast" /\ ~Unscened(p) /\ t = s)
  BY DEF Apply, DirectKeys, setEffect, setZoom, setSharpness, setSaturation, setSceneMode,
         setContrast, setAntibanding, setSelectableZoneAf, setAutoExposure,
         setExposureCompensation, setWhiteBalance, setFlash, Unscened
<1>2. Touches(s, t, {k})
  <2>1. Touches(s, Direct(k, s, p, f), {k})
    BY <1>k, <1>s, KindsTouch
  <2>2. Touches(s, s, {k})
    BY <1>s, TouchesNone, TouchesMore
  <2> QED
    BY <1>1, <2>1, <2>2
<1>3. t.rc = "NO_ERROR" /\ k \in Sent(s.ran \cup {k}, p, f) => t.dev[k] = t.par[k]
  <2> SUFFICES ASSUME t.rc = "NO_ERROR", k \in Supported, f[k] # "refused",
                      k = "contrast" => Unscened(p)
               PROVE  t.dev[k] = t.par[k]
    BY DEF Sent
  <2> DEFINE a == [s EXCEPT !.par[k] = p[k]]
             b == Native(a, k, p[k], f)
  <2>1. t = Direct(k, s, p, f)
    BY <1>1
  <2>2. Known(p[k])
    <3>1. Failed(s).rc = "ERROR"
      BY <1>s DEF Failed, CallType
    <3> QED
      BY <2>1, <3>1 DEF Direct, Given
  <2>3. t = Told(b, k, f)
    BY <2>1, <2>2 DEF Direct, Given
  <2>4. a \in CallType /\ a.par[k] = p[k]
    BY <1>s, <1>k DEF CallType
  <2>5. b \in CallType
    BY <2>4, <1>k, StepsTouch
  <2>6. f[k] = "ok"
    <3>1. Failed(b).rc = "ERROR"
      BY <2>5 DEF Failed, CallType
    <3>2. f[k] \in {"ok"} \cup Wrong
      BY <1>k DEF Fault
    <3> QED
      BY <2>3, <3>1, <3>2 DEF Told, Wrong
  <2>7. t = [a EXCEPT !.dev[k] = p[k]]
    BY <2>3, <2>6 DEF Told, Native
  <2> HIDE DEF a, b, t
  <2> QED
    BY <2>4, <2>7, <1>k DEF CallType
<1> HIDE DEF t
<1>4. /\ u \in CallType /\ u.ran = s.ran \cup {k} /\ u.rc = t.rc
      /\ u.par = t.par /\ u.dev = t.dev /\ u.mHJR = t.mHJR
  BY <1>2, <1>k DEF Touches, CallType
<1>5. DirectKeys \subseteq Keys \cap Settings /\ "iso" \in Keys \ DirectKeys
      /\ {"scenedetect", "snow", "hjr"} \subseteq Settings \ DirectKeys
  BY DEF DirectKeys, Keys, Settings
<1>6. u.rc = "NO_ERROR" => s.rc = "NO_ERROR"
  BY <1>2, <1>4, <1>s DEF Touches, CallType
<1>7. Settled(u, p, f)
  <2> SUFFICES ASSUME u.rc = "NO_ERROR"
               PROVE  /\ \A j \in Sent(u.ran, p, f) \cap DirectKeys : u.dev[j] = u.par[j]
                      /\ "scenedetect" \in Sent(u.ran, p, f)
                           => u.dev["scenedetect"] = u.dev["snow"]
    BY DEF Settled
  <2>1. \A j : j # k /\ j \in Sent(u.ran, p, f) => j \in Sent(s.ran, p, f)
    BY <1>4 DEF Sent
  <2>2. \A j \in DirectKeys \ {k} : u.dev[j] = s.dev[j] /\ u.par[j] = s.par[j]
    BY <1>2, <1>4, <1>5 DEF Touches
  <2>3. u.dev["scenedetect"] = s.dev["scenedetect"] /\ u.dev["snow"] = s.dev["snow"]
    BY <1>2, <1>4, <1>5 DEF Touches
  <2>4. "scenedetect" # k
    BY <1>5
  <2> QED
    BY <1>3, <1>4, <1>6, <2>1, <2>2, <2>3, <2>4 DEF CallInv, Settled
<1>8. Jitter(u, l)
  BY <1>2, <1>4, <1>5 DEF CallInv, Jitter, Touches
<1> QED
  BY <1>4, <1>7, <1>8 DEF CallInv, t

\* When both settings of scene detection have been taken they are the same.
LEMMA BothSet ==
  ASSUME NEW s \in CallType, NEW v \in Any, NEW f \in Fault
  PROVE  LET t == SetBoth(s, v, f)
         IN /\ Touches(s, t, {"scenedetect", "snow"})
            /\ t.rc = "NO_ERROR" => t.dev["scenedetect"] = v /\ t.dev["snow"] = v
<1> DEFINE a == Native(s, "scenedetect", v, f)
           b == Native(a, "snow", v, f)
           c == Told(b, "scenedetect", f)
           t == Told(c, "snow", f)
           K == (({"scenedetect"} \cup {"snow"}) \cup {}) \cup {}
<1>1. "scenedetect" \in Settings /\ "snow" \in Settings
  BY DEF Settings, Keys
<1>2. Touches(s, a, {"scenedetect"}) /\ a \in CallType
  BY <1>1, StepsTouch
<1>3. Touches(a, b, {"snow"}) /\ b \in CallType
  BY <1>1, <1>2, StepsTouch
<1>4. Touches(b, c, {})
  BY <1>1, <1>3, StepsTouch
<1>5. c \in CallType
  BY <1>4 DEF Touches
<1>6. Touches(c, t, {})
  BY <1>1, <1>5, StepsTouch
<1>7. c.rc = "NO_ERROR" => f["scenedetect"] = "ok" /\ c = b
  <2>1. Failed(b).rc = "ERROR"
    BY <1>3 DEF Failed, CallType
  <2> HIDE DEF b
  <2> QED
    BY <2>1, <1>1 DEF Told, Fault, Wrong
<1>8. t.rc = "NO_ERROR" => f["snow"] = "ok" /\ t = c
  <2>1. Failed(c).rc = "ERROR"
    BY <1>5 DEF Failed, CallType
  <2> HIDE DEF c
  <2> QED
    BY <2>1, <1>1 DEF Told, Fault, Wrong
<1>9. f["scenedetect"] = "ok" /\ f["snow"] = "ok"
        => b.dev["scenedetect"] = v /\ b.dev["snow"] = v
  BY <1>1 DEF Native, CallType
<1> HIDE DEF a, b, c, t
<1>10. Touches(s, t, K)
  <2>1. Touches(s, b, {"scenedetect"} \cup {"snow"})
    BY <1>2, <1>3, TouchesOn
  <2>2. Touches(s, c, ({"scenedetect"} \cup {"snow"}) \cup {})
    BY <2>1, <1>4, TouchesOn
  <2> QED
    BY <2>2, <1>6, TouchesOn
<1>11. K \subseteq {"scenedetect", "snow"}
  OBVIOUS
<1>12. Touches(s, t, {"scenedetect", "snow"})
  BY <1>10, <1>11, TouchesMore
<1>13. t.rc = "NO_ERROR" => t.dev["scenedetect"] = v /\ t.dev["snow"] = v
  BY <1>7, <1>8, <1>9
<1> QED
  BY <1>12, <1>13 DEF a, b, c, t, SetBoth

\* Scene detection is all on or all off when setting it has been answered for,
\* also when it has been taken back.
LEMMA SceneDetectKeeps ==
  ASSUME NEW p \in [Keys -> Any], NEW f \in Fault, NEW l,
         NEW s, CallInv(s, p, f, l)
  PROVE  CallInv([Apply(s, "scenedetect", p, f) EXCEPT !.ran = @ \cup {"scenedetect"}], p, f, l)
<1> DEFINE K == {"scenedetect", "snow"}
           t == setSceneDetect(s, p, f)
           u == [t EXCEPT !.ran = @ \cup {"scenedetect"}]
<1>k. "scenedetect" \in Keys /\ "scenedetect" \in Settings /\ p["scenedetect"] \in Any
  BY DEF Keys, Settings
<1>s. s \in CallType
  BY DEF CallInv
<1>1. Apply(s, "scenedetect", p, f) = t
  BY DEF Apply
<1>2. /\ Touches(s, t, K)
      /\ t.rc = "NO_ERROR" /\ "scenedetect" \in Supported
           => t.dev["scenedetect"] = t.dev["snow"]
  <2>1. CASE "scenedetect" \notin Supported
    <3>1. t = s
      BY <2>1 DEF setSceneDetect
    <3>2. Touches(s, s, K)
      BY <1>s, TouchesNone, TouchesMore
    <3> QED
      BY <2>1, <3>1, <3>2
  <2>2. CASE "scenedetect" \in Supported /\ ~Known(p["scenedetect"])
    <3>1. t = Failed(s)
      BY <2>2 DEF setSceneDetect
    <3>2. Touches(s, Failed(s), {})
      BY <1>s, <1>k, StepsTouch
    <3>3. Failed(s).rc = "ERROR"
      BY <1>s DEF Failed, CallType
    <3>4. Touches(s, Failed(s), K)
      BY <3>2, TouchesMore
    <3> QED
      BY <3>1, <3>3, <3>4
  <2>3. CASE "scenedetect" \in Supported /\ Known(p["scenedetect"])
    <3> DEFINE v == p["scenedetect"]
               i == [s EXCEPT !.par["scenedetect"] = v]
               a == SetBoth(i, v, f)
               b == [a EXCEPT !.rc = s.rc]
               w == Other(v)
               c == SetBoth(b, w, Again(f))
    <3>1. Touches(s, i, {"scenedetect"}) /\ i \in CallType
      <4>1. Touches(s, i, {"scenedetect"})
        BY <1>k, <1>s, StepsTouch
      <4> QED
        BY <4>1 DEF Touches
    <3>2. Touches(i, a, K)
      BY <1>k, <3>1, BothSet
    <3>a. a.rc = "NO_ERROR" => a.dev["scenedetect"] = a.dev["snow"]
      BY <1>k, <3>1, BothSet
    <3>3. t = a \/ t = c
      BY <2>3 DEF setSceneDetect
    <3>4. Again(f) \in Fault
      BY DEF Again, Fault, Settings, Keys
    <3>5. w \in Any
      BY DEF Other, Any, Values
    <3> HIDE DEF i, a, w, t
    <3>6. Touches(s, a, K)
      <4>1. Touches(s, a, {"scenedetect"} \cup K)
        BY <3>1, <3>2, TouchesOn
      <4> QED
        BY <4>1, TouchesMore
    <3>7. Touches(s, b, K) /\ b \in CallType
      BY <3>6, <1>s DEF Touches, CallType
    <3> HIDE DEF b
    <3>8. /\ Touches(b, c, K)
          /\ c.rc = "NO_ERROR" => c.dev["scenedetect"] = c.dev["snow"]
      BY <3>4, <3>5, <3>7, BothSet
    <3> HIDE DEF c
    <3>9. Touches(s, c, K)
      <4>1. Touches(s, c, K \cup K)
        BY <3>7, <3>8, TouchesOn
      <4> QED
        BY <4>1, TouchesMore
    <3> QED
      BY <3>3, <3>6, <3>8, <3>9, <3>a
  <2> QED
    BY <2>1, <2>2, <2>3
<1> HIDE DEF t
<1>4. /\ u \in CallType /\ u.ran = s.ran \cup {"scenedetect"} /\ u.rc = t.rc
      /\ u.par = t.par /\ u.dev = t.dev /\ u.mHJR = t.mHJR
  BY <1>2, <1>k DEF Touches, CallType
<1>5. DirectKeys \subseteq (Keys \cap Settings) \ K /\ "iso" \in Keys \ K
      /\ "hjr" \in Settings \ K
  BY DEF DirectKeys, Keys, Settings
<1>6. u.rc = "NO_ERROR" => s.rc = "NO_ERROR"
  BY <1>2, <1>4, <1>s DEF Touches, CallType
<1>7. Settled(u, p, f)
  <2> SUFFICES ASSUME u.rc = "NO_ERROR"
               PROVE  /\ \A j \in Sent(u.ran, p, f) \cap DirectKeys : u.dev[j] = u.par[j]
                      /\ "scenedetect" \in Sent(u.ran, p, f)
                           => u.dev["scenedetect"] = u.dev["snow"]
    BY DEF Settled
  <2>1. \A j \in DirectKeys : j \in Sent(u.ran, p, f) => j \in Sent(s.ran, p, f)
    BY <1>4, <1>5 DEF Sent
  <2>2. \A j \in DirectKeys : u.dev[j] = s.dev[j] /\ u.par[j] = s.par[j]
    BY <1>2, <1>4, <1>5 DEF Touches
  <2>3. "scenedetect" \in Sent(u.ran, p, f) => "scenedetect" \in Supported
    BY DEF Sent
  <2> QED
    BY <1>2, <1>4, <1>6, <2>1, <2>2, <2>3 DEF CallInv, Settled
<1>8. Jitter(u, l)
  BY <1>2, <1>4, <1>5 DEF CallInv, Jitter, Touches
<1> QED
  BY <1>1, <1>4, <1>7, <1>8 DEF CallInv

\* The ISO value switches hand-jitter reduction on when it becomes deblur and off
\* when it ceases to be; in between there is nothing to switch.
LEMMA ISOKeeps ==
  ASSUME NEW p \in [Keys -> Any], NEW f \in Fault, NEW l, f["hjr"] # "ok" => l,
         NEW s, CallInv(s, p, f, l)
  PROVE  CallInv([Apply(s, "iso", p, f) EXCEPT !.ran = @ \cup {"iso"}], p, f, l)
<1> DEFINE K == {"iso", "hjr"}
           v == p["iso"]
           t == setISOValue(s, p, f)
           u == [t EXCEPT !.ran = @ \cup {"iso"}]
<1>k. "iso" \in Keys /\ "iso" \in Settings /\ "hjr" \in Settings /\ v \in Any
  BY DEF Keys, Settings
<1>s. s \in CallType /\ Jitter(s, l)
  BY DEF CallInv
<1>1. Apply(s, "iso", p, f) = t
  BY DEF Apply
<1>2. /\ t \in CallType /\ t.ran = s.ran
      /\ \A k \in Keys \ K : t.par[k] = s.par[k]
      /\ \A k \in Settings \ K : t.dev[k] = s.dev[k]
      /\ s.rc = "ERROR" => t.rc = "ERROR"
      /\ Jitter(t, l)
  <2>1. CASE "iso" \notin Supported
    <3>1. t = s
      BY <2>1 DEF setISOValue
    <3> QED
      BY <3>1, <1>s
  <2>2. CASE "iso" \in Supported /\ ~Known(v)
    <3>1. t = Failed(s)
      BY <2>2 DEF setISOValue
    <3> QED
      BY <3>1, <1>s DEF Failed, CallType, Jitter
  <2>3. CASE "iso" \in Supported /\ Known(v)
    <3> DEFINE i == [s EXCEPT !.mHJR = v]
               a == IF v = "hi" \/ s.mHJR = "hi" THEN Native(i, "hjr", v, f) ELSE s
               b == [a EXCEPT !.par["iso"] = v]
    <3>1. t = Native(b, "iso", v, f)
      BY <2>3 DEF setISOValue
    <3>2. v \in Values
      BY <2>3 DEF Known
    <3>3. i \in CallType /\ i.par = s.par /\ i.dev = s.dev /\ i.rc = s.rc /\ i.ran = s.ran
          /\ i.mHJR = v
      BY <1>s, <3>2 DEF CallType
    <3> HIDE DEF i
    <3>4. LET n == Native(i, "hjr", v, f)
          IN /\ n \in CallType /\ n.par = s.par /\ n.rc = s.rc /\ n.ran = s.ran /\ n.mHJR = v
             /\ \A k \in Settings \ {"hjr"} : n.dev[k] = s.dev[k]
             /\ f["hjr"] = "ok" => n.dev["hjr"] = v
      BY <1>k, <3>3 DEF Native, CallType
    <3>5. s.mHJR \in Values
      BY <1>s DEF CallType
    <3>6. /\ a \in CallType /\ a.par = s.par /\ a.rc = s.rc /\ a.ran = s.ran /\ a.mHJR = v
          /\ \A k \in Settings \ {"hjr"} : a.dev[k] = s.dev[k]
          /\ ~l => (a.dev["hjr"] = "hi" <=> v = "hi")
      BY <1>s, <3>2, <3>4, <3>5 DEF Jitter, Values
    <3> HIDE DEF a
    <3>7. /\ b \in CallType /\ b.rc = s.rc /\ b.ran = s.ran /\ b.mHJR = v /\ b.dev = a.dev
          /\ b.par["iso"] = v
          /\ \A k \in Keys \ {"iso"} : b.par[k] = s.par[k]
      BY <1>k, <3>6 DEF CallType
    <3> HIDE DEF b
    <3>8. /\ t \in CallType /\ t.rc = s.rc /\ t.ran = s.ran /\ t.mHJR = v /\ t.par = b.par
          /\ \A k \in Settings \ {"iso"} : t.dev[k] = b.dev[k]
      BY <1>k, <3>1, <3>7 DEF Native, CallType
    <3> HIDE DEF t
    <3> QED
      BY <1>k, <3>6, <3>7, <3>8 DEF Jitter
  <2> QED
    BY <2>1, <2>2, <2>3
<1> HIDE DEF t
<1>4. /\ u \in CallType /\ u.ran = s.ran \cup {"iso"} /\ u.rc = t.rc
      /\ u.par = t.par /\ u.dev = t.dev /\ u.mHJR = t.mHJR
  BY <1>2, <1>k DEF CallType
<1>5. DirectKeys \subseteq (Keys \cap Settings) \ K
      /\ "scenedetect" \in Settings \ K /\ "snow" \in Settings \ K
  BY DEF DirectKeys, Keys, Settings
<1>6. u.rc = "NO_ERROR" => s.rc = "NO_ERROR"
  BY <1>2, <1>4, <1>s DEF CallType
<1>7. Settled(u, p, f)
  <2> SUFFICES ASSUME u.rc = "NO_ERROR"
               PROVE  /\ \A j \in Sent(u.ran, p, f) \cap DirectKeys : u.dev[j] = u.par[j]
                      /\ "scenedetect" \in Sent(u.ran, p, f)
                           => u.dev["scenedetect"] = u.dev["snow"]
    BY DEF Settled
  <2>1. \A j : j # "iso" /\ j \in Sent(u.ran, p, f) => j \in Sent(s.ran, p, f)
    BY <1>4 DEF Sent
  <2>2. \A j \in DirectKeys : u.dev[j] = s.dev[j] /\ u.par[j] = s.par[j]
    BY <1>2, <1>4, <1>5
  <2>3. u.dev["scenedetect"] = s.dev["scenedetect"] /\ u.dev["snow"] = s.dev["snow"]
    BY <1>2, <1>4, <1>5
  <2> QED
    BY <1>4, <1>5, <1>6, <2>1, <2>2, <2>3 DEF CallInv, Settled
<1>8. Jitter(u, l)
  BY <1>2, <1>4 DEF Jitter
<1> QED
  BY <1>1, <1>4, <1>7, <1>8 DEF CallInv

\* One setter, whichever it is, keeps what a call has reached.
LEMMA CalledKeeps ==
  ASSUME NEW p \in [Keys -> Any], NEW f \in Fault, NEW l, f["hjr"] # "ok" => l,
         NEW s, CallInv(s, p, f, l), NEW k \in Keys
  PROVE  CallInv(Called(s, k, p, f), p, f, l)
<1>1. CASE k \notin group
  BY <1>1 DEF Called
<1>2. CASE k \in group
  <2> DEFINE t == [Apply(s, k, p, f) EXCEPT !.ran = @ \cup {k}]
  <2>1. Called(s, k, p, f) = t
    BY <1>2 DEF Called
  <2>2. CASE k \in Plain
    <3>1. Touches(s, Apply(s, k, p, f), Plain)
      BY <2>2, PlainTouches DEF CallInv
    <3> QED
      BY <2>1, <2>2, <3>1, PlainKeeps
  <2>3. CASE k \in DirectKeys
    BY <2>1, <2>3, DirectKeeps
  <2>4. CASE k = "scenedetect"
    BY <2>1, <2>4, SceneDetectKeeps
  <2>5. CASE k = "iso"
    BY <2>1, <2>5, ISOKeeps
  <2> QED
    BY <2>2, <2>3, <2>4, <2>5 DEF Plain
<1> QED
  BY <1>1, <1>2

\* Induction, from the library's theorem that finite sets are well-founded under
\* inclusion: of the intervals up to a number that is not in T, none is the least.
LEMMA Induction ==
  ASSUME NEW T, 0 \in T, \A n \in Nat : n \in T => n + 1 \in T
  PROVE  Nat \subseteq T
<1> DEFINE Below == {0 .. n : n \in Nat \ T}
<1> SUFFICES ASSUME Below # {} PROVE FALSE
  OBVIOUS
<1>1. Below \subseteq FiniteSubsetsOf(Nat)
  <2>1. \A n \in Nat : IsFiniteSet(0 .. n)
    BY FS_Interval
  <2> QED
    BY <2>1 DEF FiniteSubsetsOf
<1>2. PICK m \in Below : \A y \in Below : <<y, m>> \notin StrictSubsetOrdering(Nat)
  BY <1>1, WFMin, FS_StrictSubsetOrderingWellFounded
<1>3. PICK x \in Nat \ T : m = 0 .. x
  OBVIOUS
<1>4. x # 0 /\ x - 1 \in Nat /\ x - 1 \notin T
  BY <1>3
<1>5. (0 .. (x - 1)) \in Below
  BY <1>4
<1>6. <<0 .. (x - 1), m>> \in StrictSubsetOrdering(Nat)
  BY <1>3, <1>4 DEF StrictSubsetOrdering
<1> QED
  BY <1>2, <1>5, <1>6

\* A call is its setters in turn, however many: g holds what the first of them
\* leave, as the function in Set does, ...
Follows(g, n, order, p, f) ==
  g = [i \in 0 .. n |-> IF i = 0 THEN State ELSE Called(g[i - 1], order[i], p, f)]

\* ... and there is such a function.
LEMMA InTurn ==
  ASSUME NEW p, NEW f, NEW order
  PROVE  \A n \in Nat : \E g : Follows(g, n, order, p, f)
<1> DEFINE T == {n \in Nat : \E g : Follows(g, n, order, p, f)}
<1>1. 0 \in T
  <2>1. Follows([i \in 0 .. 0 |-> State], 0, order, p, f)
    BY DEF Follows
  <2> QED
    BY <2>1
<1>2. ASSUME NEW n \in Nat, n \in T
      PROVE  n + 1 \in T
  <2>1. PICK g : Follows(g, n, order, p, f)
    BY <1>2
  <2> DEFINE h == [i \in 0 .. (n + 1) |->
                     IF i = n + 1 THEN Called(g[n], order[n + 1], p, f) ELSE g[i]]
  <2>2. \A i \in 0 .. n : h[i] = g[i]
    OBVIOUS
  <2>3. \A i \in 0 .. (n + 1) :
          h[i] = IF i = 0 THEN State ELSE Called(h[i - 1], order[i], p, f)
    <3>1. h[n + 1] = Called(h[n], order[n + 1], p, f)
      BY <2>2
    <3>2. \A i \in 0 .. n :
            g[i] = IF i = 0 THEN State ELSE Called(g[i - 1], order[i], p, f)
      BY <2>1 DEF Follows
    <3>3. \A i \in 0 .. n :
            h[i] = IF i = 0 THEN State ELSE Called(h[i - 1], order[i], p, f)
      BY <2>2, <3>2
    <3>4. ASSUME NEW i \in 0 .. (n + 1)
          PROVE  h[i] = IF i = 0 THEN State ELSE Called(h[i - 1], order[i], p, f)
      <4>1. CASE i = n + 1
        BY <3>1, <4>1
      <4>2. CASE i \in 0 .. n
        BY <3>3, <4>2
      <4> QED
        BY <4>1, <4>2
    <3> QED
      BY <3>4
  <2>4. h = [i \in 0 .. (n + 1) |-> h[i]]
    OBVIOUS
  <2> HIDE DEF h
  <2>5. Follows(h, n + 1, order, p, f)
    BY <2>3, <2>4 DEF Follows
  <2> QED
    BY <2>5
<1> HIDE DEF T
<1>3. Nat \subseteq T
  BY <1>1, <1>2, Induction
<1> QED
  BY <1>3 DEF T

\* The setters of a call.
LEMMA OrderType == \A p : Order(p) \in Seq(Keys)
<1>1. Always \in Seq(Keys) /\ Unhurried \in Seq(Keys) /\ Sceneless \in Seq(Keys)
  BY DEF Always, Unhurried, Sceneless, Keys
<1>2. <<"zoneaf">> \in Seq(Keys) /\ <<>> \in Seq(Keys)
  BY DEF Keys
<1> QED
  BY <1>1, <1>2 DEF Order

\* A whole call keeps it, because each of its setters does.
LEMMA SetKeeps ==
  ASSUME NEW p \in [Keys -> Any], NEW f \in Fault, NEW l, f["hjr"] # "ok" => l,
         CallInv(State, p, f, l)
  PROVE  CallInv(Set(p, f), p, f, l)
<1>1. PICK order : order = Order(p) /\ order \in Seq(Keys)
  BY OrderType
<1>2. Len(order) \in Nat /\ \A i \in 1 .. Len(order) : order[i] \in Keys
  BY <1>1
<1> DEFINE after == CHOOSE g : Follows(g, Len(order), order, p, f)
<1>3. Follows(after, Len(order), order, p, f)
  BY <1>2, InTurn
<1>4. Set(p, f) = after[Len(order)]
  BY <1>1 DEF Set, Follows
<1> HIDE DEF after
<1> DEFINE T == {n \in Nat : n <= Len(order) => CallInv(after[n], p, f, l)}
<1>5. 0 \in T
  <2>1. after[0] = State
    BY <1>2, <1>3 DEF Follows
  <2> QED
    BY <2>1
<1>6. ASSUME NEW n \in Nat, n \in T
      PROVE  n + 1 \in T
  <2>1. SUFFICES ASSUME n + 1 <= Len(order)
                 PROVE  CallInv(after[n + 1], p, f, l)
    OBVIOUS
  <2>2. CallInv(after[n], p, f, l)
    BY <1>2, <1>6, <2>1
  <2>3. order[n + 1] \in Keys
    BY <1>2, <2>1
  <2>4. \A i \in 0 .. Len(order) :
          after[i] = IF i = 0 THEN State ELSE Called(after[i - 1], order[i], p, f)
    BY <1>3 DEF Follows
  <2>5. n + 1 \in 0 .. Len(order) /\ n + 1 # 0 /\ (n + 1) - 1 = n
    BY <1>2, <2>1
  <2>6. after[n + 1] = Called(after[n], order[n + 1], p, f)
    BY <2>4, <2>5
  <2> QED
    BY <2>2, <2>3, <2>6, CalledKeeps
<1> HIDE DEF T
<1>7. Nat \subseteq T
  BY <1>5, <1>6, Induction
<1> QED
  BY <1>2, <1>4, <1>7 DEF T

-----------------------------------------------------------------------------
(* Settings: the specification.                                             *)

\* What holds between calls.  That mHJR is the ISO value of mParameters is what
\* makes the next call switch hand-jitter reduction off.
SettingsInv ==
  /\ par \in [Keys -> Any] /\ dev \in [Settings -> Any] /\ mHJR \in Values
  /\ mBrightness \in Any /\ mSkinTone \in Any
  /\ mHJR = par["iso"]
  /\ Honest

LEMMA FaultsAreFaults == Faults \subseteq Fault
<1>1. Driven \subseteq Settings
  BY DEF Driven, Settings, Keys, DirectKeys
<1>2. NoFault \in Fault
  BY DEF NoFault, Fault, Settings, Keys
<1>s. "scenedetect" \in Settings /\ "snow" \in Settings
  BY DEF Settings, Keys
<1>3. \A k \in Settings : [NoFault EXCEPT ![k] = "fails"] \in Fault
  BY <1>2, <1>s DEF Fault, Wrong
<1>4. \A k \in Settings : [NoFault EXCEPT ![k] = "once"] \in Fault
  BY <1>2, <1>s DEF Fault, Wrong
<1>5. \A k \in Settings \cap Refusable : [NoFault EXCEPT ![k] = "refused"] \in Fault
  BY <1>2, <1>s DEF Fault, Wrong, Refusable
<1> QED
  BY <1>1, <1>2, <1>3, <1>4, <1>5 DEF Faults

\* A call to set parameters leaves the settings in order.
LEMMA SettingsCall ==
  ASSUME SettingsInv, NEW p \in [Keys -> Any], NEW f \in Fault, NEW preview, NEW video,
         setParameters(p, preview, video, f)
  PROVE  SettingsInv'
<1> DEFINE l == lost \/ f["hjr"] # "ok"
           s == Set(p, f)
<1>1. CallInv(State, p, f, l)
  <2>1. State \in CallType
    BY DEF State, CallType, SettingsInv
  <2>2. Settled(State, p, f)
    BY DEF State, Settled, Sent
  <2>3. Jitter(State, l)
    BY DEF State, Jitter, SettingsInv, Honest
  <2> QED
    BY <2>1, <2>2, <2>3 DEF CallInv
<1>2. CallInv(s, p, f, l)
  <2>1. f["hjr"] # "ok" => l
    OBVIOUS
  <2> HIDE DEF l
  <2> QED
    BY <1>1, <2>1, SetKeeps
<1>3. /\ par' = s.par /\ dev' = s.dev /\ mHJR' = s.mHJR
      /\ mBrightness' = s.mBrightness /\ mSkinTone' = s.mSkinTone
      /\ rc' = "NO_ERROR" => s.rc = "NO_ERROR"
      /\ sent' = Sent(s.ran, p, f)
      /\ lost' <=> l
  BY DEF setParameters
<1> HIDE DEF s, l
<1>4. /\ par' \in [Keys -> Any] /\ dev' \in [Settings -> Any] /\ mHJR' \in Values
      /\ mBrightness' \in Any /\ mSkinTone' \in Any
  BY <1>2, <1>3 DEF CallInv, CallType
<1>5. rc' = "NO_ERROR" =>
        /\ \A k \in sent' \cap DirectKeys : dev'[k] = par'[k]
        /\ "scenedetect" \in sent' => dev'["scenedetect"] = dev'["snow"]
  BY <1>2, <1>3 DEF CallInv, Settled
<1>6. mHJR' = par'["iso"] /\ (~lost' => (dev'["hjr"] = "hi" <=> par'["iso"] = "hi"))
  BY <1>2, <1>3 DEF CallInv, Jitter
<1> QED
  BY <1>4, <1>5, <1>6 DEF SettingsInv, Honest

\* A call that answers NO_ERROR has left the driver with what mParameters says,
\* and hand-jitter reduction is on exactly while the ISO value is deblur until
\* switching it has failed: for every sensor, every sequence of values, known or
\* not, with snapshots and scene modes between, and wherever the driver fails.
THEOREM SettingsHonest == ParamsSpec => []Honest
<1>1. ParamsInit => SettingsInv
  BY DEF ParamsInit, SettingsInv, Honest, Defaults, Any, Values, Keys, Settings
<1>2. SettingsInv /\ [ParamsNext]_paramsVars => SettingsInv'
  <2> SUFFICES ASSUME SettingsInv, [ParamsNext]_paramsVars PROVE SettingsInv'
    OBVIOUS
  <2>a. par \in [Keys -> Any] /\ getParameters \in [Keys -> Any]
    BY DEF SettingsInv, getParameters, Any, Values
  <2>b. NoFault \in Fault /\ Faults \subseteq Fault
    BY FaultsAreFaults DEF Faults
  <2>1. CASE initDefaultParameters
    <3>1. PICK f \in Faults : setParameters(par, size.shown, size.key, f)
      BY <2>1 DEF initDefaultParameters
    <3> QED
      BY <3>1, <2>a, <2>b, SettingsCall
  <2>2. CASE SetValue
    <3>1. PICK k \in group \cap Keys, v \in Values \cup {"bad"}, f \in Faults :
            setParameters([getParameters EXCEPT ![k] = v], size.shown, size.key, f)
      BY <2>2 DEF SetValue
    <3>2. [getParameters EXCEPT ![k] = v] \in [Keys -> Any]
      BY <2>a DEF Any
    <3> QED
      BY <3>1, <3>2, <2>b, SettingsCall
  <2>3. CASE SetSizes
    <3>1. PICK preview, video : setParameters(getParameters, preview, video, NoFault)
      BY <2>3 DEF SetSizes
    <3> QED
      BY <3>1, <2>a, <2>b, SettingsCall
  <2>4. CASE Snapshot
    BY <2>4 DEF Snapshot, SettingsInv, Honest
  <2>5. CASE UNCHANGED paramsVars
    BY <2>5 DEF paramsVars, SettingsInv, Honest
  <2> QED
    BY <2>1, <2>2, <2>3, <2>4, <2>5 DEF ParamsNext
<1>3. SettingsInv => Honest
  BY DEF SettingsInv
<1> QED
  BY <1>1, <1>2, <1>3, PTL DEF ParamsSpec

=============================================================================
