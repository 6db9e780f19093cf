------------------------ MODULE CameraPreviewProofs ------------------------
(***************************************************************************)
(* Proofs about CameraPreview, for any windows, sizes and buffers.         *)
(***************************************************************************)
EXTENDS CameraPreview, TLAPS

Setting == {"geometry", "size", "overlay", "unset"}
Settled == {"idle", "start", "ops", "no preview"}

App == [at : Setting \cup Settled, next : {"idle", "start"}]

Frame == [at : {"none", "wait", "got", "checked", "hook", "dequeue", "copy"},
          gen : {0, 1}, window : Windows \cup {Null}, size : Sizes \cup {0},
          room : Sizes \cup {0}, heap : Sizes \cup {0}, terminate : BOOLEAN]

TypeInv ==
  /\ dev \in Dev /\ geometry \in [Windows -> Sizes \cup {0}] /\ param \in Sizes
  /\ heap \in Heap /\ registered \subseteq Buffers
  /\ overlaySet \in BOOLEAN /\ running \in BOOLEAN /\ failed \in BOOLEAN
  /\ app \in App /\ frame \in Frame

\* A heap is kept while the preview runs, with its size, and so is its frame
\* thread, which never has a frame of another heap.
HeapInv ==
  /\ running \/ app.at = "ops" => /\ heap.live /\ heap.size = param
                                  /\ frame.at # "none" /\ ~frame.terminate
  /\ app.at = "ops" => ~running /\ frame.at = "wait"
  /\ frame.at \notin {"none", "wait"} => frame.gen = heap.gen

\* How far set_preview_window has come.
SettingInv ==
  /\ app.at \in Settled => app.next = "idle"
  /\ dev.window # Null => dev.open
  /\ app.at \in {"geometry", "size", "overlay"} => dev.window # Null
  /\ app.at = "unset" => dev.window = Null
  /\ app.at \in {"size", "overlay"} => geometry[dev.window] = param
  /\ app.at = "overlay" => dev.size = param

\* The window is as it was last set.
Fresh == app.at \in Settled /\ ~failed

WindowInv ==
  Fresh /\ dev.window # Null =>
    /\ geometry[dev.window] = dev.size
    /\ running \/ app.at \in {"start", "ops"} => dev.size = param

\* What the frame thread has read under mOverlayLock.
HookInv ==
  /\ frame.at \in {"dequeue", "copy"} => frame.window # Null
  /\ Fresh /\ frame.at \in {"dequeue", "copy"} => frame.window = dev.window
  /\ Fresh /\ frame.at = "copy" => frame.room = dev.size /\ frame.size = dev.size

IInv == TypeInv /\ HeapInv /\ SettingInv /\ WindowInv /\ HookInv

-----------------------------------------------------------------------------
(* Types.                                                                   *)

\* Where a call is after a step.
LEMMA AppGoes ==
  ASSUME app \in App, NEW from, NEW to \in Setting \cup Settled, Goes(from, to)
  PROVE  app' \in App /\ app.at = from /\ app'.at = to /\ app'.next = app.next
  BY DEF App, Goes

LEMMA AppReturns ==
  ASSUME app \in App, NEW from, Returns(from)
  PROVE  app' \in App /\ app.at = from /\ app'.at = app.next /\ app'.next = "idle"
  BY DEF App, Returns, Settled

LEMMA AppIdle == Idle \in App /\ Idle.at = "idle" /\ Idle.next = "idle"
  BY DEF App, Idle, Settled

\* What a new heap is, and one that is gone.
LEMMA HeapMade ==
  ASSUME TypeInv, PmemPool
  PROVE  /\ heap' \in Heap /\ registered' \subseteq Buffers
         /\ heap'.live /\ heap'.size = param
  BY DEF TypeInv, PmemPool, Heap

LEMMA HeapGone ==
  ASSUME TypeInv, PoolGone
  PROVE  /\ heap' \in Heap /\ registered' \subseteq Buffers /\ heap'.gen = heap.gen
  BY DEF TypeInv, PoolGone, Heap

LEMMA FrameMade ==
  /\ NoFrame \in Frame /\ NoFrame.at = "none"
  /\ [NoFrame EXCEPT !.at = "wait"] \in Frame
  BY DEF Frame, NoFrame

LEMMA DevMade ==
  /\ NewDev \in Dev /\ NewDev.window = Null /\ NewDev.open
  /\ [NewDev EXCEPT !.open = FALSE] \in Dev
  /\ [NewDev EXCEPT !.open = FALSE].window = Null
  BY DEF Dev, NewDev

LEMMA TypeInit == Init => TypeInv
<1> SUFFICES ASSUME Init PROVE TypeInv
  OBVIOUS
<1>1. heap \in Heap
  BY DEF Init, Heap
<1> QED
  BY <1>1, AppIdle, FrameMade, DevMade DEF Init, TypeInv

LEMMA TypeWindow ==
  ASSUME TypeInv,
         \/ \E s \in Sizes : SetSize(s)
         \/ \E w \in Windows \cup {Null}, next \in {"idle", "start"} : SetWindow(w, next)
         \/ WindowFails \/ SetGeometry \/ SetDevSize \/ SetOverlay \/ Close \/ Reopen
  PROVE  TypeInv'
<1> USE DEF TypeInv
<1>1. ASSUME NEW s \in Sizes, SetSize(s) PROVE TypeInv'
  BY <1>1 DEF SetSize
<1>2. ASSUME NEW w \in Windows \cup {Null}, NEW next \in {"idle", "start"}, SetWindow(w, next)
      PROVE  TypeInv'
  <2>1. dev' \in Dev /\ app' \in App
    BY <1>2 DEF SetWindow, Dev, App, Setting
  <2> QED
    BY <1>2, <2>1 DEF SetWindow
<1>3. CASE WindowFails
  BY <1>3, AppReturns DEF WindowFails
<1>4. CASE SetGeometry
  BY <1>4, AppGoes DEF SetGeometry, Setting
<1>5. CASE SetDevSize
  <2>1. dev' \in Dev
    BY <1>5 DEF SetDevSize, Dev
  <2> QED
    BY <1>5, <2>1, AppGoes DEF SetDevSize, Setting
<1>6. CASE SetOverlay
  BY <1>6, AppReturns DEF SetOverlay
<1>7. CASE Close \/ Reopen
  BY <1>7, DevMade DEF Close, Reopen
<1> QED
  BY <1>1, <1>2, <1>3, <1>4, <1>5, <1>6, <1>7

LEMMA TypePreview ==
  ASSUME TypeInv, AlreadyRunning \/ InitPreview \/ InitPreviewFails \/ StartOps \/ StartOpsFails
                  \/ ClearOverlay \/ StopPreview
  PROVE  TypeInv'
<1> USE DEF TypeInv
<1>1. CASE AlreadyRunning
  BY <1>1, AppReturns DEF AlreadyRunning
<1>2. CASE InitPreview
  BY <1>2, AppGoes, HeapMade, FrameMade DEF InitPreview, Settled
<1>3. CASE InitPreviewFails
  BY <1>3, AppReturns, HeapMade, HeapGone DEF InitPreviewFails
<1>4. CASE StartOps
  BY <1>4, AppReturns DEF StartOps
<1>5. [frame EXCEPT !.terminate = TRUE] \in Frame
  BY DEF Frame
<1>6. CASE StartOpsFails
  BY <1>5, <1>6, AppGoes DEF StartOpsFails, Settled
<1>7. CASE ClearOverlay
  BY <1>7, AppReturns DEF ClearOverlay
<1>8. CASE StopPreview
  BY <1>5, <1>8 DEF StopPreview
<1> QED
  BY <1>1, <1>2, <1>3, <1>4, <1>6, <1>7, <1>8

LEMMA TypeFrame ==
  ASSUME TypeInv, HookInv,
         Deliver \/ Check \/ EnterHook \/ ReadWindow \/ Dequeue \/ EndCopy \/ FrameEnds
  PROVE  TypeInv'
<1> USE DEF TypeInv
<1>1. CASE FrameEnds
  BY <1>1, FrameMade, HeapGone DEF FrameEnds
<1>2. Deliver \/ Check \/ EnterHook \/ EndCopy => frame' \in Frame /\ FrameOnly
  BY DEF Deliver, Check, EnterHook, EndCopy, FrameGoes, Frame, Heap
<1>3. ReadWindow => frame' \in Frame /\ FrameOnly
  <2>1. [frame EXCEPT !.at = "wait"] \in Frame
    BY DEF Frame
  <2>2. [frame EXCEPT !.at = "dequeue", !.window = dev.window] \in Frame
    BY DEF Frame, Dev
  <2> QED
    BY <2>1, <2>2 DEF ReadWindow
<1>4. Dequeue => frame' \in Frame /\ FrameOnly
  <2> SUFFICES ASSUME Dequeue PROVE frame' \in Frame
    BY DEF Dequeue
  <2>1. frame.window \in Windows
    BY DEF Dequeue, HookInv, Frame
  <2>2. geometry[frame.window] \in Sizes \cup {0} /\ dev.size \in Sizes \cup {0}
        /\ heap.size \in Sizes \cup {0}
    BY <2>1 DEF Dev, Heap
  <2>3. CASE frame' = [frame EXCEPT !.at = "copy", !.size = dev.size, !.heap = heap.size,
                                    !.room = geometry[frame.window]]
    BY <2>2, <2>3 DEF Frame
  <2>4. CASE FrameGoes("wait")
    BY <2>4 DEF FrameGoes, Frame
  <2> QED
    BY <2>3, <2>4 DEF Dequeue
<1> QED
  BY <1>1, <1>2, <1>3, <1>4 DEF FrameOnly

-----------------------------------------------------------------------------
(* The heap and the frame thread.                                           *)

\* What the frame thread keeps, until it ends.
LEMMA FrameStep ==
  ASSUME TypeInv, Deliver \/ Check \/ EnterHook \/ ReadWindow \/ Dequeue \/ EndCopy
  PROVE  /\ frame.at # "none" /\ frame'.at # "none" /\ frame'.terminate = frame.terminate
         /\ running \/ frame.at # "wait"
         /\ \/ frame.at \notin {"none", "wait"} /\ frame'.gen = frame.gen
            \/ frame'.gen = heap.gen
  BY DEF TypeInv, Frame, Deliver, Check, EnterHook, ReadWindow, Dequeue, EndCopy, FrameGoes

LEMMA HeapStep == TypeInv /\ HeapInv /\ Next => HeapInv'
<1> SUFFICES ASSUME TypeInv, HeapInv, Next PROVE HeapInv'
  OBVIOUS
<1>0. app \in App /\ frame \in Frame
  BY DEF TypeInv
<1>1. ASSUME UNCHANGED <<param, heap, frame, running>>, app'.at # "ops" PROVE HeapInv'
  BY <1>1 DEF HeapInv
<1>2. ASSUME NEW s \in Sizes, SetSize(s) PROVE HeapInv'
  BY <1>2, AppIdle DEF HeapInv, SetSize
<1>3. ASSUME NEW w \in Windows \cup {Null}, NEW next \in {"idle", "start"}, SetWindow(w, next)
      PROVE  HeapInv'
  <2>1. app'.at # "ops"
    BY <1>3 DEF SetWindow
  <2> QED
    BY <1>1, <1>3, <2>1 DEF SetWindow
<1>4. CASE WindowFails \/ SetOverlay \/ AlreadyRunning \/ ClearOverlay
  BY <1>0, <1>1, <1>4, AppReturns DEF WindowFails, SetOverlay, AlreadyRunning, ClearOverlay, App
<1>5. CASE SetGeometry \/ SetDevSize
  BY <1>0, <1>1, <1>5, AppGoes DEF SetGeometry, SetDevSize, Setting
<1>6. CASE Close \/ Reopen
  BY <1>1, <1>6, AppIdle DEF Close, Reopen
<1>7. CASE InitPreview
  <2>1. app'.at = "ops" /\ ~running' /\ param' = param
    BY <1>0, <1>7, AppGoes DEF InitPreview, Settled
  <2>2. frame'.at = "wait" /\ ~frame'.terminate
    BY <1>7 DEF InitPreview, NoFrame
  <2> QED
    BY <1>7, <2>1, <2>2, HeapMade DEF InitPreview, HeapInv
<1>8. CASE InitPreviewFails
  BY <1>0, <1>8, AppReturns DEF InitPreviewFails, HeapInv, App
<1>9. CASE StartOps
  BY <1>0, <1>9, AppReturns DEF StartOps, HeapInv, App
<1>10. CASE StartOpsFails
  <2>1. app.at = "ops" /\ app'.at = "no preview"
    BY <1>0, <1>10, AppGoes DEF StartOpsFails, Settled
  <2> QED
    BY <1>0, <1>10, <2>1 DEF StartOpsFails, HeapInv, Frame
<1>11. CASE StopPreview
  BY <1>0, <1>11, AppIdle DEF StopPreview, HeapInv, Frame
<1>12. CASE Deliver \/ Check \/ EnterHook \/ ReadWindow \/ Dequeue \/ EndCopy
  <2>1. FrameOnly
    BY <1>12 DEF Deliver, Check, EnterHook, ReadWindow, Dequeue, EndCopy
  <2> QED
    BY <1>12, <2>1, FrameStep DEF FrameOnly, HeapInv
<1>13. CASE FrameEnds
  BY <1>13, FrameMade DEF FrameEnds, HeapInv
<1> QED
  BY <1>2, <1>3, <1>4, <1>5, <1>6, <1>7, <1>8, <1>9, <1>10, <1>11, <1>12, <1>13 DEF Next

-----------------------------------------------------------------------------
(* The window.                                                              *)

\* What the frame thread and the heap do is no matter to the window.
FrameAction == Deliver \/ Check \/ EnterHook \/ ReadWindow \/ Dequeue \/ EndCopy \/ FrameEnds

LEMMA FrameKeeps ==
  ASSUME FrameAction
  PROVE  UNCHANGED <<dev, geometry, param, running, app, failed>>
  BY DEF FrameAction, Deliver, Check, EnterHook, ReadWindow, Dequeue, EndCopy, FrameEnds, FrameOnly

\* startPreview and stopPreview go from one settled place to another.
PreviewAction ==
  AlreadyRunning \/ InitPreview \/ InitPreviewFails \/ StartOps \/ StartOpsFails
    \/ ClearOverlay \/ StopPreview

LEMMA PreviewKeeps ==
  ASSUME TypeInv, SettingInv, PreviewAction
  PROVE  /\ UNCHANGED <<dev, geometry, param, failed>>
         /\ app.at \in Settled /\ app'.at \in Settled /\ app'.next = "idle"
         /\ running' => running \/ app.at = "ops"
         /\ app'.at \in {"start", "ops"} => app.at \in {"start", "ops"}
<1>0. app \in App
  BY DEF TypeInv
<1>1. CASE AlreadyRunning
  BY <1>0, <1>1, AppReturns DEF AlreadyRunning, SettingInv, Settled
<1>2. CASE InitPreview
  BY <1>0, <1>2, AppGoes DEF InitPreview, SettingInv, Settled
<1>3. CASE InitPreviewFails
  BY <1>0, <1>3, AppReturns DEF InitPreviewFails, SettingInv, Settled
<1>4. CASE StartOps
  BY <1>0, <1>4, AppReturns DEF StartOps, SettingInv, Settled
<1>5. CASE StartOpsFails
  BY <1>0, <1>5, AppGoes DEF StartOpsFails, SettingInv, Settled
<1>6. CASE ClearOverlay
  BY <1>0, <1>6, AppReturns DEF ClearOverlay, SettingInv, Settled
<1>7. CASE StopPreview
  BY <1>7, AppIdle DEF StopPreview, Settled
<1> QED
  BY <1>1, <1>2, <1>3, <1>4, <1>5, <1>6, <1>7 DEF PreviewAction

LEMMA SettingStep == TypeInv /\ SettingInv /\ Next => SettingInv'
<1> SUFFICES ASSUME TypeInv, SettingInv, Next PROVE SettingInv'
  OBVIOUS
<1>0. app \in App /\ dev \in Dev /\ geometry \in [Windows -> Sizes \cup {0}]
  BY DEF TypeInv
<1>1. ASSUME NEW s \in Sizes, SetSize(s) PROVE SettingInv'
  BY <1>1, AppIdle DEF SettingInv, SetSize
<1>2. ASSUME NEW w \in Windows \cup {Null}, NEW next \in {"idle", "start"}, SetWindow(w, next)
      PROVE  SettingInv'
  BY <1>0, <1>2 DEF SettingInv, SetWindow, Dev, Settled
<1>3. CASE WindowFails
  BY <1>0, <1>3, AppReturns DEF WindowFails, SettingInv, App
<1>4. CASE SetGeometry
  <2>1. app.at = "geometry" /\ app'.at = "size"
    BY <1>0, <1>4, AppGoes DEF SetGeometry, Setting
  <2>2. dev.window \in Windows
    BY <1>0, <2>1 DEF SettingInv, Dev
  <2> QED
    BY <1>0, <1>4, <2>1, <2>2 DEF SetGeometry, SettingInv, Settled
<1>5. CASE SetDevSize
  <2>1. app.at = "size" /\ app'.at = "overlay"
    BY <1>0, <1>5, AppGoes DEF SetDevSize, Setting
  <2> QED
    BY <1>0, <1>5, <2>1 DEF SetDevSize, SettingInv, Settled, Dev
<1>6. CASE SetOverlay
  BY <1>0, <1>6, AppReturns DEF SetOverlay, SettingInv, App
<1>7. CASE Close \/ Reopen
  BY <1>7, AppIdle, DevMade DEF Close, Reopen, SettingInv
<1>8. CASE PreviewAction
  <2>1. app'.at \notin Setting
    BY <1>8, PreviewKeeps DEF Setting, Settled
  <2> QED
    BY <1>8, <2>1, PreviewKeeps DEF SettingInv, Setting
<1>9. CASE FrameAction
  BY <1>9, FrameKeeps DEF SettingInv
<1> QED
  BY <1>1, <1>2, <1>3, <1>4, <1>5, <1>6, <1>7, <1>8, <1>9 DEF Next, PreviewAction, FrameAction

LEMMA WindowStep == TypeInv /\ HeapInv /\ SettingInv /\ WindowInv /\ Next => WindowInv'
<1> SUFFICES ASSUME TypeInv, HeapInv, SettingInv, WindowInv, Next PROVE WindowInv'
  OBVIOUS
<1>0. app \in App
  BY DEF TypeInv
<1>1. ASSUME NEW s \in Sizes, SetSize(s) PROVE WindowInv'
  BY <1>1, AppIdle DEF WindowInv, Fresh, SetSize
<1>2. ASSUME NEW w \in Windows \cup {Null}, NEW next \in {"idle", "start"}, SetWindow(w, next)
      PROVE  WindowInv'
  <2>1. app'.at \notin Settled
    BY <1>2 DEF SetWindow, Settled
  <2> QED
    BY <2>1 DEF WindowInv, Fresh
<1>3. CASE WindowFails
  BY <1>3 DEF WindowFails, WindowInv, Fresh
<1>4. CASE SetGeometry \/ SetDevSize
  <2>1. app'.at \notin Settled
    <3>1. app'.at \in {"size", "overlay"}
      BY <1>0, <1>4, AppGoes DEF SetGeometry, SetDevSize, Setting
    <3> QED
      BY <3>1 DEF Settled
  <2> QED
    BY <2>1 DEF WindowInv, Fresh
<1>5. CASE SetOverlay
  BY <1>0, <1>5, AppReturns DEF SetOverlay, SettingInv, WindowInv
<1>6. CASE Close \/ Reopen
  BY <1>6, DevMade DEF Close, Reopen, WindowInv
<1>7. CASE PreviewAction
  BY <1>7, PreviewKeeps DEF WindowInv, Fresh
<1>8. CASE FrameAction
  BY <1>8, FrameKeeps DEF WindowInv, Fresh
<1> QED
  BY <1>1, <1>2, <1>3, <1>4, <1>5, <1>6, <1>7, <1>8 DEF Next, PreviewAction, FrameAction

-----------------------------------------------------------------------------
(* The hook.                                                                *)

\* A step of a call that leaves the window as it was, or starts to set it, or
\* exchanges the overlay when no frame is on its way.
LEMMA HookSame ==
  ASSUME HookInv,
         \/ UNCHANGED frame
         \/ frame'.at = frame.at /\ frame'.window = frame.window
              /\ frame'.room = frame.room /\ frame'.size = frame.size
         \/ frame'.at \in {"none", "wait", "got", "checked", "hook"},
         \/ (Fresh' => Fresh) /\ UNCHANGED <<dev>>
         \/ ~Fresh' \/ OverlayFree
  PROVE  HookInv'
  BY DEF HookInv, OverlayFree

LEMMA HookStep == TypeInv /\ SettingInv /\ WindowInv /\ HookInv /\ Next => HookInv'
<1> SUFFICES ASSUME TypeInv, SettingInv, WindowInv, HookInv, Next PROVE HookInv'
  OBVIOUS
<1>0. app \in App /\ frame \in Frame /\ dev \in Dev
  BY DEF TypeInv
<1>1. ASSUME NEW s \in Sizes, SetSize(s) PROVE HookInv'
  BY <1>1, HookSame DEF SetSize, Fresh
<1>2. ASSUME NEW w \in Windows \cup {Null}, NEW next \in {"idle", "start"}, SetWindow(w, next)
      PROVE  HookInv'
  <2>1. app'.at \notin Settled
    BY <1>2 DEF SetWindow, Settled
  <2> QED
    BY <1>2, <2>1, HookSame DEF SetWindow, Fresh
<1>3. CASE WindowFails
  BY <1>3, HookSame DEF WindowFails, Fresh
<1>4. CASE SetGeometry \/ SetDevSize
  <2>1. app'.at \notin Settled
    <3>1. app'.at \in {"size", "overlay"}
      BY <1>0, <1>4, AppGoes DEF SetGeometry, SetDevSize, Setting
    <3> QED
      BY <3>1 DEF Settled
  <2> QED
    BY <1>4, <2>1, HookSame DEF SetGeometry, SetDevSize, Fresh
<1>5. CASE SetOverlay
  BY <1>5, HookSame DEF SetOverlay
<1>6. CASE Close
  <2>1. Fresh /\ dev.window = Null
    BY <1>6, AppIdle DEF Close, Fresh, Settled
  <2>2. frame.at \notin {"dequeue", "copy"}
    BY <2>1 DEF HookInv
  <2> QED
    BY <1>6, <2>2 DEF Close, HookInv
<1>7. CASE Reopen
  BY <1>7 DEF Reopen, HookInv
<1>8. CASE PreviewAction
  <2>1. UNCHANGED dev /\ (Fresh' => Fresh)
    BY <1>8, PreviewKeeps DEF Fresh
  <2>2. \/ UNCHANGED frame \/ frame'.at = "wait"
        \/ frame'.at = frame.at /\ frame'.window = frame.window
             /\ frame'.room = frame.room /\ frame'.size = frame.size
    BY <1>0, <1>8 DEF PreviewAction, AlreadyRunning, InitPreview, InitPreviewFails, StartOps,
       StartOpsFails, ClearOverlay, StopPreview, Frame, NoFrame
  <2> QED
    BY <2>1, <2>2, HookSame
<1>9. CASE FrameAction
  <2>0. UNCHANGED <<dev, app, failed>>
    BY <1>9, FrameKeeps
  <2>1. CASE Deliver \/ Check \/ EnterHook \/ EndCopy
    <3>1. frame'.at \in {"wait", "got", "checked", "hook"}
      BY <1>0, <2>1 DEF Deliver, Check, EnterHook, EndCopy, FrameGoes, Frame
    <3> QED
      BY <3>1 DEF HookInv
  <2>2. CASE ReadWindow
    BY <1>0, <2>0, <2>2 DEF ReadWindow, HookInv, Fresh, Frame
  <2>3. CASE Dequeue
    <3>1. CASE FrameGoes("wait")
      BY <1>0, <3>1 DEF FrameGoes, HookInv, Frame
    <3>2. CASE frame' = [frame EXCEPT !.at = "copy", !.size = dev.size, !.heap = heap.size,
                                      !.room = geometry[frame.window]]
      <4>1. /\ frame'.at = "copy" /\ frame'.window = frame.window /\ frame'.size = dev.size
            /\ frame'.room = geometry[frame.window] /\ frame.at = "dequeue"
        BY <1>0, <2>3, <3>2 DEF Frame, Dequeue
      <4> QED
        BY <2>0, <4>1 DEF HookInv, WindowInv, Fresh
    <3> QED
      BY <2>3, <3>1, <3>2 DEF Dequeue
  <2>4. CASE FrameEnds
    BY <2>4, FrameMade DEF FrameEnds, HookInv
  <2> QED
    BY <1>9, <2>1, <2>2, <2>3, <2>4 DEF FrameAction
<1> QED
  BY <1>1, <1>2, <1>3, <1>4, <1>5, <1>6, <1>7, <1>8, <1>9 DEF Next, PreviewAction, FrameAction

-----------------------------------------------------------------------------

LEMMA IInvInit == Init => IInv
<1> SUFFICES ASSUME Init PROVE IInv
  OBVIOUS
<1>1. app.at = "idle" /\ app.next = "idle" /\ frame.at = "none" /\ dev.window = Null
  BY AppIdle, FrameMade, DevMade DEF Init
<1> QED
  BY <1>1, TypeInit DEF IInv, Init, HeapInv, SettingInv, WindowInv, HookInv

LEMMA IInvStep == IInv /\ [Next]_vars => IInv'
<1>1. IInv /\ Next => IInv'
  BY TypeWindow, TypePreview, TypeFrame, HeapStep, SettingStep, WindowStep, HookStep DEF IInv, Next
<1>2. IInv /\ UNCHANGED vars => IInv'
  BY DEF IInv, vars, TypeInv, HeapInv, SettingInv, WindowInv, HookInv, Fresh
<1> QED
  BY <1>1, <1>2

\* The inductive invariant: the parts above.
THEOREM PreviewInvariant == Spec => []IInv
  BY IInvInit, IInvStep, PTL DEF Spec

LEMMA CopyFollows == IInv => CopySound
<1> SUFFICES ASSUME IInv, frame.at = "copy", Fresh
             PROVE  /\ dev.open /\ frame.window = dev.window /\ frame.room = frame.size
                    /\ running => frame.gen = heap.gen /\ heap.live /\ frame.size = heap.size
  BY DEF CopySound, Fresh, Settled
<1>1. frame.window = dev.window /\ dev.window # Null /\ frame.room = dev.size
        /\ frame.size = dev.size
  BY DEF IInv, HookInv
<1>2. dev.open
  BY <1>1 DEF IInv, SettingInv
<1>3. running => frame.gen = heap.gen /\ heap.live /\ heap.size = dev.size
  BY <1>1 DEF IInv, HeapInv, WindowInv
<1> QED
  BY <1>1, <1>2, <1>3

\* Whatever windows and sizes are set while frames are shown, a frame that is
\* copied after set_preview_window has returned fits where it goes.
THEOREM CopiesFit == Spec => []CopySound
  BY PreviewInvariant, CopyFollows, PTL

=============================================================================
