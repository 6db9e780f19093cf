-------------------------- MODULE CameraRecordProofs --------------------------
(***************************************************************************)
(* Proofs about CameraRecord, for any buffers and video threads.           *)
(***************************************************************************)
EXTENDS CameraRecord, FiniteSetTheorems, SequenceTheorems, TLAPS

Video == [at : {"none", "check", "wait", "woken", "got", "rcb"}, buf : Buffers \cup {NoBuffer}]

\* Types, of the threads, the queues and the rest.
ThreadsOK ==
  /\ video \in [Threads -> Video]
  /\ \A t \in Threads : video[t].at = "got" => video[t].buf \in Buffers
  /\ \A t \in Threads : video[t].at \notin {"got", "rcb"} => video[t].buf = NoBuffer

QueuesOK ==
  /\ driver \subseteq Buffers /\ busy \in Seq(Buffers)
  /\ free \in [Buffers -> 0 .. MaxCopies] /\ flag \in [Buffers -> BOOLEAN]

OthersOK ==
  /\ cam \in Cam /\ live \in Live
  /\ app \in {"idle", "restart", "init", "initrec", "fill", "fillrec", "drain", "dangling",
              "thread", "signal"}
  /\ frame \in BOOLEAN /\ heap \in BOOLEAN /\ overlap \in BOOLEAN

TypeInv == ThreadsOK /\ QueuesOK /\ OthersOK

\* What is going on with the preview: the heap is there while it runs, and a
\* video thread that lives without it has been told to exit.
PreviewInv ==
  /\ app \in {"init", "initrec", "fill", "fillrec"} => ~cam.mCameraRunning /\ ~frame
  /\ app \in {"fill", "fillrec"} => heap
  /\ app \in {"drain", "dangling", "thread"} => cam.mCameraRunning
  /\ cam.mCameraRunning => heap
  /\ cam.mCameraRunning \/ cam.mVideoThreadExit \/ Alive = {}

\* When the free queue is filled nothing is busy or tracked, and a video thread
\* that lives overlaps.
InitInv ==
  app \in {"fill", "fillrec"} =>
    busy = <<>> /\ (overlap \/ (Alive = {} /\ \A b \in Buffers : ~flag[b]))

LiveInv == live.shot => live.state = "IN_PROGRESS" /\ (live.heap \/ live.cut)

IsBusy(b) == \E i \in 1 .. Len(busy) : busy[i] = b
Held(b) == \E t \in Threads : video[t].buf = b

\* The places of a buffer exclude one another, and it is not twice in one.
PlaceInv ==
  ~overlap =>
    /\ \A b \in driver : free[b] = 0 /\ ~IsBusy(b) /\ ~Held(b)
    /\ \A b \in Buffers : free[b] = 0 \/ (free[b] = 1 /\ ~IsBusy(b) /\ ~Held(b))
    /\ \A b \in Buffers : IsBusy(b) => ~Held(b)
    /\ \A i, j \in 1 .. Len(busy) : busy[i] = busy[j] => i = j
    /\ \A t, u \in Threads : video[t].buf = video[u].buf /\ video[t].buf # NoBuffer => t = u
    /\ \A b \in Buffers : flag[b] => b \notin driver /\ free[b] = 0 /\ ~IsBusy(b)

IInv == TypeInv /\ PreviewInv /\ InitInv /\ LiveInv /\ PlaceInv

-----------------------------------------------------------------------------
(* Queues and threads.                                                      *)

LEMMA SignalKeeps ==
  ASSUME TypeInv, Signal
  PROVE  /\ video' \in [Threads -> Video]
         /\ \A t \in Threads :
              /\ video'[t].buf = video[t].buf
              /\ video'[t].at = video[t].at \/ (video[t].at = "wait" /\ video'[t].at = "woken")
<1>1. CASE UNCHANGED video
  BY <1>1 DEF TypeInv, ThreadsOK, QueuesOK, OthersOK
<1>2. ASSUME NEW t \in Waiting, video' = [video EXCEPT ![t].at = "woken"]
      PROVE  /\ video' \in [Threads -> Video]
             /\ \A u \in Threads :
                  /\ video'[u].buf = video[u].buf
                  /\ video'[u].at = video[u].at \/ (video[u].at = "wait" /\ video'[u].at = "woken")
  BY <1>2 DEF TypeInv, Waiting, Video, ThreadsOK, QueuesOK, OthersOK
<1> QED
  BY <1>1, <1>2 DEF Signal

LEMMA FreedKeeps ==
  ASSUME NEW f \in [Buffers -> 0 .. MaxCopies], NEW bs
  PROVE  /\ Freed(f, bs) \in [Buffers -> 0 .. MaxCopies]
         /\ \A b \in Buffers : b \in bs /\ f[b] = 0 => Freed(f, bs)[b] = 1
         /\ \A b \in Buffers : b \notin bs => Freed(f, bs)[b] = f[b]
  BY DEF Freed, MaxCopies

\* What the queue is like without its head.
LEMMA TailKeeps ==
  ASSUME busy \in Seq(Buffers), busy # <<>>, busy' = Tail(busy)
  PROVE  /\ busy' \in Seq(Buffers) /\ Head(busy) \in Buffers /\ IsBusy(Head(busy))
         /\ \A b : IsBusy(b)' => IsBusy(b)
         /\ (\A i, j \in 1 .. Len(busy) : busy[i] = busy[j] => i = j)
              => /\ \A i, j \in 1 .. Len(busy') : busy'[i] = busy'[j] => i = j
                 /\ ~ \E i \in 1 .. Len(busy') : busy'[i] = Head(busy)
<1>1. /\ Len(busy) \in Nat /\ Len(busy) >= 1 /\ Len(busy') = Len(busy) - 1
      /\ \A i \in 1 .. Len(busy') : busy'[i] = busy[i + 1]
      /\ busy' \in Seq(Buffers) /\ Head(busy) = busy[1]
  OBVIOUS
<1>2. \A i \in 1 .. Len(busy') : i + 1 \in 1 .. Len(busy)
  BY <1>1
<1>3. 1 \in 1 .. Len(busy)
  BY <1>1
<1>4. Head(busy) \in Buffers /\ IsBusy(Head(busy))
  BY <1>1, <1>3 DEF IsBusy
<1>5. \A b : IsBusy(b)' => IsBusy(b)
  BY <1>1, <1>2 DEF IsBusy
<1>6. ASSUME \A i, j \in 1 .. Len(busy) : busy[i] = busy[j] => i = j
      PROVE  /\ \A i, j \in 1 .. Len(busy') : busy'[i] = busy'[j] => i = j
             /\ ~ \E i \in 1 .. Len(busy') : busy'[i] = Head(busy)
  <2>1. ASSUME NEW i \in 1 .. Len(busy'), NEW j \in 1 .. Len(busy'), busy'[i] = busy'[j]
        PROVE  i = j
    <3>1. i + 1 = j + 1
      BY <1>1, <1>2, <1>6, <2>1
    <3> QED
      BY <3>1
  <2>2. ASSUME NEW i \in 1 .. Len(busy'), busy'[i] = Head(busy) PROVE FALSE
    <3>1. i + 1 = 1
      BY <1>1, <1>2, <1>3, <1>6, <2>2
    <3> QED
      BY <1>1, <3>1
  <2> QED
    BY <2>1, <2>2
<1> QED
  BY <1>1, <1>4, <1>5, <1>6

\* What it is like with a buffer more.
LEMMA AppendKeeps ==
  ASSUME busy \in Seq(Buffers), NEW b \in Buffers, busy' = Append(busy, b)
  PROVE  /\ busy' \in Seq(Buffers)
         /\ \A c : IsBusy(c)' => IsBusy(c) \/ c = b
         /\ (\A i, j \in 1 .. Len(busy) : busy[i] = busy[j] => i = j) /\ ~IsBusy(b)
              => \A i, j \in 1 .. Len(busy') : busy'[i] = busy'[j] => i = j
<1>1. /\ Len(busy) \in Nat /\ Len(busy') = Len(busy) + 1 /\ busy' \in Seq(Buffers)
      /\ \A i \in 1 .. Len(busy) : busy'[i] = busy[i]
      /\ busy'[Len(busy) + 1] = b
  OBVIOUS
<1>2. \A i \in 1 .. Len(busy') : i \in 1 .. Len(busy) \/ i = Len(busy) + 1
  BY <1>1
<1>3. \A c : IsBusy(c)' => IsBusy(c) \/ c = b
  BY <1>1, <1>2 DEF IsBusy
<1>4. ASSUME \A i, j \in 1 .. Len(busy) : busy[i] = busy[j] => i = j, ~IsBusy(b)
      PROVE  \A i, j \in 1 .. Len(busy') : busy'[i] = busy'[j] => i = j
  BY <1>1, <1>2, <1>4 DEF IsBusy
<1> QED
  BY <1>1, <1>3, <1>4

\* With nothing in it.
LEMMA EmptyKeeps ==
  ASSUME busy' = <<>>
  PROVE  busy' \in Seq(Buffers) /\ Len(busy') = 0 /\ \A b : ~IsBusy(b)'
  BY DEF IsBusy

LEMMA NoneType == None \in Video /\ None.at = "none" /\ None.buf = NoBuffer
  BY DEF None, Video

-----------------------------------------------------------------------------
(* Types.                                                                   *)

LEMMA EmptiedType == Emptied \in [Buffers -> 0 .. MaxCopies] /\ \A b \in Buffers : Emptied[b] = 0
  BY DEF Emptied, MaxCopies

LEMMA TypeInit == Init => TypeInv
<1> SUFFICES ASSUME Init PROVE TypeInv
  OBVIOUS
<1>1. cam \in Cam /\ live \in Live
  BY DEF Init, Cam, Live
<1>2. free \in [Buffers -> 0 .. MaxCopies] /\ flag \in [Buffers -> BOOLEAN]
  BY DEF Init, MaxCopies
<1>3. ThreadsOK
  BY NoneType DEF Init, ThreadsOK
<1>4. QueuesOK
  BY <1>2, EmptySeq DEF Init, QueuesOK
<1>5. OthersOK
  BY <1>1 DEF Init, OthersOK
<1> QED
  BY <1>3, <1>4, <1>5 DEF TypeInv

\* The threads, whatever becomes of them.
LEMMA ThreadsSignal == TypeInv /\ (Signal \/ UNCHANGED video) => ThreadsOK'
<1>1. ASSUME TypeInv, Signal PROVE ThreadsOK'
  BY <1>1, SignalKeeps DEF TypeInv, ThreadsOK, QueuesOK, OthersOK
<1> QED
  BY <1>1 DEF TypeInv, ThreadsOK, QueuesOK, OthersOK

LEMMA ThreadsGo ==
  ASSUME TypeInv, NEW t \in Threads, NEW at \in {"check", "wait", "woken"},
         video[t].at \in {"check", "wait", "woken"}, video' = [video EXCEPT ![t].at = at]
  PROVE  ThreadsOK'
  BY DEF TypeInv, ThreadsOK, Video, QueuesOK, OthersOK

LEMMA ThreadsSet ==
  ASSUME TypeInv, NEW t \in Threads, NEW v \in Video, video' = [video EXCEPT ![t] = v],
         v.at = "got" => v.buf \in Buffers, v.at \notin {"got", "rcb"} => v.buf = NoBuffer
  PROVE  ThreadsOK'
  BY DEF TypeInv, ThreadsOK, QueuesOK, OthersOK

LEMMA ThreadsTake ==
  ASSUME TypeInv, NEW t \in Threads, video[t].at \in {"check", "woken"}, Take(t)
  PROVE  ThreadsOK' /\ busy' \in Seq(Buffers)
<1>1. CASE busy = <<>>
  BY <1>1, ThreadsGo DEF Take, TypeInv, ThreadsOK, QueuesOK, OthersOK
<1>2. CASE busy # <<>>
  <2>1. Head(busy) \in Buffers /\ busy' \in Seq(Buffers)
    BY <1>2, TailKeeps DEF Take, TypeInv, ThreadsOK, QueuesOK, OthersOK
  <2>2. [at |-> "got", buf |-> Head(busy)] \in Video
    BY <2>1 DEF Video
  <2> QED
    BY <1>2, <2>1, <2>2, ThreadsSet DEF Take
<1> QED
  BY <1>1, <1>2

LEMMA TypePreview ==
  ASSUME TypeInv,
         StartPreview \/ NewHeap \/ FillFree \/ StopPreview \/ FrameThreadEnds \/ PreviewMsg
         \/ Post
  PROVE  TypeInv'
<1>1. CASE StartPreview
  BY <1>1 DEF TypeInv, OthersOK, StartPreview, InitPreview, ThreadsOK, QueuesOK, queues
<1>2. CASE NewHeap
  <2>1. CASE heap' \in {heap, FALSE} /\ app' = "idle"
             /\ UNCHANGED <<cam, frame, driver, free, flag, video, overlap, busy, live>>
    BY <2>1 DEF TypeInv, ThreadsOK, QueuesOK, OthersOK
  <2>2. CASE /\ heap' = TRUE /\ busy' = <<>>
             /\ flag' = [b \in Buffers |-> FALSE]
             /\ video' = [t \in Threads |-> IF video[t].at = "rcb"
                                            THEN [video[t] EXCEPT !.buf = NoBuffer] ELSE video[t]]
             /\ overlap' = (overlap \/ Alive # {})
             /\ app' = IF app = "init" THEN "fill" ELSE "fillrec"
             /\ UNCHANGED <<cam, frame, driver, free, live>>
    <3>1. ThreadsOK'
      BY <2>2 DEF TypeInv, ThreadsOK, Video, QueuesOK, OthersOK
    <3>2. QueuesOK'
      BY <2>2, EmptyKeeps DEF TypeInv, QueuesOK
    <3>3. OthersOK'
      BY <2>2 DEF TypeInv, OthersOK
    <3> QED
      BY <3>1, <3>2, <3>3 DEF TypeInv
  <2> QED
    BY <1>2, <2>1, <2>2 DEF NewHeap
<1>2a. CASE FillFree
  <2>1. PICK thread \in BOOLEAN, started \in BOOLEAN, vpe \in BOOLEAN :
          /\ frame' = thread
          /\ driver' = IF started THEN Active ELSE {}
          /\ cam' = [cam EXCEPT !.mCameraRunning = started, !.recordingState = @ \/ vpe]
          /\ app' = IF vpe THEN "drain" ELSE "idle"
    BY <1>2a DEF FillFree
  <2>2. ThreadsOK'
    BY <1>2a DEF FillFree, TypeInv, ThreadsOK
  <2>3. QueuesOK'
    BY <1>2a, <2>1, EmptiedType, FreedKeeps, RecordAssumption DEF FillFree, TypeInv, QueuesOK
  <2>4. cam' \in Cam
    BY <2>1 DEF TypeInv, OthersOK, Cam
  <2>5. OthersOK'
    BY <1>2a, <2>1, <2>4 DEF FillFree, TypeInv, OthersOK
  <2> QED
    BY <2>2, <2>3, <2>5 DEF TypeInv
<1>3. CASE StopPreview
  <2>1. ThreadsOK'
    BY <1>3, ThreadsSignal DEF StopPreview
  <2>2. QueuesOK'
    BY <1>3, EmptyKeeps, EmptiedType DEF TypeInv, QueuesOK, StopPreview, ThreadsOK, OthersOK
  <2>3. OthersOK'
    BY <1>3 DEF TypeInv, OthersOK, StopPreview, Cam, ThreadsOK, QueuesOK
  <2> QED
    BY <2>1, <2>2, <2>3 DEF TypeInv
<1>4. CASE FrameThreadEnds
  BY <1>4 DEF TypeInv, FrameThreadEnds, queues, ThreadsOK, QueuesOK, OthersOK
<1>5. CASE PreviewMsg
  BY <1>5 DEF TypeInv, PreviewMsg, queues, Cam, ThreadsOK, QueuesOK, OthersOK
<1>6. CASE Post
  <2>1. ThreadsOK'
    BY <1>6, ThreadsSignal DEF Post
  <2>2. PICK b \in driver :
          /\ \/ \E f \in {x \in Buffers : free[x] > 0} :
                  driver' = (driver \ {b}) \cup {f} /\ free' = [free EXCEPT ![f] = @ - 1]
             \/ driver' = driver \ {b} /\ UNCHANGED free
          /\ busy' = Append(busy, b) \/ UNCHANGED busy
    BY <1>6 DEF Post
  <2>3. b \in Buffers
    BY DEF TypeInv, QueuesOK
  <2>4. busy' \in Seq(Buffers)
    BY <2>2, <2>3, AppendKeeps DEF TypeInv, QueuesOK
  <2>4a. driver' \subseteq Buffers /\ free' \in [Buffers -> 0 .. MaxCopies]
    BY <2>2 DEF TypeInv, QueuesOK, MaxCopies
  <2>5. QueuesOK'
    BY <1>6, <2>4, <2>4a DEF TypeInv, QueuesOK, Post, ThreadsOK, OthersOK
  <2>6. OthersOK'
    BY <1>6 DEF TypeInv, OthersOK, Post, ThreadsOK, QueuesOK
  <2> QED
    BY <2>1, <2>5, <2>6 DEF TypeInv
<1> QED
  BY <1>1, <1>2, <1>2a, <1>3, <1>4, <1>5, <1>6

LEMMA TypeRecording ==
  ASSUME TypeInv, StartRecording \/ Drain \/ Dangling \/ StartVideoThread \/ StopRecording
                  \/ StopSignal \/ TakeLiveSnapshot \/ ReceiveLiveSnapshot
  PROVE  TypeInv'
<1>1. CASE StartRecording
  <2>1. cam' \in Cam /\ app' \in {"idle", "initrec", "drain"}
    BY <1>1 DEF TypeInv, OthersOK, StartRecording, InitPreview, Cam
  <2> QED
    BY <1>1, <2>1 DEF TypeInv, OthersOK, StartRecording, ThreadsOK, QueuesOK, queues
<1>2. CASE Drain
  <2>1. busy' \in Seq(Buffers)
    BY <1>2, TailKeeps DEF TypeInv, Drain, ThreadsOK, QueuesOK, OthersOK
  <2>2. free' \in [Buffers -> 0 .. MaxCopies]
    BY <1>2, FreedKeeps DEF TypeInv, Drain, ThreadsOK, QueuesOK, OthersOK
  <2> QED
    BY <1>2, <2>1, <2>2 DEF TypeInv, Drain, ThreadsOK, QueuesOK, OthersOK
<1>3. CASE Dangling
  <2>1. free' \in [Buffers -> 0 .. MaxCopies]
    BY <1>3, FreedKeeps DEF TypeInv, Dangling, ThreadsOK, QueuesOK, OthersOK
  <2> QED
    BY <1>3, <2>1 DEF TypeInv, Dangling, ThreadsOK, QueuesOK, OthersOK
<1>4. CASE StartVideoThread
  <2>1. [at |-> "check", buf |-> NoBuffer] \in Video
    BY DEF Video
  <2>2. ThreadsOK'
    <3>1. ASSUME NEW t \in Threads, video' = [video EXCEPT ![t] = [at |-> "check", buf |-> NoBuffer]]
          PROVE  ThreadsOK'
      BY <2>1, <3>1, ThreadsSet
    <3> QED
      BY <1>4, <3>1, ThreadsSignal DEF StartVideoThread
  <2>3. OthersOK'
    BY <1>4 DEF TypeInv, OthersOK, StartVideoThread, Cam, ThreadsOK, QueuesOK
  <2>4. QueuesOK'
    BY <1>4 DEF TypeInv, QueuesOK, StartVideoThread, queues, ThreadsOK, OthersOK
  <2> QED
    BY <2>2, <2>3, <2>4 DEF TypeInv
<1>5. CASE StopRecording
  <2>1. cam' \in Cam /\ app' \in {"idle", "restart", "signal"}
    BY <1>5 DEF TypeInv, StopRecording, Back, Cam, ThreadsOK, QueuesOK, OthersOK
  <2> QED
    BY <1>5, <2>1 DEF TypeInv, StopRecording, queues, ThreadsOK, QueuesOK, OthersOK
<1>6. CASE StopSignal
  <2>1. ThreadsOK'
    BY <1>6, ThreadsSignal DEF StopSignal
  <2>2. OthersOK'
    BY <1>6 DEF TypeInv, OthersOK, StopSignal, Back, Cam, Live, ThreadsOK, QueuesOK
  <2>3. QueuesOK'
    BY <1>6 DEF TypeInv, QueuesOK, StopSignal, queues, ThreadsOK, OthersOK
  <2> QED
    BY <2>1, <2>2, <2>3 DEF TypeInv
<1>7. CASE TakeLiveSnapshot
  <2>1. live' \in Live
    BY <1>7 DEF TypeInv, TakeLiveSnapshot, Shoot, Live, ThreadsOK, QueuesOK, OthersOK
  <2> QED
    BY <1>7, <2>1 DEF TypeInv, TakeLiveSnapshot, queues, ThreadsOK, QueuesOK, OthersOK
<1>8. CASE ReceiveLiveSnapshot
  BY <1>8 DEF TypeInv, ReceiveLiveSnapshot, queues, Live, ThreadsOK, QueuesOK, OthersOK
<1> QED
  BY <1>1, <1>2, <1>3, <1>4, <1>5, <1>6, <1>7, <1>8

LEMMA TypeVideo ==
  ASSUME TypeInv, NEW t \in Threads, VideoStep(t) \/ WakesUp(t)
  PROVE  TypeInv'
<1>0. [at |-> "check", buf |-> NoBuffer] \in Video
  BY DEF Video
<1>1. CASE Exit(t)
  <2>1. ThreadsOK'
    BY <1>1, NoneType, ThreadsSet DEF Exit
  <2> QED
    BY <1>1, <2>1 DEF QueuesOK, OthersOK, Exit, queues, Cam, TypeInv, ThreadsOK
<1>2. CASE Check(t) \/ Woken(t)
  <2>1. ThreadsOK' /\ busy' \in Seq(Buffers)
    <3>1. CASE busy = <<>> /\ video' = [video EXCEPT ![t].at = "wait"] /\ UNCHANGED busy
      BY <1>2, <3>1, ThreadsGo DEF Check, Woken, TypeInv, ThreadsOK, QueuesOK, OthersOK
    <3>2. CASE Take(t)
      BY <1>2, <3>2, ThreadsTake DEF Check, Woken
    <3> QED
      BY <1>2, <3>1, <3>2 DEF Check, Woken
  <2> QED
    BY <1>2, <2>1 DEF QueuesOK, OthersOK, Check, Woken, TypeInv, ThreadsOK
<1>3. CASE Deliver(t)
  <2>1. video[t] \in Video /\ video[t].buf \in Buffers
    BY <1>3 DEF TypeInv, Deliver, ThreadsOK, QueuesOK, OthersOK
  <2>2. [video[t] EXCEPT !.at = "rcb"] \in Video
    BY <2>1 DEF Video
  <2>3. ThreadsOK'
    <3>1. CASE video' = [video EXCEPT ![t].at = "rcb"]
      <4>1. video' = [video EXCEPT ![t] = [video[t] EXCEPT !.at = "rcb"]]
        BY <3>1
      <4>2. [video[t] EXCEPT !.at = "rcb"].at = "rcb"
        BY <2>1 DEF Video
      <4> QED
        BY <2>2, <4>1, <4>2, ThreadsSet
    <3>2. CASE video' = [video EXCEPT ![t] = [at |-> "check", buf |-> NoBuffer]]
      BY <1>0, <3>2, ThreadsSet
    <3> QED
      BY <1>3, <3>1, <3>2 DEF Deliver
  <2>4. flag' \in [Buffers -> BOOLEAN]
    BY <1>3, <2>1 DEF Deliver, TypeInv, ThreadsOK, QueuesOK, OthersOK
  <2> QED
    BY <1>3, <2>3, <2>4 DEF QueuesOK, OthersOK, Deliver, TypeInv, ThreadsOK
<1>4. CASE Release(t)
  <2>1. ThreadsOK'
    BY <1>0, <1>4, ThreadsSet DEF Release
  <2>2. free' \in [Buffers -> 0 .. MaxCopies] /\ flag' \in [Buffers -> BOOLEAN]
    <3> DEFINE b == video[t].buf
    <3>1. \/ flag' = [flag EXCEPT ![b] = FALSE] /\ free' = Freed(free, {b})
          \/ UNCHANGED <<flag, free>>
      BY <1>4 DEF Release
    <3> HIDE DEF b
    <3>2. Freed(free, {b}) \in [Buffers -> 0 .. MaxCopies]
      BY FreedKeeps DEF TypeInv, QueuesOK
    <3>3. [flag EXCEPT ![b] = FALSE] \in [Buffers -> BOOLEAN]
      BY DEF TypeInv, QueuesOK
    <3> QED
      BY <3>1, <3>2, <3>3 DEF TypeInv, QueuesOK
  <2> QED
    BY <1>4, <2>1, <2>2 DEF QueuesOK, OthersOK, Release, TypeInv, ThreadsOK
<1>5. CASE WakesUp(t)
  <2>1. ThreadsOK'
    BY <1>5, ThreadsGo DEF WakesUp
  <2> QED
    BY <1>5, <2>1 DEF QueuesOK, OthersOK, WakesUp, queues, TypeInv, ThreadsOK
<1> QED
  BY <1>1, <1>2, <1>3, <1>4, <1>5 DEF VideoStep

LEMMA TypeStep == TypeInv /\ [Next]_vars => TypeInv'
<1>1. TypeInv /\ UNCHANGED vars => TypeInv'
  BY DEF TypeInv, vars, ThreadsOK, QueuesOK, OthersOK
<1> QED
  BY <1>1, TypePreview, TypeRecording, TypeVideo DEF Next, Call, AppStep, Restart

-----------------------------------------------------------------------------
(* The preview and the live snapshot.                                       *)

LEMMA PreviewStep == TypeInv /\ PreviewInv /\ [Next]_vars => PreviewInv'
<1> SUFFICES ASSUME TypeInv, PreviewInv, [Next]_vars PROVE PreviewInv'
  OBVIOUS
<1> USE DEF PreviewInv
<1>c. /\ cam \in Cam
      /\ app \in {"idle", "restart", "init", "initrec", "fill", "fillrec", "drain", "dangling",
                  "thread", "signal"}
  BY DEF TypeInv, OthersOK
<1>1. ASSUME Signal \/ UNCHANGED video PROVE Alive' = Alive
  <2>1. \A t \in Threads : video'[t].at = "none" <=> video[t].at = "none"
    BY <1>1, SignalKeeps
  <2> QED
    BY <2>1 DEF Alive
<1>2. CASE UNCHANGED vars \/ PreviewMsg \/ FrameThreadEnds \/ TakeLiveSnapshot \/ ReceiveLiveSnapshot
           \/ StartPreview \/ StartRecording \/ Drain \/ Dangling
  <2>1. /\ Alive' = Alive /\ cam'.mCameraRunning = cam.mCameraRunning
        /\ cam'.mVideoThreadExit = cam.mVideoThreadExit
    BY <1>1, <1>2, <1>c DEF vars, PreviewMsg, FrameThreadEnds, TakeLiveSnapshot, ReceiveLiveSnapshot,
       StartPreview, StartRecording, Drain, Dangling, Cam
  <2>2. /\ app' \in {"init", "initrec", "fill", "fillrec"} => ~cam.mCameraRunning /\ ~frame'
        /\ app' \in {"fill", "fillrec"} => heap'
        /\ app' \in {"drain", "dangling", "thread"} => cam.mCameraRunning
        /\ cam.mCameraRunning => heap'
    <3>1. CASE StartRecording
      BY <3>1, <1>c DEF StartRecording, InitPreview
    <3>2. CASE StartPreview
      BY <3>2, <1>c DEF StartPreview, InitPreview
    <3>3. CASE FrameThreadEnds
      BY <3>3, <1>c DEF FrameThreadEnds
    <3>4. CASE Drain \/ Dangling
      BY <3>4, <1>c DEF Drain, Dangling
    <3>5. CASE UNCHANGED <<app, cam, frame, heap>>
      BY <3>5
    <3>6. CASE PreviewMsg
      BY <3>6, <1>c DEF PreviewMsg
    <3> QED
      BY <1>2, <3>1, <3>2, <3>3, <3>4, <3>5, <3>6 DEF vars, TakeLiveSnapshot, ReceiveLiveSnapshot
  <2> QED
    BY <2>1, <2>2
<1>3. CASE NewHeap
  <2>1. \A t \in Threads : video'[t].at = video[t].at
    <3>1. \/ UNCHANGED video
          \/ video' = [t \in Threads |-> IF video[t].at = "rcb"
                                         THEN [video[t] EXCEPT !.buf = NoBuffer] ELSE video[t]]
      BY <1>3 DEF NewHeap
    <3>2. video \in [Threads -> Video]
      BY DEF TypeInv, ThreadsOK
    <3> QED
      BY <3>1, <3>2 DEF Video
  <2>2. Alive' = Alive
    BY <2>1 DEF Alive
  <2> QED
    BY <1>3, <1>c, <2>2 DEF NewHeap
<1>3a. CASE FillFree
  <2>1. PICK thread \in BOOLEAN, started \in BOOLEAN, vpe \in BOOLEAN :
          /\ vpe => started
          /\ cam' = [cam EXCEPT !.mCameraRunning = started, !.recordingState = @ \/ vpe]
          /\ app' = IF vpe THEN "drain" ELSE "idle"
    BY <1>3a DEF FillFree
  <2>2. /\ cam'.mCameraRunning = started /\ cam'.mVideoThreadExit = cam.mVideoThreadExit
        /\ ~cam.mCameraRunning /\ heap
    BY <1>3a, <1>c, <2>1 DEF FillFree, Cam
  <2>3. UNCHANGED <<heap, video>>
    BY <1>3a DEF FillFree
  <2>4. Alive' = Alive
    BY <1>1, <2>3
  <2> QED
    BY <2>1, <2>2, <2>3, <2>4
<1>4. CASE StopPreview
  BY <1>4, <1>c DEF StopPreview, Cam
<1>5. CASE Post
  BY <1>1, <1>5 DEF Post
<1>6. CASE StartVideoThread
  <2>1. cam.mCameraRunning /\ cam'.mCameraRunning /\ app' = "idle"
    BY <1>6, <1>c DEF StartVideoThread, Cam
  <2> QED
    BY <1>6, <2>1 DEF StartVideoThread
<1>7. CASE StopRecording
  <2>1. /\ cam'.mCameraRunning = cam.mCameraRunning
        /\ cam.mVideoThreadExit => cam'.mVideoThreadExit
        /\ app' \in {"idle", "restart", "signal"} /\ UNCHANGED <<heap, video>>
    BY <1>7, <1>c DEF StopRecording, Back, Cam
  <2>2. Alive' = Alive
    BY <1>1, <2>1
  <2> QED
    BY <2>1, <2>2
<1>8. CASE StopSignal
  <2>1. /\ cam'.mCameraRunning = cam.mCameraRunning
        /\ cam'.mVideoThreadExit = cam.mVideoThreadExit
        /\ app' \in {"idle", "restart"} /\ UNCHANGED heap
    BY <1>8, <1>c DEF StopSignal, Back, Cam
  <2>2. Alive' = Alive
    BY <1>1, <1>8 DEF StopSignal
  <2> QED
    BY <2>1, <2>2
<1>9. ASSUME NEW t \in Threads, VideoStep(t) \/ WakesUp(t) PROVE PreviewInv'
  <2>1. /\ cam'.mCameraRunning = cam.mCameraRunning
        /\ cam'.mVideoThreadExit = cam.mVideoThreadExit /\ UNCHANGED <<app, frame, heap>>
    BY <1>9, <1>c DEF VideoStep, Exit, Check, Woken, Deliver, Release, WakesUp, Cam
  <2>2. video[t].at # "none" /\ \A u \in Threads \ {t} : video'[u] = video[u]
    BY <1>9 DEF VideoStep, Exit, Check, Woken, Deliver, Release, WakesUp, Take, TypeInv, ThreadsOK
  <2>3. Alive # {}
    BY <2>2 DEF Alive
  <2> QED
    BY <2>1, <2>3
<1> QED
  BY <1>2, <1>3, <1>3a, <1>4, <1>5, <1>6, <1>7, <1>8, <1>9 DEF Next, Call, AppStep, Restart

LEMMA InitStep == TypeInv /\ PreviewInv /\ InitInv /\ [Next]_vars => InitInv'
<1> SUFFICES ASSUME TypeInv, PreviewInv, InitInv, [Next]_vars PROVE InitInv'
  OBVIOUS
<1>0. ASSUME Signal \/ UNCHANGED video PROVE Alive' = Alive
  <2>1. \A t \in Threads : video'[t].at = "none" <=> video[t].at = "none"
    BY <1>0, SignalKeeps
  <2> QED
    BY <2>1 DEF Alive
<1>1. CASE UNCHANGED <<app, busy, flag, video, overlap>>
  BY <1>0, <1>1 DEF InitInv
<1>2. CASE StartPreview \/ StartRecording
  BY <1>2 DEF InitInv, StartPreview, StartRecording, InitPreview
<1>3. CASE NewHeap
  <2>1. CASE app' = "idle"
    BY <2>1 DEF InitInv
  <2>2. CASE busy' = <<>> /\ overlap' = (overlap \/ Alive # {})
             /\ flag' = [b \in Buffers |-> FALSE]
             /\ video' = [t \in Threads |-> IF video[t].at = "rcb"
                                            THEN [video[t] EXCEPT !.buf = NoBuffer] ELSE video[t]]
    <3>1. \A t \in Threads : video'[t].at = video[t].at
      BY <2>2 DEF TypeInv, ThreadsOK, Video
    <3> QED
      BY <2>2, <3>1 DEF InitInv, Alive
  <2> QED
    BY <1>3, <2>1, <2>2 DEF NewHeap
<1>4. CASE FillFree \/ StopPreview \/ Drain \/ Dangling \/ StartVideoThread
  BY <1>4 DEF InitInv, FillFree, StopPreview, Drain, Dangling, StartVideoThread
<1>5. CASE StopRecording \/ StopSignal
  BY <1>5 DEF InitInv, StopRecording, StopSignal, Back, queues
<1>6. CASE Post
  BY <1>6 DEF InitInv, Post, PreviewInv
<1>7. PreviewMsg \/ TakeLiveSnapshot \/ ReceiveLiveSnapshot \/ FrameThreadEnds
        => UNCHANGED <<app, busy, flag, video, overlap>>
  BY DEF PreviewMsg, TakeLiveSnapshot, ReceiveLiveSnapshot, FrameThreadEnds, queues
<1>8. ASSUME NEW t \in Threads, VideoStep(t) \/ WakesUp(t) PROVE InitInv'
  <2>1. UNCHANGED <<app, overlap>> /\ (busy = <<>> => busy' = <<>>)
    BY <1>8 DEF VideoStep, Exit, Check, Woken, Deliver, Release, WakesUp, Take, queues
  <2>2. Alive # {}
    BY <1>8 DEF VideoStep, Exit, Check, Woken, Deliver, Release, WakesUp, Alive
  <2> QED
    BY <2>1, <2>2 DEF InitInv
<1> QED
  BY <1>1, <1>2, <1>3, <1>4, <1>5, <1>6, <1>7, <1>8 DEF Next, Call, AppStep, Restart, vars

LEMMA LiveStep == TypeInv /\ LiveInv /\ [Next]_vars => LiveInv'
<1> SUFFICES ASSUME TypeInv, LiveInv, [Next]_vars PROVE LiveInv'
  OBVIOUS
<1>c. live \in Live
  BY DEF TypeInv, OthersOK
<1>1. CASE UNCHANGED live
  BY <1>1 DEF LiveInv
<1>2. CASE StopSignal
  BY <1>2, <1>c DEF LiveInv, StopSignal, Live
<1>3. CASE TakeLiveSnapshot
  BY <1>3, <1>c DEF LiveInv, TakeLiveSnapshot, Shoot, Live
<1>4. CASE ReceiveLiveSnapshot
  BY <1>4 DEF LiveInv, ReceiveLiveSnapshot
<1>5. StartPreview \/ StopPreview \/ PreviewMsg \/ StartRecording \/ StopRecording => UNCHANGED live
  BY DEF StartPreview, StopPreview, PreviewMsg, StartRecording, StopRecording
<1>6. NewHeap \/ FillFree \/ Drain \/ Dangling \/ StartVideoThread \/ Post \/ FrameThreadEnds
        => UNCHANGED live
  BY DEF NewHeap, FillFree, Drain, Dangling, StartVideoThread, Post, FrameThreadEnds
<1>7. \A t \in Threads : VideoStep(t) \/ WakesUp(t) => UNCHANGED live
  BY DEF VideoStep, Exit, Check, Woken, Deliver, Release, WakesUp
<1> QED
  BY <1>1, <1>2, <1>3, <1>4, <1>5, <1>6, <1>7 DEF Next, Call, AppStep, Restart, vars

-----------------------------------------------------------------------------
(* The places.                                                              *)

\* Buffers that leave a place go nowhere else.
LEMMA PlaceLess ==
  ASSUME TypeInv, PlaceInv, overlap' = overlap, driver' \subseteq driver,
         \A b \in Buffers : free'[b] = free[b] \/ free'[b] = 0,
         busy' = busy \/ busy' = <<>>,
         \A b \in Buffers : flag'[b] => flag[b],
         \A t \in Threads : video'[t].buf = video[t].buf \/ video'[t].buf = NoBuffer
  PROVE  PlaceInv'
<1> SUFFICES ASSUME ~overlap PROVE PlaceInv'
  BY DEF PlaceInv
<1>1. \A b \in Buffers : Held(b)' => Held(b)
  BY RecordAssumption DEF Held
<1>2. \A b : IsBusy(b)' => IsBusy(b)
  BY EmptyKeeps DEF IsBusy
<1>3. driver \subseteq Buffers
  BY DEF TypeInv, QueuesOK
<1>4. \A i, j \in 1 .. Len(busy') : busy'[i] = busy'[j] => i = j
  <2>1. CASE busy' = busy
    BY <2>1 DEF PlaceInv
  <2>2. CASE busy' = <<>>
    BY <2>2, EmptyKeeps
  <2> QED
    BY <2>1, <2>2
<1>5. \A t, u \in Threads : video'[t].buf = video'[u].buf /\ video'[t].buf # NoBuffer => t = u
  BY DEF PlaceInv
<1>6. \A b \in driver' : free'[b] = 0 /\ ~IsBusy(b)' /\ ~Held(b)'
  BY <1>1, <1>2, <1>3 DEF PlaceInv
<1>7. \A b \in Buffers : free'[b] = 0 \/ (free'[b] = 1 /\ ~IsBusy(b)' /\ ~Held(b)')
  BY <1>1, <1>2 DEF PlaceInv
<1>8. \A b \in Buffers : IsBusy(b)' => ~Held(b)'
  BY <1>1, <1>2 DEF PlaceInv
<1>9. \A b \in Buffers : flag'[b] => b \notin driver' /\ free'[b] = 0 /\ ~IsBusy(b)'
  BY <1>2 DEF PlaceInv
<1> QED
  BY <1>4, <1>5, <1>6, <1>7, <1>8, <1>9 DEF PlaceInv

\* Buffers are handed out anew; without a video thread nobody holds one.
LEMMA NobodyHolds == TypeInv /\ Alive = {} => \A t \in Threads : video[t].buf = NoBuffer
  BY DEF TypeInv, ThreadsOK, Alive

LEMMA PlaceNewHeap == TypeInv /\ PlaceInv /\ NewHeap => PlaceInv'
<1> SUFFICES ASSUME TypeInv, PlaceInv, NewHeap, ~overlap' PROVE PlaceInv'
  BY DEF PlaceInv
<1>0. ~overlap /\ overlap' = overlap
  <2>1. CASE overlap' = (overlap \/ Alive # {})
    <3>1. ~overlap
      BY <2>1, Zenon
    <3>2. overlap = FALSE /\ overlap' = FALSE
      BY <2>1, <3>1 DEF TypeInv, OthersOK
    <3> QED
      BY <3>2
  <2>2. CASE UNCHANGED overlap
    BY <2>2, Zenon
  <2> QED
    BY <2>1, <2>2 DEF NewHeap
<1>1. UNCHANGED <<driver, free>>
  BY DEF NewHeap
<1>2. busy' = busy \/ busy' = <<>>
  BY DEF NewHeap
<1>3. \A b \in Buffers : flag'[b] => flag[b]
  BY DEF NewHeap
<1>4. \A t \in Threads : video'[t].buf = video[t].buf \/ video'[t].buf = NoBuffer
  BY DEF NewHeap, TypeInv, ThreadsOK, Video
<1> QED
  BY <1>0, <1>1, <1>2, <1>3, <1>4, PlaceLess

LEMMA PlaceFill == TypeInv /\ InitInv /\ PlaceInv /\ FillFree => PlaceInv'
<1>a. FillFree => overlap' = overlap
  BY DEF FillFree
<1> SUFFICES ASSUME TypeInv, InitInv, PlaceInv, FillFree, ~overlap PROVE PlaceInv'
  BY <1>a DEF PlaceInv
<1>1. PICK started \in BOOLEAN : driver' = IF started THEN Active ELSE {}
  BY DEF FillFree
<1>2. UNCHANGED <<busy, flag, video>> /\ busy = <<>> /\ Alive = {}
  BY DEF FillFree, InitInv
<1>3. \A b \in Buffers : ~IsBusy(b)' /\ ~Held(b)'
  <2>1. \A t \in Threads : video'[t].buf = NoBuffer
    BY <1>2, NobodyHolds
  <2> QED
    BY <1>2, <2>1, EmptyKeeps, RecordAssumption DEF Held
<1>4. \A t \in Threads : video'[t].buf = NoBuffer
  BY <1>2, NobodyHolds
<1>5. \A b \in Buffers : /\ b \in Active => free'[b] = 0
                         /\ b \notin Active => free'[b] = 1
  BY EmptiedType, FreedKeeps DEF FillFree
<1>6. \A b \in Buffers : flag'[b] => b \notin driver' /\ free'[b] = 0 /\ ~IsBusy(b)'
  BY <1>2 DEF InitInv, FillFree
<1>7. \A i, j \in 1 .. Len(busy') : busy'[i] = busy'[j] => i = j
  BY <1>2, EmptyKeeps
<1> QED
  BY <1>1, <1>3, <1>4, <1>5, <1>6, <1>7, RecordAssumption DEF PlaceInv

\* The threads hold the same buffers, or one has let its own go.
LEMMA PlaceThreads ==
  ASSUME TypeInv, PlaceInv, overlap' = overlap, UNCHANGED <<driver, free, flag>>,
         busy' = busy \/ busy' = <<>>,
         \/ Signal \/ UNCHANGED video
         \/ \E t \in Threads, v \in Video : v.buf = NoBuffer /\ video' = [video EXCEPT ![t] = v]
         \/ \E t \in Threads, at \in {"check", "wait", "woken", "rcb"} :
              video' = [video EXCEPT ![t].at = at]
  PROVE  PlaceInv'
<1>1. \A t \in Threads : video'[t].buf = video[t].buf \/ video'[t].buf = NoBuffer
  <2>1. CASE Signal
    BY <2>1, SignalKeeps
  <2>2. video \in [Threads -> Video]
    BY DEF TypeInv, ThreadsOK
  <2>3. CASE \E t \in Threads, at \in {"check", "wait", "woken", "rcb"} :
               video' = [video EXCEPT ![t].at = at]
    BY <2>2, <2>3 DEF Video
  <2> QED
    BY <2>1, <2>2, <2>3
<1> QED
  BY <1>1, PlaceLess

LEMMA PlaceApp ==
  ASSUME TypeInv, PlaceInv,
         StartPreview \/ StopPreview \/ PreviewMsg \/ FrameThreadEnds \/ StartRecording
         \/ StopRecording \/ StopSignal \/ StartVideoThread \/ TakeLiveSnapshot
         \/ ReceiveLiveSnapshot \/ UNCHANGED vars
  PROVE  PlaceInv'
<1>1. CASE StopPreview
  <2>1. \A t \in Threads : video'[t].buf = video[t].buf
    BY <1>1, SignalKeeps DEF StopPreview
  <2> QED
    BY <1>1, <2>1, EmptiedType, PlaceLess DEF StopPreview
<1>2. CASE StartVideoThread
  <2>1. [at |-> "check", buf |-> NoBuffer] \in Video
    BY DEF Video
  <2> QED
    BY <1>2, <2>1, PlaceThreads DEF StartVideoThread, queues
<1>3. CASE StopSignal
  BY <1>3, PlaceThreads DEF StopSignal, queues
<1>4. CASE StartPreview \/ StartRecording
  BY <1>4, PlaceThreads DEF StartPreview, StartRecording, InitPreview, queues
<1>5. CASE PreviewMsg \/ FrameThreadEnds \/ StopRecording \/ TakeLiveSnapshot
           \/ ReceiveLiveSnapshot \/ UNCHANGED vars
  BY <1>5, PlaceThreads DEF PreviewMsg, FrameThreadEnds, StopRecording, TakeLiveSnapshot,
     ReceiveLiveSnapshot, vars, queues
<1> QED
  BY <1>1, <1>2, <1>3, <1>4, <1>5

\* The driver gives a buffer to the queue and is given a free one.
LEMMA PlacePost == TypeInv /\ PlaceInv /\ Post => PlaceInv'
<1>a. Post => overlap' = overlap
  BY DEF Post
<1> SUFFICES ASSUME TypeInv, PlaceInv, Post, ~overlap PROVE PlaceInv'
  BY <1>a DEF PlaceInv
<1>0. PICK b \in driver :
        /\ \/ \E f \in {x \in Buffers : free[x] > 0} :
                driver' = (driver \ {b}) \cup {f} /\ free' = [free EXCEPT ![f] = @ - 1]
           \/ driver' = driver \ {b} /\ UNCHANGED free
        /\ busy' = Append(busy, b) \/ busy' = busy
  BY DEF Post
<1>1. /\ b \in Buffers /\ free[b] = 0 /\ ~IsBusy(b) /\ ~Held(b) /\ ~flag[b]
      /\ \A c \in driver : c \in Buffers
  BY DEF TypeInv, QueuesOK, PlaceInv
<1>2. \A c : IsBusy(c)' => IsBusy(c) \/ c = b
  BY <1>0, <1>1, AppendKeeps DEF TypeInv, QueuesOK, IsBusy
<1>3. \A i, j \in 1 .. Len(busy') : busy'[i] = busy'[j] => i = j
  <2>1. \A i, j \in 1 .. Len(busy) : busy[i] = busy[j] => i = j
    BY DEF PlaceInv
  <2>2. CASE busy' = Append(busy, b)
    BY <1>1, <2>1, <2>2, AppendKeeps DEF TypeInv, QueuesOK
  <2> QED
    BY <1>0, <2>1, <2>2
<1>4. \A t \in Threads : video'[t].buf = video[t].buf
  BY SignalKeeps DEF Post
<1>5. \A c : Held(c)' => Held(c)
  BY <1>4 DEF Held
<1>6. \A t, u \in Threads : video'[t].buf = video'[u].buf /\ video'[t].buf # NoBuffer => t = u
  BY <1>4 DEF PlaceInv
<1>7. UNCHANGED flag
  BY DEF Post
\* With or without a buffer in exchange: what the driver has now it had, but for
\* b, or was free and is not any more.
<1>8. /\ \A c \in driver' : c \in Buffers /\ c # b /\ free'[c] = 0
                            /\ ~IsBusy(c) /\ ~Held(c) /\ ~flag[c]
      /\ \A c \in Buffers : free'[c] = free[c] \/ free'[c] = 0
  <2>1. CASE driver' = driver \ {b} /\ UNCHANGED free
    BY <1>1, <2>1 DEF PlaceInv
  <2>2. ASSUME NEW f \in {x \in Buffers : free[x] > 0},
               driver' = (driver \ {b}) \cup {f}, free' = [free EXCEPT ![f] = @ - 1]
        PROVE  /\ \A c \in driver' : c \in Buffers /\ c # b /\ free'[c] = 0
                                     /\ ~IsBusy(c) /\ ~Held(c) /\ ~flag[c]
               /\ \A c \in Buffers : free'[c] = free[c] \/ free'[c] = 0
    <3>1. f \in Buffers /\ free[f] = 1 /\ ~IsBusy(f) /\ ~Held(f) /\ ~flag[f] /\ f # b
      BY <1>1, <2>2 DEF TypeInv, QueuesOK, PlaceInv
    <3>2. free'[f] = 0 /\ \A c \in Buffers : c # f => free'[c] = free[c]
      BY <2>2, <3>1 DEF TypeInv, QueuesOK
    <3>3. \A c \in driver : free[c] = 0 /\ ~IsBusy(c) /\ ~Held(c) /\ ~flag[c]
      BY <1>1 DEF PlaceInv
    <3> QED
      BY <1>1, <2>2, <3>1, <3>2, <3>3
  <2> QED
    BY <1>0, <2>1, <2>2
<1>9. free'[b] = 0
  BY <1>1, <1>8
<1>10. \A c \in driver' : free'[c] = 0 /\ ~IsBusy(c)' /\ ~Held(c)'
  BY <1>2, <1>5, <1>8
<1>11. \A c \in Buffers : free'[c] = 0 \/ (free'[c] = 1 /\ ~IsBusy(c)' /\ ~Held(c)')
  BY <1>2, <1>5, <1>8, <1>9 DEF PlaceInv
<1>12. \A c \in Buffers : IsBusy(c)' => ~Held(c)'
  BY <1>1, <1>2, <1>5 DEF PlaceInv
<1>13. \A c \in Buffers : flag'[c] => c \notin driver' /\ free'[c] = 0 /\ ~IsBusy(c)'
  BY <1>1, <1>2, <1>7, <1>8 DEF PlaceInv
<1> QED
  BY <1>3, <1>6, <1>10, <1>11, <1>12, <1>13 DEF PlaceInv

\* What is known of the head of the busy queue, and of the queue without it.
LEMMA PlaceHead ==
  ASSUME TypeInv, PlaceInv, ~overlap, busy # <<>>, busy' = Tail(busy), NEW h, h = Head(busy)
  PROVE  /\ h \in Buffers /\ IsBusy(h) /\ \A b : IsBusy(b)' => IsBusy(b)
         /\ \A i, j \in 1 .. Len(busy') : busy'[i] = busy'[j] => i = j
         /\ ~IsBusy(h)'
         /\ free[h] = 0 /\ h \notin driver /\ ~Held(h) /\ ~flag[h] /\ h # NoBuffer
<1>1. busy \in Seq(Buffers) /\ \A i, j \in 1 .. Len(busy) : busy[i] = busy[j] => i = j
  BY DEF TypeInv, QueuesOK, PlaceInv
<1>2. h \in Buffers /\ IsBusy(h) /\ \A b : IsBusy(b)' => IsBusy(b)
  BY <1>1, TailKeeps
<1>3. /\ \A i, j \in 1 .. Len(busy') : busy'[i] = busy'[j] => i = j
      /\ ~ \E i \in 1 .. Len(busy') : busy'[i] = h
  BY <1>1, TailKeeps
<1>4. ~IsBusy(h)'
  BY <1>3 DEF IsBusy
<1>5. free[h] = 0 /\ h \notin driver /\ ~Held(h) /\ ~flag[h] /\ h # NoBuffer
  BY <1>2, RecordAssumption DEF PlaceInv
<1> QED
  BY <1>2, <1>3, <1>4, <1>5

\* What is left in the busy queue goes back to the free queue.
LEMMA PlaceDrain == TypeInv /\ PlaceInv /\ Drain => PlaceInv'
<1>a. Drain => overlap' = overlap /\ UNCHANGED <<driver, flag, video>>
  BY DEF Drain
<1> SUFFICES ASSUME TypeInv, PlaceInv, Drain, ~overlap PROVE PlaceInv'
  BY <1>a DEF PlaceInv
<1>1. CASE UNCHANGED <<free, busy>>
  BY <1>1, <1>a, PlaceThreads
<1>2. CASE busy # <<>> /\ free' = Freed(free, {Head(busy)}) /\ busy' = Tail(busy)
  <2>0. PICK h : h = Head(busy)
    OBVIOUS
  <2>1. /\ h \in Buffers /\ IsBusy(h) /\ \A b : IsBusy(b)' => IsBusy(b)
        /\ \A i, j \in 1 .. Len(busy') : busy'[i] = busy'[j] => i = j
        /\ ~IsBusy(h)'
    BY <1>2, <2>0, PlaceHead
  <2>2. free[h] = 0 /\ h \notin driver /\ ~Held(h) /\ ~flag[h]
    BY <1>2, <2>0, PlaceHead
  <2>3. free'[h] = 1 /\ \A b \in Buffers : b # h => free'[b] = free[b]
    <3>1. free \in [Buffers -> 0 .. MaxCopies] /\ free' = Freed(free, {h})
      BY <1>2, <2>0 DEF TypeInv, QueuesOK
    <3>2. \A b \in Buffers : b \in {h} <=> b = h
      OBVIOUS
    <3> QED
      BY <2>1, <2>2, <3>1, <3>2, FreedKeeps
  <2>4. \A b : Held(b)' => Held(b)
    BY <1>a DEF Held
  <2>5. \A b \in driver' : free'[b] = 0 /\ ~IsBusy(b)' /\ ~Held(b)'
    BY <1>a, <2>1, <2>2, <2>3, <2>4 DEF PlaceInv, TypeInv, QueuesOK
  <2>6. \A b \in Buffers : free'[b] = 0 \/ (free'[b] = 1 /\ ~IsBusy(b)' /\ ~Held(b)')
    BY <2>1, <2>2, <2>3, <2>4 DEF PlaceInv
  <2>7. \A b \in Buffers : IsBusy(b)' => ~Held(b)'
    BY <2>1, <2>4 DEF PlaceInv
  <2>8. \A b \in Buffers : flag'[b] => b \notin driver' /\ free'[b] = 0 /\ ~IsBusy(b)'
    BY <1>a, <2>1, <2>2, <2>3 DEF PlaceInv
  <2>9. \A t, u \in Threads : video'[t].buf = video'[u].buf /\ video'[t].buf # NoBuffer => t = u
    BY <1>a DEF PlaceInv
  <2> QED
    BY <2>1, <2>5, <2>6, <2>7, <2>8, <2>9 DEF PlaceInv
<1> QED
  BY <1>1, <1>2, <1>a DEF Drain

\* Tracked buffers go back to the free queue; no video thread has one.
LEMMA PlaceDangling == TypeInv /\ PlaceInv /\ Dangling => PlaceInv'
<1>a. Dangling => overlap' = (overlap \/ Alive # {}) /\ UNCHANGED <<driver, busy, video>>
  BY DEF Dangling
<1> SUFFICES ASSUME TypeInv, PlaceInv, Dangling, ~overlap, Alive = {} PROVE PlaceInv'
  BY <1>a DEF PlaceInv
<1>1. \A b \in Buffers : ~Held(b)'
  BY <1>a, NobodyHolds, RecordAssumption DEF Held
<1>2. \A b \in Buffers : IsBusy(b)' <=> IsBusy(b)
  BY <1>a DEF IsBusy
<1>3. \A b \in Buffers : /\ ~flag'[b]
                         /\ flag[b] => free'[b] = 1
                         /\ ~flag[b] => free'[b] = free[b]
  <2> DEFINE bs == {b \in Buffers : flag[b]}
  <2>1. free' = Freed(free, bs) /\ flag' = [b \in Buffers |-> FALSE]
    BY DEF Dangling
  <2>2. \A b \in Buffers : b \in bs <=> flag[b]
    OBVIOUS
  <2>3. \A b \in Buffers : flag[b] => free[b] = 0
    BY DEF PlaceInv
  <2> HIDE DEF bs
  <2>4. free \in [Buffers -> 0 .. MaxCopies]
    BY DEF TypeInv, QueuesOK
  <2> QED
    BY <2>1, <2>2, <2>3, <2>4, FreedKeeps
<1>4. \A b \in driver' : free'[b] = 0 /\ ~IsBusy(b)' /\ ~Held(b)'
  BY <1>a, <1>1, <1>2, <1>3 DEF PlaceInv, TypeInv, QueuesOK
<1>5. \A b \in Buffers : free'[b] = 0 \/ (free'[b] = 1 /\ ~IsBusy(b)' /\ ~Held(b)')
  BY <1>1, <1>2, <1>3 DEF PlaceInv
<1>6. \A i, j \in 1 .. Len(busy') : busy'[i] = busy'[j] => i = j
  BY <1>a DEF PlaceInv
<1>7. \A t, u \in Threads : video'[t].buf = video'[u].buf /\ video'[t].buf # NoBuffer => t = u
  BY <1>a DEF PlaceInv
<1>8. \A b \in Buffers : flag'[b] => b \notin driver' /\ free'[b] = 0 /\ ~IsBusy(b)'
  BY <1>3
<1> QED
  BY <1>1, <1>4, <1>5, <1>6, <1>7, <1>8 DEF PlaceInv

\* A video thread takes the head of the busy queue.
LEMMA PlaceTake ==
  ASSUME TypeInv, PlaceInv, NEW t \in Threads, video[t].at \in {"check", "woken"}, Take(t),
         UNCHANGED <<driver, free, flag, overlap>>
  PROVE  PlaceInv'
<1> SUFFICES ASSUME ~overlap PROVE PlaceInv'
  BY DEF PlaceInv
<1>1. CASE busy = <<>>
  BY <1>1, PlaceThreads DEF Take
<1>2. CASE busy # <<>>
  <2>0. PICK h : h = Head(busy)
    OBVIOUS
  <2>1. /\ h \in Buffers /\ IsBusy(h) /\ \A b : IsBusy(b)' => IsBusy(b)
        /\ \A i, j \in 1 .. Len(busy') : busy'[i] = busy'[j] => i = j
        /\ ~IsBusy(h)'
    BY <1>2, <2>0, PlaceHead DEF Take
  <2>2. free[h] = 0 /\ h \notin driver /\ ~Held(h) /\ ~flag[h] /\ h # NoBuffer
    BY <1>2, <2>0, PlaceHead DEF Take
  <2>3. video'[t].buf = h /\ \A u \in Threads : u # t => video'[u] = video[u]
    BY <1>2, <2>0 DEF Take, TypeInv, ThreadsOK, Video
  <2>4. \A b : Held(b)' => Held(b) \/ b = h
    BY <2>3 DEF Held
  <2>5. \A b \in driver' : free'[b] = 0 /\ ~IsBusy(b)' /\ ~Held(b)'
    BY <2>1, <2>2, <2>4 DEF PlaceInv
  <2>6. \A b \in Buffers : free'[b] = 0 \/ (free'[b] = 1 /\ ~IsBusy(b)' /\ ~Held(b)')
    BY <2>1, <2>2, <2>4 DEF PlaceInv
  <2>7. \A b \in Buffers : IsBusy(b)' => ~Held(b)'
    BY <2>1, <2>4 DEF PlaceInv
  <2>8. \A b \in Buffers : flag'[b] => b \notin driver' /\ free'[b] = 0 /\ ~IsBusy(b)'
    BY <2>1 DEF PlaceInv
  <2>9. \A x, y \in Threads : video'[x].buf = video'[y].buf /\ video'[x].buf # NoBuffer => x = y
    BY <2>2, <2>3 DEF PlaceInv, Held
  <2> QED
    BY <2>1, <2>5, <2>6, <2>7, <2>8, <2>9 DEF PlaceInv
<1> QED
  BY <1>1, <1>2

\* A buffer that a video thread holds is tracked.
LEMMA PlaceDeliver ==
  ASSUME TypeInv, PlaceInv, NEW t \in Threads, Deliver(t)
  PROVE  PlaceInv'
<1>a. UNCHANGED <<driver, free, busy, overlap>>
  BY DEF Deliver
<1> SUFFICES ASSUME ~overlap PROVE PlaceInv'
  BY <1>a DEF PlaceInv
<1>1. PICK h \in Buffers : video[t].buf = h
  BY DEF TypeInv, ThreadsOK, Deliver
<1>2. Held(h) /\ free[h] = 0 /\ h \notin driver /\ ~IsBusy(h)
  BY <1>1 DEF Held, PlaceInv
<1>3. \A u \in Threads : video'[u].buf = video[u].buf \/ video'[u].buf = NoBuffer
  BY DEF Deliver, TypeInv, ThreadsOK, Video
<1>4. flag' = [flag EXCEPT ![h] = TRUE]
  BY <1>1 DEF Deliver
<1>5. \A b \in Buffers : flag'[b] => flag[b] \/ b = h
  BY <1>4 DEF TypeInv, QueuesOK
<1>6. \A b \in Buffers : Held(b)' => Held(b)
  BY <1>3, RecordAssumption DEF Held
<1>7. \A b : IsBusy(b)' <=> IsBusy(b)
  BY <1>a DEF IsBusy
<1>8. \A b \in driver' : free'[b] = 0 /\ ~IsBusy(b)' /\ ~Held(b)'
  BY <1>a, <1>6, <1>7 DEF PlaceInv, TypeInv, QueuesOK
<1>9. \A b \in Buffers : free'[b] = 0 \/ (free'[b] = 1 /\ ~IsBusy(b)' /\ ~Held(b)')
  BY <1>a, <1>6, <1>7 DEF PlaceInv
<1>10. \A b \in Buffers : IsBusy(b)' => ~Held(b)'
  BY <1>6, <1>7 DEF PlaceInv
<1>11. \A i, j \in 1 .. Len(busy') : busy'[i] = busy'[j] => i = j
  BY <1>a DEF PlaceInv
<1>12. \A x, y \in Threads : video'[x].buf = video'[y].buf /\ video'[x].buf # NoBuffer => x = y
  BY <1>3 DEF PlaceInv
<1>13. \A b \in Buffers : flag'[b] => b \notin driver' /\ free'[b] = 0 /\ ~IsBusy(b)'
  BY <1>a, <1>2, <1>5, <1>7 DEF PlaceInv
<1> QED
  BY <1>8, <1>9, <1>10, <1>11, <1>12, <1>13 DEF PlaceInv

\* A buffer that the encoder has done with is not tracked, and is free.
LEMMA PlaceRelease ==
  ASSUME TypeInv, PlaceInv, NEW t \in Threads, Release(t)
  PROVE  PlaceInv'
<1>a. UNCHANGED <<driver, busy, overlap>>
  BY DEF Release
<1>b. [at |-> "check", buf |-> NoBuffer] \in Video
  BY DEF Video
<1> SUFFICES ASSUME ~overlap PROVE PlaceInv'
  BY <1>a DEF PlaceInv
<1>1. CASE UNCHANGED <<flag, free>>
  BY <1>1, <1>a, <1>b, PlaceThreads DEF Release
<1>2. ASSUME NEW h \in Buffers, video[t].buf = h,
             flag' = [flag EXCEPT ![h] = FALSE], free' = Freed(free, {h})
      PROVE  PlaceInv'
  <2>1. Held(h) /\ free[h] = 0 /\ h \notin driver /\ ~IsBusy(h) /\ h # NoBuffer
    BY <1>2, RecordAssumption DEF Held, PlaceInv
  <2>2. free'[h] = 1 /\ \A b \in Buffers : b # h => free'[b] = free[b]
    <3>1. free \in [Buffers -> 0 .. MaxCopies]
      BY DEF TypeInv, QueuesOK
    <3>2. \A b \in Buffers : b \in {h} <=> b = h
      OBVIOUS
    <3> QED
      BY <1>2, <2>1, <3>1, <3>2, FreedKeeps
  <2>3. video'[t].buf = NoBuffer /\ \A u \in Threads : u # t => video'[u] = video[u]
    BY DEF Release, TypeInv, ThreadsOK
  <2>4. \A b \in Buffers : Held(b)' => Held(b)
    BY <2>3, RecordAssumption DEF Held
  <2>5. ~Held(h)'
    BY <1>2, <2>1, <2>3 DEF Held, PlaceInv
  <2>6. \A b \in Buffers : flag'[b] => flag[b] /\ b # h
    BY <1>2 DEF TypeInv, QueuesOK
  <2>7. \A b : IsBusy(b)' <=> IsBusy(b)
    BY <1>a DEF IsBusy
  <2>8. \A b \in driver' : free'[b] = 0 /\ ~IsBusy(b)' /\ ~Held(b)'
    BY <1>a, <2>1, <2>2, <2>4, <2>7 DEF PlaceInv, TypeInv, QueuesOK
  <2>9. \A b \in Buffers : free'[b] = 0 \/ (free'[b] = 1 /\ ~IsBusy(b)' /\ ~Held(b)')
    BY <2>1, <2>2, <2>4, <2>5, <2>7 DEF PlaceInv
  <2>10. \A b \in Buffers : IsBusy(b)' => ~Held(b)'
    BY <2>4, <2>7 DEF PlaceInv
  <2>11. \A i, j \in 1 .. Len(busy') : busy'[i] = busy'[j] => i = j
    BY <1>a DEF PlaceInv
  <2>12. \A x, y \in Threads : video'[x].buf = video'[y].buf /\ video'[x].buf # NoBuffer => x = y
    BY <2>3 DEF PlaceInv
  <2>13. \A b \in Buffers : flag'[b] => b \notin driver' /\ free'[b] = 0 /\ ~IsBusy(b)'
    BY <1>a, <2>2, <2>6, <2>7 DEF PlaceInv
  <2> QED
    BY <2>8, <2>9, <2>10, <2>11, <2>12, <2>13 DEF PlaceInv
<1> QED
  BY <1>1, <1>2 DEF Release

LEMMA PlaceVideo ==
  ASSUME TypeInv, PlaceInv, NEW t \in Threads, VideoStep(t) \/ WakesUp(t)
  PROVE  PlaceInv'
<1>1. CASE Exit(t)
  BY <1>1, NoneType, PlaceThreads DEF Exit, queues
<1>2. CASE Check(t)
  <2>1. CASE busy = <<>>
    BY <1>2, <2>1, PlaceThreads DEF Check
  <2>2. CASE busy # <<>>
    BY <1>2, <2>2, PlaceTake DEF Check
  <2> QED
    BY <2>1, <2>2
<1>3. CASE Woken(t)
  BY <1>3, PlaceTake DEF Woken
<1>4. CASE WakesUp(t)
  BY <1>4, PlaceThreads DEF WakesUp, queues
<1> QED
  BY <1>1, <1>2, <1>3, <1>4, PlaceDeliver, PlaceRelease DEF VideoStep

LEMMA PlaceStep == TypeInv /\ InitInv /\ PlaceInv /\ [Next]_vars => PlaceInv'
  BY PlaceApp, PlaceNewHeap, PlaceFill, PlacePost, PlaceDrain, PlaceDangling, PlaceVideo
     DEF Next, Call, AppStep, Restart

-----------------------------------------------------------------------------

LEMMA IInvInit == Init => IInv
<1> SUFFICES ASSUME Init PROVE IInv
  OBVIOUS
<1>1. PreviewInv /\ InitInv /\ LiveInv
  BY DEF Init, PreviewInv, InitInv, LiveInv, Alive, None
<1>2. PlaceInv
  BY RecordAssumption, EmptySeq DEF Init, PlaceInv, IsBusy, Held, None
<1> QED
  BY <1>1, <1>2, TypeInit DEF IInv

\* The inductive invariant: the parts above.
THEOREM RecordInvariant == Spec => []IInv
<1>1. IInv /\ [Next]_vars => IInv'
  BY TypeStep, PreviewStep, InitStep, LiveStep, PlaceStep DEF IInv
<1> QED
  BY <1>1, IInvInit, PTL DEF Spec

LEMMA OneAtMost ==
  ASSUME NEW S, NEW x \in S, \A y \in S : y = x
  PROVE  Cardinality(S) = 1
<1>1. S = {x}
  OBVIOUS
<1> QED
  BY <1>1, FS_Singleton

LEMMA OnePlaceFollows == IInv => OnePlace
<1> SUFFICES ASSUME IInv, ~overlap, NEW b \in Buffers PROVE Places(b) <= 1
  BY DEF OnePlace
<1> DEFINE B == {i \in DOMAIN busy : busy[i] = b}
           H == Holders(b)
<1>0. PlaceInv /\ TypeInv /\ b # NoBuffer
  BY RecordAssumption DEF IInv
<1>1. (IsBusy(b) /\ Cardinality(B) = 1) \/ (~IsBusy(b) /\ Cardinality(B) = 0)
  <2>1. DOMAIN busy = 1 .. Len(busy)
    BY <1>0 DEF TypeInv, QueuesOK
  <2>2. ASSUME NEW i \in 1 .. Len(busy), busy[i] = b PROVE Cardinality(B) = 1
    <3>1. i \in B /\ \A j \in B : j = i
      BY <1>0, <2>1, <2>2 DEF PlaceInv
    <3> QED
      BY <3>1, OneAtMost
  <2>3. ASSUME ~IsBusy(b) PROVE Cardinality(B) = 0
    <3>1. B = {}
      BY <2>1, <2>3 DEF IsBusy
    <3> QED
      BY <3>1, FS_EmptySet
  <2> HIDE DEF B
  <2>4. IsBusy(b) => Cardinality(B) = 1
    BY <2>2 DEF IsBusy
  <2> QED
    BY <2>3, <2>4
<1>2. (Held(b) /\ Cardinality(H) = 1) \/ (~Held(b) /\ Cardinality(H) = 0)
  <2>1. ASSUME NEW t \in Threads, video[t].buf = b PROVE Cardinality(H) = 1
    <3>1. t \in H /\ \A u \in H : u = t
      BY <1>0, <2>1 DEF PlaceInv, Holders
    <3> QED
      BY <3>1, OneAtMost
  <2>2. ASSUME ~Held(b) PROVE Cardinality(H) = 0
    <3>1. H = {}
      BY <2>2 DEF Held, Holders
    <3> QED
      BY <3>1, FS_EmptySet
  <2> HIDE DEF H
  <2>3. Held(b) => Cardinality(H) = 1
    BY <2>1 DEF Held
  <2> QED
    BY <2>2, <2>3
<1>3. free[b] = 0 \/ (free[b] = 1 /\ ~IsBusy(b) /\ ~Held(b) /\ b \notin driver)
  BY <1>0 DEF PlaceInv
<1>4. b \in driver => ~IsBusy(b) /\ ~Held(b)
  BY <1>0 DEF PlaceInv
<1>5. ~(IsBusy(b) /\ Held(b))
  BY <1>0 DEF PlaceInv
<1>6. Places(b) = (IF b \in driver THEN 1 ELSE 0) + free[b] + Cardinality(B) + Cardinality(H)
  BY DEF Places
<1> HIDE DEF B, H
<1> QED
  BY <1>1, <1>2, <1>3, <1>4, <1>5, <1>6

\* No record buffer is in two places, for any number of buffers and threads
\* and any calls of the service.
THEOREM BuffersInOnePlace == Spec => []OnePlace
  BY RecordInvariant, OnePlaceFollows, PTL

LEMMA TrackedFollows == IInv => Tracked
<1> SUFFICES ASSUME IInv, ~overlap, NEW b \in Buffers, flag[b]
             PROVE  b \notin driver /\ free[b] = 0 /\ b \notin ToSet(busy)
  BY DEF Tracked
<1>1. b \notin driver /\ free[b] = 0 /\ ~IsBusy(b)
  BY DEF IInv, PlaceInv
<1>2. DOMAIN busy = 1 .. Len(busy)
  BY DEF IInv, TypeInv, QueuesOK
<1>3. b \notin ToSet(busy)
  BY <1>1, <1>2 DEF IsBusy, ToSet
<1> QED
  BY <1>1, <1>3

\* A buffer that is tracked is nowhere else: what the next recording frees is
\* not in a queue yet.
THEOREM TrackedNowhereElse == Spec => []Tracked
  BY RecordInvariant, TrackedFollows, PTL

LEMMA HeapFollows == IInv => RecordHeapKept
  BY DEF IInv, RecordHeapKept, PreviewInv, LiveInv, Alive

\* A video thread with a frame finds the heap the frame is in or has been told
\* to exit, and the driver the heap of the live snapshot.
THEOREM HeapsKept == Spec => []RecordHeapKept
  BY RecordInvariant, HeapFollows, PTL

=============================================================================
