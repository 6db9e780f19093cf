--------------------------- MODULE TouchTrackProofs ---------------------------
(* Proofs about the touch tracker: its typing, and that what it reports to  *)
(* Android keeps fingers apart, for every set of frames, every mode table   *)
(* and every threshold.                                                     *)
EXTENDS TouchTrack, FiniteSetTheorems, TLAPS

-----------------------------------------------------------------------------
(* Facts about one frame.                                                   *)

\* Squared distances are integers.
LEMMA DistType == \A a, b \in Int : Dist(a, b) \in Int
BY DEF Dist

\* An area of a frame, as the scan of the matrix leaves it.
LEMMA ScanType ==
  ASSUME NEW scan \in Frames
  PROVE  /\ scan \in Seq(Area)
         /\ Len(scan) \in 0 .. MaxTouch
         /\ \A i \in 1 .. Len(scan) :
              /\ i \in Slots
              /\ scan[i].pos \in Nat /\ scan[i].peak \in Nat
<1>1. scan \in Seq(Area) /\ Len(scan) <= MaxTouch /\ MaxTouch \in Nat
  BY TrackAssumption
<1>2. Len(scan) \in 0 .. MaxTouch
  BY <1>1
<1>3. ASSUME NEW i \in 1 .. Len(scan)
      PROVE  i \in Slots /\ scan[i] \in Area
  BY <1>1 DEF Slots
<1> QED  BY <1>1, <1>2, <1>3 DEF Area

\* What Scanned makes of the state is a frame.
LEMMA ScannedType ==
  ASSUME TypeOK, NEW scan \in Frames,
         NEW near \in [1 .. Len(scan) -> 0 .. MaxTouch],
         NEW aligned \in SUBSET (1 .. Len(scan))
  PROVE  Scanned(scan, near, aligned) \in Frame
<1>1. Rotation[1] \in 0 .. 2 /\ Rotation[2] \in 0 .. 2
  BY DEF TypeOK, Rotation
<1>2. near \in UNION {[1 .. k -> 0 .. MaxTouch] : k \in 0 .. MaxTouch}
  BY ScanType
<1>3. aligned \in SUBSET Slots
  BY ScanType
<1>4. Modes[mode] \in [initial : Nat, continue : Nat, delay : Nat, count : Nat]
  BY TrackAssumption DEF TypeOK
<1>5. (IF TotalLiftoff THEN 0 ELSE previoustpc) \in 0 .. MaxTouch
  BY TrackAssumption DEF TypeOK
<1> QED  BY <1>1, <1>2, <1>3, <1>4, <1>5, ScanType DEF Scanned, Frame, TypeOK

\* A frame of which every touch has been matched.
Matched(v) ==
  /\ v \in Frame
  /\ Len(v.scan) \in 0 .. MaxTouch
  /\ DOMAIN v.near = 1 .. Len(v.scan)
  /\ IsNearest(v)

\* What the parts of a matched frame are, for each of its touches.
LEMMA FrameParts ==
  ASSUME NEW v, Matched(v), NEW i \in 1 .. Len(v.scan)
  PROVE  /\ i \in Slots
         /\ v.scan[i].pos \in Nat /\ v.scan[i].peak \in Nat
         /\ v.near[i] \in 0 .. v.n /\ v.n \in 0 .. MaxTouch
         /\ v.next \in Nat /\ v.thr.count \in Nat
         /\ v.stale[i] \in Touch
         /\ \A j \in Slots : v.old[j] \in Touch
<1>1. v \in Frame /\ IsNearest(v)
  BY DEF Matched
<1>2. v.scan[i] \in Area
  BY <1>1 DEF Frame
<1>3. v.near[i] \in 0 .. v.n
  <2>1. v.n \in 0 .. MaxTouch
    BY <1>1 DEF Frame
  <2>2. v.near[i] = 0 \/ v.near[i] \in 1 .. v.n
    BY <1>1 DEF IsNearest
  <2> QED  BY <2>1, <2>2, TrackAssumption
<1>4. i \in Slots
  BY TrackAssumption DEF Matched, Slots
<1> QED  BY <1>1, <1>2, <1>3, <1>4 DEF Frame, Area

\* A claimed touch is one of the previous touches.
LEMMA ClaimedSlot ==
  ASSUME NEW v, Matched(v), NEW i \in 1 .. Len(v.scan), Claims(v, i)
  PROVE  v.near[i] \in Slots /\ v.near[i] \in 1 .. v.n /\ DistTo(v, i) \in Int
<1>1. v.near[i] \in 1 .. v.n /\ v.near[i] \in Slots
  BY FrameParts, TrackAssumption DEF Claims, Slots
<1>2. v.old[v.near[i]].ux \in Int
  BY <1>1, FrameParts DEF Touch
<1>3. v.scan[i].pos \in Int
  BY FrameParts
<1>4. DistTo(v, i) \in Int
  BY <1>2, <1>3, DistType DEF DistTo
<1> QED  BY <1>1, <1>4

\* No two touches of a frame go on as the same previous touch: this is what
\* the removal loop is for.
LEMMA OneClaim ==
  ASSUME NEW v, Matched(v), NEW i \in 1 .. Len(v.scan),
         NEW k \in 1 .. Len(v.scan),
         Claims(v, i), Claims(v, k), v.near[i] = v.near[k]
  PROVE  i = k
<1>1. DistTo(v, i) \in Int /\ DistTo(v, k) \in Int
  BY ClaimedSlot
<1>2. i \in Int /\ k \in Int
  OBVIOUS
<1> QED  BY <1>1, <1>2 DEF Claims

\* The id counter only moves on, and past the id of every new touch.
LEMMA NewIdMonotone ==
  ASSUME NEW v, Matched(v), NEW i \in Nat, NEW k \in Nat, i < k
  PROVE  /\ NewId(v, i) \in Nat /\ NewId(v, k) \in Nat
         /\ v.next <= NewId(v, i)
         /\ NewId(v, i) <= NewId(v, k)
         /\ i # 0 /\ Accepted(v, i) => NewId(v, i) < NewId(v, k)
<1> DEFINE New(j) == {l \in 1 .. (j - 1) : Accepted(v, l)}
<1>1. v.next \in Nat
  BY DEF Matched, Frame
<1>2. ASSUME NEW j \in Nat
      PROVE  IsFiniteSet(New(j)) /\ Cardinality(New(j)) \in Nat
  <2>1. IsFiniteSet(1 .. (j - 1))
    BY FS_Interval
  <2> QED  BY <2>1, FS_Subset, FS_CardinalityType
<1>3. New(i) \subseteq New(k)
  OBVIOUS
<1>4. Cardinality(New(i)) <= Cardinality(New(k))
  BY <1>2, <1>3, FS_Subset
<1>5. ASSUME i # 0, Accepted(v, i)
      PROVE  Cardinality(New(i)) < Cardinality(New(k))
  <2>1. i \notin New(i) /\ New(i) \cup {i} \subseteq New(k)
    BY <1>5
  <2>2. Cardinality(New(i) \cup {i}) = Cardinality(New(i)) + 1
    BY <1>2, <2>1, FS_AddElement
  <2>3. Cardinality(New(i) \cup {i}) <= Cardinality(New(k))
    BY <1>2, <2>1, FS_Subset
  <2>4. Cardinality(New(i)) \in Nat /\ Cardinality(New(k)) \in Nat
    BY <1>2
  <2> HIDE DEF New
  <2> QED  BY <2>2, <2>3, <2>4
<1>6. NewId(v, i) = v.next + Cardinality(New(i))
  BY DEF NewId
<1>7. NewId(v, k) = v.next + Cardinality(New(k))
  BY DEF NewId
<1>8. Cardinality(New(i)) \in Nat /\ Cardinality(New(k)) \in Nat
  BY <1>2
<1> HIDE DEF New
<1> QED  BY <1>1, <1>4, <1>5, <1>6, <1>7, <1>8

\* The previous touches are not the empty slots left by a total lift-off.
Lively(v) == \A j \in 1 .. v.n : v.old[j].delay \in Nat

\* The ids of the previous touches are older than the counter, and distinct.
Ordered(v) ==
  /\ \A j \in 1 .. v.n : v.old[j].id < v.next
  /\ \A j, l \in 1 .. v.n :
       v.old[j].id = v.old[l].id /\ v.old[j].id # -1 => j = l

\* What is stored for a touch is a touch, and reporting it changes no more
\* than its delay.
LEMMA TrackedType ==
  ASSUME NEW v, Matched(v), Lively(v), NEW i \in 1 .. Len(v.scan)
  PROVE  LET t == Tracked(v, i)
             u == AfterReport(t)
         IN  /\ t \in Touch /\ u \in Touch
             /\ t.delay \in Nat /\ u.delay \in Nat
             /\ u.id = t.id /\ u.ux = v.scan[i].pos /\ u.prev = t.prev
             /\ u.hv = t.hv
             /\ Reported(t) => u.delay = 0
<1> DEFINE t == Tracked(v, i)
<1>1. t.delay \in Nat /\ t.id \in Int /\ t.prev \in 0 .. MaxTouch
  <2>1. CASE Kept(v, i)
    <3>1. v.near[i] \in Slots /\ v.near[i] \in 1 .. v.n
      BY <2>1, ClaimedSlot DEF Kept
    <3>2. v.old[v.near[i]] \in Touch /\ v.old[v.near[i]].delay \in Nat
      BY <3>1, FrameParts DEF Lively
    <3> QED  BY <2>1, <3>1, <3>2 DEF Tracked, DelayOf, Touch, Slots
  <2>2. CASE ~Kept(v, i)
    <3>1. NewId(v, i) \in Nat
      <4>1. i \in Nat /\ i + 1 \in Nat /\ i < i + 1
        OBVIOUS
      <4> QED  BY <4>1, NewIdMonotone
    <3>2. v.thr.count \in Nat /\ MaxTouch \in Nat
      BY FrameParts, TrackAssumption
    <3> QED  BY <2>2, <3>1, <3>2 DEF Tracked, DelayOf
  <2> QED  BY <2>1, <2>2
<1>2. t.fast \in BOOLEAN /\ t.ux = v.scan[i].pos /\ t.ux \in Int
  <2>1. v.scan[i].pos \in Int /\ v.stale[i].fast \in BOOLEAN
    BY FrameParts DEF Touch
  <2>2. t.fast = IF Kept(v, i) THEN DistTo(v, i) > MinPrevDeltaSq
                 ELSE v.stale[i].fast
    BY Zenon DEF Tracked
  <2>3. (DistTo(v, i) > MinPrevDeltaSq) \in BOOLEAN
    OBVIOUS
  <2>4. t.fast \in BOOLEAN
    BY <2>1, <2>2, <2>3
  <2> QED  BY <2>1, <2>4 DEF Tracked
<1>3. t.hv \in BOOLEAN
  BY DEF Tracked, Fresh, Accepted
<1>4. t = [id |-> t.id, ux |-> t.ux, hv |-> t.hv, delay |-> t.delay,
           prev |-> t.prev, fast |-> t.fast]
  BY DEF Tracked
<1>5. t \in Touch
  BY <1>1, <1>2, <1>3, <1>4 DEF Touch
<1> HIDE DEF t
<1> QED  BY <1>1, <1>2, <1>5 DEF AfterReport, Reported, Touch, t

\* Touches of one frame have distinct ids, all older than the new counter.
LEMMA TrackedIds ==
  ASSUME NEW v, Matched(v), Ordered(v),
         NEW i \in 1 .. Len(v.scan), NEW k \in 1 .. Len(v.scan)
  PROVE  /\ Tracked(v, i).id < NewId(v, Len(v.scan) + 1)
         /\ v.next <= NewId(v, Len(v.scan) + 1)
         /\ \/ Tracked(v, i).id = -1
            \/ Tracked(v, i).id >= v.next
            \/ \E j \in 1 .. v.n : v.old[j].id = Tracked(v, i).id
         /\ Tracked(v, i).id = Tracked(v, k).id /\ Tracked(v, i).id # -1
              => i = k
<1> DEFINE last == NewId(v, Len(v.scan) + 1)
<1>0. /\ Len(v.scan) \in Nat /\ i \in Nat /\ k \in Nat /\ i # 0 /\ k # 0
      /\ v.next \in Nat
  BY FrameParts DEF Matched
<1>1. ASSUME NEW a \in 1 .. Len(v.scan)
      PROVE  /\ NewId(v, a) \in Nat /\ last \in Nat
             /\ v.next <= NewId(v, a) /\ v.next <= last
             /\ Accepted(v, a) => NewId(v, a) < last
  <2>1. a \in Nat /\ Len(v.scan) + 1 \in Nat /\ a < Len(v.scan) + 1 /\ a # 0
    BY <1>0
  <2> HIDE DEF last
  <2>2. last = NewId(v, Len(v.scan) + 1)
    BY DEF last
  <2>3. /\ NewId(v, a) \in Nat /\ NewId(v, Len(v.scan) + 1) \in Nat
        /\ v.next <= NewId(v, a)
        /\ NewId(v, a) <= NewId(v, Len(v.scan) + 1)
        /\ Accepted(v, a) => NewId(v, a) < NewId(v, Len(v.scan) + 1)
    BY <2>1, NewIdMonotone
  <2> QED  BY <1>0, <2>2, <2>3
<1>2. ASSUME NEW a \in 1 .. Len(v.scan), Kept(v, a)
      PROVE  /\ Tracked(v, a).id = v.old[v.near[a]].id
             /\ v.near[a] \in 1 .. v.n
             /\ Tracked(v, a).id < v.next /\ Tracked(v, a).id \in Int
  <2>1. v.near[a] \in 1 .. v.n /\ v.near[a] \in Slots
    BY <1>2, ClaimedSlot DEF Kept
  <2>2. v.old[v.near[a]] \in Touch
    BY <2>1, FrameParts
  <2> QED  BY <1>2, <2>1, <2>2 DEF Tracked, Ordered, Touch
<1>3. ASSUME NEW a \in 1 .. Len(v.scan), ~Kept(v, a)
      PROVE  \/ Tracked(v, a).id = -1
             \/ Accepted(v, a) /\ Tracked(v, a).id = NewId(v, a)
  BY <1>3 DEF Tracked
<1>4. /\ Tracked(v, i).id < last /\ v.next <= last
      /\ \/ Tracked(v, i).id = -1
         \/ Tracked(v, i).id >= v.next
         \/ \E j \in 1 .. v.n : v.old[j].id = Tracked(v, i).id
  <2> HIDE DEF last
  <2>1. CASE Kept(v, i)
    <3>1. /\ Tracked(v, i).id < v.next /\ Tracked(v, i).id \in Int
          /\ \E j \in 1 .. v.n : v.old[j].id = Tracked(v, i).id
      BY <1>2, <2>1
    <3> QED  BY <3>1, <1>0, <1>1
  <2>2. CASE ~Kept(v, i)
    BY <1>0, <1>1, <1>3, <2>2
  <2> QED  BY <2>1, <2>2
<1>5. ASSUME NEW a \in 1 .. Len(v.scan), NEW b \in 1 .. Len(v.scan),
             Accepted(v, a), Accepted(v, b), a < b
      PROVE  NewId(v, a) < NewId(v, b)
  BY <1>5, NewIdMonotone
<1>6. ASSUME Tracked(v, i).id = Tracked(v, k).id, Tracked(v, i).id # -1
      PROVE  i = k
  <2>1. CASE Kept(v, i) /\ Kept(v, k)
    <3>1. v.near[i] = v.near[k]
      BY <1>2, <1>6, <2>1 DEF Ordered
    <3> QED  BY <2>1, <3>1, OneClaim DEF Kept
  <2>2. CASE Kept(v, i) /\ ~Kept(v, k)
    BY <1>0, <1>1, <1>2, <1>3, <1>6, <2>2
  <2>3. CASE ~Kept(v, i) /\ Kept(v, k)
    BY <1>0, <1>1, <1>2, <1>3, <1>6, <2>3
  <2>4. CASE ~Kept(v, i) /\ ~Kept(v, k)
    <3>1. /\ Accepted(v, i) /\ Accepted(v, k)
          /\ NewId(v, i) = NewId(v, k) /\ NewId(v, i) \in Nat
      BY <1>1, <1>3, <1>6, <2>4
    <3>2. ~(i < k) /\ ~(k < i)
      BY <3>1, <1>1, <1>5
    <3> QED  BY <1>0, <3>2
  <2> QED  BY <2>1, <2>2, <2>3, <2>4
<1> QED  BY <1>4, <1>6

-----------------------------------------------------------------------------
(* The inductive invariant.                                                 *)

\* The slots of the last frame hold touches, unless all was lifted off.
Held ==
  TotalLiftoff \/ \A i \in 1 .. previoustpc : tp[tpoint][i].delay \in Nat

\* The frame before is not the one the next frame overwrites.
Rotating == prevtpoint \in {tpoint, (tpoint + 2) % 3}

\* Every id in use is older than the counter, and the last frame's differ.
IdsOrdered ==
  /\ \A c \in screen : c.id < tracking_id
  /\ \/ TotalLiftoff
     \/ /\ \A i \in 1 .. previoustpc : tp[tpoint][i].id < tracking_id
        /\ \A i, j \in 1 .. previoustpc :
             tp[tpoint][i].id = tp[tpoint][j].id /\ tp[tpoint][i].id # -1
               => i = j

\* What is on the screen is what the last frame reports.
Shown ==
  \/ TotalLiftoff \/ previoustpc = 0
  \/ \A c \in screen : /\ c.slot \in 1 .. previoustpc
                       /\ tp[tpoint][c.slot].id = c.id
                       /\ tp[tpoint][c.slot].delay = 0

\* A lift-off is remembered, or will be when the read ends.
LiftoffDue == screen # {} => need_liftoff \/ (reading /\ ret)

IInv ==
  /\ TypeOK /\ Held /\ Rotating /\ Shown /\ LiftoffDue /\ SameFinger
  /\ ~wrapped => IdsOrdered /\ IdsDistinct

-----------------------------------------------------------------------------
(* Initially and after a lift-off.                                          *)

\* What clear_arrays writes is a touch, in every slot of every frame.
LEMMA ClearedType == Cleared \in Touch /\ AllClear \in [0 .. 2 -> [Slots -> Touch]]
BY TrackAssumption DEF Cleared, AllClear, Touch, Slots

\* The driver starts in the invariant.
LEMMA InitInv == Init => IInv
<1> SUFFICES ASSUME Init PROVE IInv
  OBVIOUS
<1>1. TypeOK
  <2>1. MaxTouch \in Nat /\ MaxSession \in Nat
    BY TrackAssumption
  <2>2. tp \in [0 .. 2 -> [Slots -> Touch]]
    BY ClearedType DEF Init
  <2>3. /\ tpoint \in 0 .. 2 /\ prevtpoint \in 0 .. 2 /\ prev2tpoint \in 0 .. 2
        /\ previoustpc \in 0 .. MaxTouch /\ tracking_id \in Nat
        /\ session \in 0 .. MaxSession
    BY <2>1 DEF Init
  <2>4. /\ mode \in DOMAIN Modes /\ screen \subseteq Contact
        /\ need_liftoff \in BOOLEAN /\ reading \in BOOLEAN
        /\ ret \in BOOLEAN /\ wrapped \in BOOLEAN
    BY DEF Init
  <2> QED  BY <2>2, <2>3, <2>4 DEF TypeOK
<1>2. 1 \in Slots
  BY TrackAssumption DEF Slots
<1>3. TotalLiftoff
  BY <1>2 DEF Init, TotalLiftoff, AllClear, Cleared
<1>4. IdsOrdered /\ IdsDistinct /\ SameFinger
  BY <1>3 DEF Init, IdsOrdered, IdsDistinct, SameFinger
<1> QED  BY <1>1, <1>3, <1>4 DEF IInv, Init, Held, Rotating, Shown, LiftoffDue

\* Lift, in whatever step it is taken.
LEMMA LiftInv ==
  ASSUME IInv, Lift, reading' = FALSE, ret' \in BOOLEAN,
         screen # {} => need_liftoff,
         UNCHANGED <<tpoint, prevtpoint, prev2tpoint, previoustpc, tracking_id,
                     mode, wrapped>>
  PROVE  IInv'
<1>1. TypeOK'
  <2>1. MaxSession \in Nat
    BY TrackAssumption
  <2>2. tp' \in [0 .. 2 -> [Slots -> Touch]]
    BY ClearedType DEF IInv, TypeOK, Lift
  <2>3. screen' \subseteq Contact
    BY DEF IInv, TypeOK, Lift
  <2>4. session' \in 0 .. MaxSession
    BY <2>1 DEF Lift
  <2>5. need_liftoff' \in BOOLEAN /\ reading' \in BOOLEAN /\ ret' \in BOOLEAN
    BY DEF Lift
  <2>6. /\ tpoint' \in 0 .. 2 /\ prevtpoint' \in 0 .. 2
        /\ prev2tpoint' \in 0 .. 2 /\ previoustpc' \in 0 .. MaxTouch
        /\ tracking_id' \in Nat
        /\ mode' \in DOMAIN Modes /\ wrapped' \in BOOLEAN
    BY DEF IInv, TypeOK
  <2> QED  BY <2>2, <2>3, <2>4, <2>5, <2>6 DEF TypeOK
<1>2. CASE need_liftoff
  <2>1. 1 \in Slots
    BY TrackAssumption DEF Slots
  <2>2. tp' = AllClear /\ screen' = {}
    BY <1>2 DEF Lift
  <2>3. tpoint \in 0 .. 2 /\ prevtpoint \in 0 .. 2
    BY DEF IInv, TypeOK
  <2>4. TotalLiftoff'
    BY <2>1, <2>2, <2>3 DEF TotalLiftoff, AllClear, Cleared
  <2>5. SameFinger'
    <3>1. \A i \in 1 .. previoustpc : i \in Slots
      BY TrackAssumption DEF IInv, TypeOK, Slots
    <3> QED  BY <2>2, <2>3, <3>1 DEF SameFinger, AllClear, Cleared
  <2> QED  BY <1>1, <2>2, <2>4, <2>5
           DEF IInv, Held, Rotating, Shown, LiftoffDue, IdsOrdered, IdsDistinct
<1>3. CASE ~need_liftoff
  <2>1. UNCHANGED <<tp, screen>>
    BY <1>3 DEF Lift
  <2> QED  BY <1>1, <1>3, <2>1
           DEF IInv, Held, Rotating, Shown, LiftoffDue, IdsOrdered,
               IdsDistinct, SameFinger, TotalLiftoff
<1> QED  BY <1>2, <1>3

-----------------------------------------------------------------------------
(* A frame.                                                                 *)

\* What calc_point worked with, v, and what it left.
LEMMA CalcPointFrame ==
  ASSUME IInv, NEW scan \in Frames, CalcPoint(scan)
  PROVE  \E v : /\ Matched(v) /\ Lively(v) /\ Track(v)
                /\ v.scan = scan /\ v.old = tp[Rotation[2]]
                /\ v.n = (IF TotalLiftoff THEN 0 ELSE previoustpc)
                /\ v.stale = tp[Rotation[1]]
                /\ v.next = tracking_id
                /\ ~wrapped => Ordered(v)
<1>1. PICK near \in [1 .. Len(scan) -> 0 .. MaxTouch],
           aligned \in SUBSET (1 .. Len(scan)) :
        /\ IsNearest(Scanned(scan, near, aligned))
        /\ Track(Scanned(scan, near, aligned))
  BY DEF CalcPoint
<1> DEFINE v == Scanned(scan, near, aligned)
<1>2. v \in Frame
  BY ScannedType DEF IInv
<1>3. /\ v.scan = scan /\ v.old = tp[Rotation[2]] /\ v.near = near
      /\ v.n = (IF TotalLiftoff THEN 0 ELSE previoustpc)
      /\ v.stale = tp[Rotation[1]]
      /\ v.next = tracking_id
  BY DEF Scanned
<1>4. Matched(v)
  BY <1>1, <1>2, <1>3, ScanType DEF Matched
<1>5. CASE TotalLiftoff
  <2>1. v.n = 0
    BY <1>3, <1>5
  <2> HIDE DEF v
  <2>2. Lively(v) /\ Ordered(v)
    BY <2>1 DEF Lively, Ordered
  <2> QED  BY <1>1, <1>3, <1>4, <2>2 DEF v
<1>6. CASE ~TotalLiftoff
  <2>1. v.n = previoustpc /\ v.old = tp[tpoint]
    BY <1>3, <1>6 DEF Rotation
  <2> HIDE DEF v
  <2>2. Lively(v)
    BY <2>1, <1>6 DEF Lively, IInv, Held
  <2>3. ~wrapped => Ordered(v)
    BY <1>3, <2>1, <1>6 DEF Ordered, IInv, IdsOrdered
  <2> QED  BY <1>1, <1>3, <1>4, <2>2, <2>3 DEF v
<1> QED  BY <1>5, <1>6

\* Where the frames are after it.
LEMMA CalcPointPlaces ==
  ASSUME IInv, NEW scan \in Frames, CalcPoint(scan)
  PROVE  /\ tpoint' \in 0 .. 2 /\ prevtpoint' \in 0 .. 2
         /\ prev2tpoint' \in 0 .. 2
         /\ tpoint' = Rotation[1] /\ prevtpoint' = Rotation[2]
         /\ prev2tpoint' = Rotation[3]
         /\ Rotating'
         /\ ~TotalLiftoff => /\ prevtpoint' = tpoint /\ tpoint' # tpoint
                             /\ prev2tpoint' = prevtpoint
                             /\ tpoint' # prevtpoint
         /\ TotalLiftoff => tpoint' = tpoint
<1>1. /\ tpoint \in 0 .. 2 /\ prevtpoint \in 0 .. 2 /\ prev2tpoint \in 0 .. 2
      /\ prevtpoint \in {tpoint, (tpoint + 2) % 3}
  BY DEF IInv, TypeOK, Rotating
<1>2. /\ tpoint' = Rotation[1] /\ prevtpoint' = Rotation[2]
      /\ prev2tpoint' = Rotation[3]
  BY DEF CalcPoint
<1>3. CASE TotalLiftoff
  BY <1>1, <1>2, <1>3 DEF Rotation, Rotating
<1>4. CASE ~TotalLiftoff
  <2>1. /\ tpoint' = (tpoint + 1) % 3 /\ prevtpoint' = tpoint
        /\ prev2tpoint' = prevtpoint
    BY <1>2, <1>4 DEF Rotation
  <2>2. tpoint = 0 \/ tpoint = 1 \/ tpoint = 2
    BY <1>1
  <2> QED  BY <1>1, <1>2, <1>4, <2>1, <2>2 DEF Rotating
<1> QED  BY <1>3, <1>4

\* The slots it wrote, and those it left alone.
LEMMA CalcPointSlots ==
  ASSUME IInv, NEW scan \in Frames, CalcPoint(scan), NEW v,
         Matched(v), Lively(v), Track(v), v.scan = scan,
         v.stale = tp[Rotation[1]]
  PROVE  /\ Len(scan) \in 0 .. MaxTouch /\ previoustpc' = Len(scan)
         /\ tp' \in [0 .. 2 -> [Slots -> Touch]]
         /\ \A i \in 1 .. Len(scan) :
              /\ i \in Slots
              /\ tp'[tpoint'][i] = AfterReport(Tracked(v, i))
         /\ \A p \in 0 .. 2 : p # tpoint' => tp'[p] = tp[p]
         /\ scan = <<>> => Len(scan) = 0
         /\ scan # <<>> => ~TotalLiftoff'
<1>1. tpoint' \in 0 .. 2 /\ tpoint' = Rotation[1]
  BY CalcPointPlaces
<1>2. tp \in [0 .. 2 -> [Slots -> Touch]]
  BY DEF IInv, TypeOK
<1>3. tp' = [tp EXCEPT ![tpoint'] = [i \in Slots |->
               IF i \in 1 .. Len(scan) THEN AfterReport(Tracked(v, i))
               ELSE v.stale[i]]]
  BY <1>1 DEF Track
<1>4. \A i \in 1 .. Len(scan) :
        /\ i \in Slots /\ AfterReport(Tracked(v, i)) \in Touch
        /\ AfterReport(Tracked(v, i)).ux = scan[i].pos /\ scan[i].pos \in Nat
  BY TrackedType, ScanType
<1>5. v.stale \in [Slots -> Touch]
  BY <1>1, <1>2
<1>6. Len(scan) \in 0 .. MaxTouch /\ previoustpc' = Len(scan)
  BY ScanType DEF CalcPoint
<1>7. [i \in Slots |-> IF i \in 1 .. Len(scan)
                       THEN AfterReport(Tracked(v, i)) ELSE v.stale[i]]
        \in [Slots -> Touch]
  BY <1>4, <1>5
<1>8. tp' \in [0 .. 2 -> [Slots -> Touch]]
  BY <1>2, <1>3, <1>7
<1>9. \A i \in 1 .. Len(scan) : tp'[tpoint'][i] = AfterReport(Tracked(v, i))
  BY <1>1, <1>2, <1>3, <1>4
<1>10. \A p \in 0 .. 2 : p # tpoint' => tp'[p] = tp[p]
  BY <1>2, <1>3
<1>11. /\ scan = <<>> => Len(scan) = 0
       /\ scan # <<>> => Len(scan) # 0
  BY ScanType
<1>12. ASSUME scan # <<>>
       PROVE  ~TotalLiftoff'
  <2>1. 1 \in 1 .. Len(scan)
    BY <1>6, <1>11, <1>12
  <2>2. tp'[tpoint'][1].ux = scan[1].pos /\ scan[1].pos \in Nat
    BY <1>4, <1>9, <2>1
  <2> QED  BY <2>2 DEF TotalLiftoff
<1> QED  BY <1>4, <1>6, <1>8, <1>9, <1>10, <1>11, <1>12

\* calc_point keeps the invariant.
LEMMA CalcPointInv ==
  ASSUME IInv, NEW scan \in Frames, CalcPoint(scan)
  PROVE  IInv'
<1>1. PICK v : /\ Matched(v) /\ Lively(v) /\ Track(v)
               /\ v.scan = scan /\ v.old = tp[Rotation[2]]
               /\ v.n = (IF TotalLiftoff THEN 0 ELSE previoustpc)
               /\ v.stale = tp[Rotation[1]]
               /\ v.next = tracking_id
               /\ ~wrapped => Ordered(v)
  BY CalcPointFrame
<1>2. /\ Len(scan) \in 0 .. MaxTouch /\ previoustpc' = Len(scan)
      /\ tp' \in [0 .. 2 -> [Slots -> Touch]]
      /\ \A i \in 1 .. Len(scan) :
           i \in Slots /\ tp'[tpoint'][i] = AfterReport(Tracked(v, i))
      /\ \A p \in 0 .. 2 : p # tpoint' => tp'[p] = tp[p]
      /\ scan = <<>> => Len(scan) = 0
      /\ scan # <<>> => ~TotalLiftoff'
  BY <1>1, CalcPointSlots
<1>3. \A i \in 1 .. Len(scan) :
        /\ tp'[tpoint'][i].id = Tracked(v, i).id
        /\ tp'[tpoint'][i].delay \in Nat
        /\ tp'[tpoint'][i].prev = Tracked(v, i).prev
        /\ tp'[tpoint'][i].ux = scan[i].pos
        /\ Tracked(v, i) \in Touch
        /\ Reported(Tracked(v, i)) => tp'[tpoint'][i].delay = 0
  BY <1>1, <1>2, TrackedType
<1>4. screen' = IF scan = <<>> THEN screen
                ELSE {[slot |-> i, id |-> Tracked(v, i).id] :
                       i \in {j \in 1 .. Len(scan) : Reported(Tracked(v, j))}}
  BY <1>1 DEF Track
<1>5. \A c \in screen' :
        \/ scan = <<>> /\ c \in screen
        \/ /\ c.slot \in 1 .. Len(scan) /\ c.slot \in Slots
           /\ tp'[tpoint'][c.slot].id = c.id /\ c.id \in Int
           /\ tp'[tpoint'][c.slot].delay = 0
           /\ c = [slot |-> c.slot, id |-> c.id]
  <2>1. CASE scan = <<>>
    BY <1>4, <2>1
  <2>2. CASE scan # <<>>
    <3>1. ASSUME NEW i \in 1 .. Len(scan), Reported(Tracked(v, i))
          PROVE  /\ i \in Slots /\ Tracked(v, i).id \in Int
                 /\ tp'[tpoint'][i].id = Tracked(v, i).id
                 /\ tp'[tpoint'][i].delay = 0
      BY <1>2, <1>3, <3>1 DEF Touch
    <3> QED  BY <1>4, <2>2, <3>1
  <2> QED  BY <2>1, <2>2
<1>6. TypeOK'
  <2>1. NewId(v, Len(scan) + 1) \in Nat
    <3>1. Len(scan) \in Nat /\ Len(scan) + 1 \in Nat /\ Len(scan) < Len(scan) + 1
      BY <1>2
    <3> QED  BY <1>1, <3>1, NewIdMonotone
  <2>2. tracking_id' \in Nat /\ wrapped' \in BOOLEAN
    <3>1. tracking_id' = IF NewId(v, Len(scan) + 1) > IdReset THEN 0
                         ELSE NewId(v, Len(scan) + 1)
      BY <1>1 DEF Track
    <3>2. wrapped' = (wrapped \/ NewId(v, Len(scan) + 1) > IdReset)
      BY <1>1 DEF Track
    <3> QED  BY <2>1, <3>1, <3>2
  <2>3. session' \in 0 .. MaxSession
    BY TrackAssumption DEF CalcPoint, IInv, TypeOK
  <2>4. screen' \subseteq Contact
    BY <1>5 DEF Contact, IInv, TypeOK
  <2>5. reading' \in BOOLEAN /\ ret' \in BOOLEAN
    BY DEF CalcPoint
  <2>6. need_liftoff' \in BOOLEAN /\ mode' \in DOMAIN Modes
    BY DEF CalcPoint, IInv, TypeOK
  <2> QED  BY <1>2, <2>2, <2>3, <2>4, <2>5, <2>6, CalcPointPlaces DEF TypeOK
<1>7. Held' /\ Rotating'
  BY <1>2, <1>3, CalcPointPlaces DEF Held
<1>8. Shown'
  BY <1>2, <1>5 DEF Shown
<1>9. LiftoffDue'
  BY <1>4 DEF IInv, LiftoffDue, CalcPoint
<1>10. SameFinger'
  <2>1. SUFFICES ASSUME NEW i \in 1 .. Len(scan), Tracked(v, i).prev # 0
                 PROVE  LET t == tp'[tpoint'][i]
                            u == tp'[prevtpoint'][t.prev]
                        IN  /\ u.id = t.id
                            /\ Dist(t.ux, u.ux) <= MaxDeltaSq
                            /\ u.prev # 0 =>
                                 tp'[prev2tpoint'][u.prev].id = t.id
    BY <1>2, <1>3 DEF SameFinger
  <2>2. Kept(v, i) /\ Tracked(v, i).prev = v.near[i]
    BY <2>1 DEF Tracked
  <2>3. v.near[i] \in 1 .. v.n /\ DistTo(v, i) \in Int
    BY <1>1, <2>2, ClaimedSlot DEF Kept
  <2>4. ~TotalLiftoff /\ v.near[i] \in 1 .. previoustpc
    BY <1>1, <2>3
  <2>5. /\ prevtpoint' = tpoint /\ prev2tpoint' = prevtpoint
        /\ tpoint' # tpoint /\ tpoint' # prevtpoint
        /\ tpoint \in 0 .. 2 /\ prevtpoint \in 0 .. 2
    BY <2>4, CalcPointPlaces DEF IInv, TypeOK
  <2>6. /\ v.old = tp[tpoint]
        /\ tp'[prevtpoint'] = tp[tpoint] /\ tp'[prev2tpoint'] = tp[prevtpoint]
    BY <1>1, <1>2, <2>4, <2>5 DEF Rotation
  <2>7. Tracked(v, i).id = tp[tpoint][v.near[i]].id
    BY <2>2, <2>6 DEF Tracked
  <2>8. Dist(scan[i].pos, tp[tpoint][v.near[i]].ux) <= MaxDeltaSq
    <3>1. ~(DistTo(v, i) > MaxDeltaSq)
      BY <2>2 DEF Kept, Far
    <3>2. MaxDeltaSq \in Nat
      BY TrackAssumption
    <3>3. DistTo(v, i) <= MaxDeltaSq
      BY <2>3, <3>1, <3>2
    <3> QED  BY <1>1, <2>6, <3>3 DEF DistTo
  <2>9. tp[tpoint][v.near[i]].prev # 0 =>
          tp[prevtpoint][tp[tpoint][v.near[i]].prev].id
            = tp[tpoint][v.near[i]].id
    BY <2>4 DEF IInv, SameFinger
  <2> QED  BY <1>3, <2>2, <2>6, <2>7, <2>8, <2>9
<1>11. ASSUME ~wrapped'
       PROVE  IdsOrdered' /\ IdsDistinct'
  <2>1. ~wrapped /\ tracking_id' = NewId(v, Len(scan) + 1)
    BY <1>1, <1>11 DEF Track
  <2>2. Ordered(v) /\ IdsOrdered /\ IdsDistinct
    BY <1>1, <2>1 DEF IInv
  <2>3. \A i, k \in 1 .. Len(scan) :
          /\ tp'[tpoint'][i].id < tracking_id'
          /\ tp'[tpoint'][i].id = tp'[tpoint'][k].id /\ tp'[tpoint'][i].id # -1
               => i = k
    <3>1. \A i, k \in 1 .. Len(scan) :
            /\ Tracked(v, i).id < NewId(v, Len(scan) + 1)
            /\ Tracked(v, i).id = Tracked(v, k).id /\ Tracked(v, i).id # -1
                 => i = k
      BY <1>1, <2>2, TrackedIds
    <3> QED  BY <1>3, <2>1, <3>1
  <2>4. tracking_id <= tracking_id' /\ tracking_id \in Nat /\ tracking_id' \in Nat
    <3>1. 0 \in Nat /\ Len(scan) + 1 \in Nat /\ 0 < Len(scan) + 1
      BY <1>2
    <3>2. /\ v.next <= NewId(v, 0) /\ NewId(v, 0) <= NewId(v, Len(scan) + 1)
          /\ NewId(v, 0) \in Nat /\ NewId(v, Len(scan) + 1) \in Nat
      BY <1>1, <3>1, NewIdMonotone
    <3> QED  BY <1>1, <2>1, <3>2 DEF IInv, TypeOK
  <2>5. \A c \in screen : c.id < tracking_id'
    BY <2>2, <2>4 DEF IdsOrdered, IInv, TypeOK, Contact
  <2>6. \A c \in screen' : c.id < tracking_id'
    BY <1>5, <2>3, <2>5
  <2>7. IdsOrdered'
    BY <1>2, <2>3, <2>6 DEF IdsOrdered
  <2>8. IdsDistinct'
    <3>1. CASE scan = <<>>
      BY <1>4, <2>1, <2>2, <3>1 DEF IdsDistinct
    <3>2. CASE scan # <<>>
      BY <1>5, <2>3, <3>2 DEF IdsDistinct
    <3> QED  BY <3>1, <3>2
  <2> QED  BY <2>7, <2>8
<1> QED  BY <1>6, <1>7, <1>8, <1>9, <1>10, <1>11 DEF IInv

-----------------------------------------------------------------------------
(* The invariant, and what follows from it.                                 *)

\* Every step of the driver keeps it.
LEMMA StepInv == IInv /\ [Next]_vars => IInv'
<1> SUFFICES ASSUME IInv, [Next]_vars PROVE IInv'
  OBVIOUS
<1>1. ASSUME NEW scan \in Frames, CalcPoint(scan) PROVE IInv'
  BY <1>1, CalcPointInv
<1>2. CASE ReadDone
  <2>1. CASE ret
    <3>1. /\ UNCHANGED <<tp, screen, session, tpoint, prevtpoint, prev2tpoint,
                         previoustpc, tracking_id, mode, wrapped>>
          /\ need_liftoff' = TRUE /\ reading' = FALSE /\ ret' = FALSE
      BY <1>2, <2>1 DEF ReadDone
    <3> QED  BY <3>1 DEF IInv, TypeOK, Held, Rotating, Shown, LiftoffDue,
                         IdsOrdered, IdsDistinct, SameFinger, TotalLiftoff
  <2>2. CASE ~ret
    <3>1. /\ Lift /\ reading' = FALSE /\ ret' = FALSE
          /\ UNCHANGED <<tpoint, prevtpoint, prev2tpoint, previoustpc,
                         tracking_id, mode, wrapped>>
      BY <1>2, <2>2 DEF ReadDone
    <3>2. screen # {} => need_liftoff
      BY <2>2 DEF IInv, LiftoffDue
    <3> QED  BY <3>1, <3>2, LiftInv
  <2> QED  BY <2>1, <2>2
<1>3. CASE PartialRead \/ Timeout
  <2>1. /\ Lift /\ ~reading /\ reading' = reading /\ ret' = ret
        /\ UNCHANGED <<tpoint, prevtpoint, prev2tpoint, previoustpc,
                       tracking_id, mode, wrapped>>
    BY <1>3 DEF PartialRead, Timeout
  <2>2. screen # {} => need_liftoff
    BY <2>1 DEF IInv, LiftoffDue
  <2>3. reading' = FALSE /\ ret' \in BOOLEAN
    BY <2>1 DEF IInv, TypeOK
  <2> QED  BY <2>1, <2>2, <2>3, LiftInv
<1>4. ASSUME NEW m \in DOMAIN Modes, SetMode(m) PROVE IInv'
  <2>1. /\ UNCHANGED <<tp, screen, session, tpoint, prevtpoint, prev2tpoint,
                       previoustpc, tracking_id, wrapped, need_liftoff,
                       reading, ret>>
        /\ mode' \in DOMAIN Modes
    BY <1>4 DEF SetMode
  <2> QED  BY <2>1 DEF IInv, TypeOK, Held, Rotating, Shown, LiftoffDue,
                       IdsOrdered, IdsDistinct, SameFinger, TotalLiftoff
<1>5. CASE UNCHANGED vars
  BY <1>5 DEF vars, IInv, TypeOK, Held, Rotating, Shown, LiftoffDue,
              IdsOrdered, IdsDistinct, SameFinger, TotalLiftoff
<1> QED  BY <1>1, <1>2, <1>3, <1>4, <1>5 DEF Next

\* So it holds always.
LEMMA Invariance == Spec => []IInv
BY InitInv, StepInv, PTL DEF Spec

\* The typing of the tracker's variables, indexes of the rotating arrays
\* included, whatever the frames and the thresholds.
THEOREM TypeCorrect == Spec => []TypeOK
<1>1. IInv => TypeOK
  BY DEF IInv
<1> QED  BY <1>1, Invariance, PTL

\* Two contacts reported in one frame never carry the same tracking id.
THEOREM FingersApart == Spec => []IdsDistinct
<1>1. IInv => IdsDistinct
  BY DEF IInv, IdsDistinct
<1> QED  BY <1>1, Invariance, PTL

\* The positions avg_filter averages are those of one finger, and none of its
\* moves exceeds MAX_DELTA.
THEOREM OneFingerAveraged == Spec => []SameFinger
<1>1. IInv => SameFinger
  BY DEF IInv
<1> QED  BY <1>1, Invariance, PTL

\* Between reads, a contact on the screen is one main will lift off.
THEOREM LiftoffRemembered == Spec => []QuietScreen
<1>1. IInv => QuietScreen
  BY DEF IInv, LiftoffDue, QuietScreen
<1> QED  BY <1>1, Invariance, PTL

\* The counter never hands out the id of a finger that has gone.
THEOREM IdsNeverReused == Spec => IdsFresh
<1> DEFINE Fresher ==
      \/ wrapped'
      \/ /\ tracking_id' >= tracking_id
         /\ \A d \in screen' :
              /\ d.id < tracking_id'
              /\ \/ d \in screen \/ d.id = -1
                 \/ \E i \in 1 .. previoustpc : tp[tpoint][i].id = d.id
                 \/ d.id >= tracking_id
<1>1. IInv /\ IInv' /\ [Next]_vars => [Fresher]_vars
  <2> SUFFICES ASSUME IInv, IInv', Next, ~wrapped' PROVE Fresher
    OBVIOUS
  <2>0. /\ tracking_id \in Nat
        /\ \A d \in screen' : d.id < tracking_id'
    BY DEF IInv, TypeOK, IdsOrdered
  <2>1. ASSUME NEW scan \in Frames, CalcPoint(scan) PROVE Fresher
    <3>1. PICK v : /\ Matched(v) /\ Lively(v) /\ Track(v)
                   /\ v.scan = scan /\ v.old = tp[Rotation[2]]
                   /\ v.n = (IF TotalLiftoff THEN 0 ELSE previoustpc)
                   /\ v.next = tracking_id
                   /\ ~wrapped => Ordered(v)
      BY <2>1, CalcPointFrame
    <3>2. ~wrapped /\ tracking_id' = NewId(v, Len(scan) + 1)
      BY <3>1 DEF Track
    <3>3. tracking_id <= tracking_id'
      <4>1. 0 \in Nat /\ Len(scan) + 1 \in Nat /\ 0 < Len(scan) + 1
        BY ScanType
      <4>2. /\ v.next <= NewId(v, 0) /\ NewId(v, 0) <= NewId(v, Len(scan) + 1)
            /\ NewId(v, 0) \in Nat /\ NewId(v, Len(scan) + 1) \in Nat
        BY <3>1, <4>1, NewIdMonotone
      <4> QED  BY <2>0, <3>1, <3>2, <4>2
    <3>4. ASSUME NEW d \in screen'
          PROVE  \/ d \in screen \/ d.id = -1
                 \/ \E i \in 1 .. previoustpc : tp[tpoint][i].id = d.id
                 \/ d.id >= tracking_id
      <4>1. CASE scan = <<>>
        BY <3>1, <4>1 DEF Track
      <4>2. CASE scan # <<>>
        <5>1. PICK i \in 1 .. Len(scan) : d.id = Tracked(v, i).id
          BY <3>1, <4>2 DEF Track
        <5>2. \/ d.id = -1 \/ d.id >= tracking_id
              \/ \E j \in 1 .. v.n : v.old[j].id = d.id
          BY <3>1, <3>2, <5>1, TrackedIds
        <5>3. \A j \in 1 .. v.n : v.old[j] = tp[tpoint][j] /\ v.n = previoustpc
          BY <3>1 DEF Rotation
        <5> QED  BY <5>2, <5>3
      <4> QED  BY <4>1, <4>2
    <3>5. tracking_id' >= tracking_id
      BY <2>0, <3>3 DEF IInv, TypeOK
    <3> QED  BY <2>0, <3>4, <3>5
  <2>2. CASE UNCHANGED tracking_id /\ screen' \subseteq screen
    BY <2>0, <2>2
  <2>3. CASE ReadDone \/ PartialRead \/ Timeout
    BY <2>2, <2>3 DEF ReadDone, PartialRead, Timeout, Lift
  <2>4. ASSUME NEW m \in DOMAIN Modes, SetMode(m) PROVE Fresher
    BY <2>2, <2>4 DEF SetMode
  <2> QED  BY <2>1, <2>3, <2>4 DEF Next
<1> QED  BY <1>1, Invariance, PTL DEF Spec, IdsFresh

\* A finger Android knows of stays on the screen for as long as its touch goes
\* on, however weak it becomes.
THEOREM HeldFingersShown == Spec => HeldStaysReported
<1> DEFINE Again ==
      tpoint' # tpoint =>
        \A c \in screen, i \in 1 .. previoustpc' :
          tp'[tpoint'][i].prev = c.slot => [slot |-> i, id |-> c.id] \in screen'
<1>1. IInv /\ [Next]_vars => [Again]_vars
  <2> SUFFICES ASSUME IInv, Next, tpoint' # tpoint PROVE Again
    OBVIOUS
  <2>1. ASSUME NEW scan \in Frames, CalcPoint(scan),
               NEW c \in screen, NEW i \in 1 .. previoustpc',
               tp'[tpoint'][i].prev = c.slot
        PROVE  [slot |-> i, id |-> c.id] \in screen'
    <3>1. PICK v : /\ Matched(v) /\ Lively(v) /\ Track(v)
                   /\ v.scan = scan /\ v.old = tp[Rotation[2]]
                   /\ v.n = (IF TotalLiftoff THEN 0 ELSE previoustpc)
                   /\ v.stale = tp[Rotation[1]]
      BY <2>1, CalcPointFrame
    <3>2. /\ i \in 1 .. Len(scan) /\ Len(scan) \in 0 .. MaxTouch
          /\ scan # <<>>
          /\ tp'[tpoint'][i] = AfterReport(Tracked(v, i))
      BY <2>1, <3>1, CalcPointSlots
    <3>3. c.slot \in Slots /\ Tracked(v, i).prev = c.slot
      BY <2>1, <3>1, <3>2, TrackedType DEF IInv, TypeOK, Contact
    <3>4. Kept(v, i) /\ v.near[i] = c.slot
      BY <3>3, TrackAssumption DEF Tracked, Slots
    <3>5. ~TotalLiftoff /\ v.old = tp[tpoint]
      BY <2>1, <3>1, CalcPointPlaces DEF Rotation
    <3>6. v.near[i] \in 1 .. previoustpc /\ previoustpc # 0
      BY <3>1, <3>2, <3>4, <3>5, ClaimedSlot DEF Kept, IInv, TypeOK
    <3>7. tp[tpoint][c.slot].id = c.id /\ tp[tpoint][c.slot].delay = 0
      BY <3>5, <3>6 DEF IInv, Shown
    <3>8. /\ Tracked(v, i).id = c.id /\ Tracked(v, i).delay = 0
          /\ Tracked(v, i).hv
      BY <3>4, <3>5, <3>7 DEF Tracked, DelayOf, Kept, Fresh
    <3>9. Reported(Tracked(v, i))
      BY <3>8 DEF Reported
    <3>10. screen' = {[slot |-> k, id |-> Tracked(v, k).id] :
                       k \in {j \in 1 .. Len(scan) : Reported(Tracked(v, j))}}
      BY <3>1, <3>2 DEF Track
    <3> QED  BY <3>2, <3>8, <3>9, <3>10
  <2>2. CASE ReadDone \/ PartialRead \/ Timeout
    BY <2>2 DEF ReadDone, PartialRead, Timeout
  <2>3. ASSUME NEW m \in DOMAIN Modes, SetMode(m) PROVE Again
    BY <2>3 DEF SetMode
  <2> QED  BY <2>1, <2>2, <2>3 DEF Next
<1> QED  BY <1>1, Invariance, PTL DEF Spec, HeldStaysReported
=============================================================================
