------------------------------ MODULE TouchTrack ------------------------------
(***************************************************************************)
(* The touch tracker of the touchscreen driver (touchscreen_drv/ts_srv.c): *)
(* calc_point gives every touch of a digitizer frame a tracking id, either *)
(* the one of the closest touch of the frame before or a new one, filters  *)
(* out weak and impossible touches, and reports the others; main and       *)
(* snarf2 decide when everything is lifted off.                            *)
(*                                                                         *)
(* A touch is what determine_area_loc found of one area of the matrix: a   *)
(* position and the highest value.  Positions lie on a line (two touches   *)
(* with the same y).  Direction (an arctangent of filtered positions) is   *)
(* an arbitrary choice of the touches that go on in a straight line.       *)
(* Slots of a frame are numbered from 1; location 0 is the code's -1.      *)
(***************************************************************************)
EXTENDS Integers, Sequences, FiniteSets

CONSTANTS
  MaxTouch,       \* MAX_TOUCH: touches of one frame
  Frames,         \* the frames the digitizer delivers: sequences of Area
  Modes,          \* set_ts_mode: mode |-> [initial, continue, delay, count]
  MaxReach,       \* a touch this far away (squared) is never matched
  MaxDeltaSq,     \* MAX_DELTA_SQ
  MinPrevDeltaSq, \* MIN_PREV_DELTA_SQ
  IdReset,        \* the tracking id above which the counter restarts
  MaxSession      \* bound of the model: frames between two total lift-offs

Area == [pos : Nat, peak : Nat \ {0}]

ASSUME TrackAssumption ==
  /\ MaxTouch \in Nat \ {0}
  /\ Frames \subseteq Seq(Area)
  /\ \A f \in Frames : Len(f) <= MaxTouch
  /\ \A m \in DOMAIN Modes :
       Modes[m] \in [initial : Nat, continue : Nat, delay : Nat, count : Nat]
  /\ MaxReach \in Nat /\ MaxDeltaSq \in Nat /\ MinPrevDeltaSq \in Nat
  /\ IdReset \in Nat /\ MaxSession \in Nat

VARIABLES
  tp,          \* tp[3][MAX_TOUCH]: the touches of the last three frames
  tpoint, prevtpoint, prev2tpoint,  \* where in tp the last frames are
  previoustpc, \* touches of the last frame
  tracking_id, \* the next new tracking id
  mode,        \* the thresholds in force
  need_liftoff,\* main: something was reported since the last lift-off
  reading,     \* snarf2 is working through the bytes of one read
  ret,         \* snarf2's sum for this read is not zero
  screen,      \* the contacts of the last SYN_REPORT, what Android sees
  wrapped,     \* history: the id counter has restarted
  session      \* history: frames since the last total lift-off

vars == <<tp, tpoint, prevtpoint, prev2tpoint, previoustpc, tracking_id, mode,
          need_liftoff, reading, ret, screen, wrapped, session>>

Slots == 1 .. MaxTouch

\* A touch: its tracking id (-1: none), unfiltered position, whether its
\* highest value is not zero (zero: to be ignored), frames to wait before it
\* is reported, location in the previous frame, and whether its recorded
\* distance exceeds MIN_PREV_DELTA.
Touch == [id : Int, ux : Int, hv : BOOLEAN, delay : Nat \cup {-1000},
          prev : 0 .. MaxTouch, fast : BOOLEAN]

Cleared == [id |-> -1, ux |-> -1000, hv |-> TRUE, delay |-> -1000,
            prev |-> 0, fast |-> FALSE]

Contact == [slot : Slots, id : Int]

AllClear == [k \in 0 .. 2 |-> [i \in Slots |-> Cleared]]

-----------------------------------------------------------------------------
(* Matching the touches of a frame with those of the frame before.         *)

Dist(a, b) == (a - b) * (a - b)

\* What calc_point works with: scan (the areas of this frame), old (the n
\* previous touches), near (the previous touch closest to each area, or 0),
\* aligned (the touches that go on in the direction of their last movement),
\* thr (thresholds), stale (the touches being overwritten), next (the counter).
Frame == [scan : Seq(Area), old : [Slots -> Touch], n : 0 .. MaxTouch,
          near : UNION {[1 .. k -> 0 .. MaxTouch] : k \in 0 .. MaxTouch},
          aligned : SUBSET Slots,
          thr : [initial : Nat, continue : Nat, delay : Nat, count : Nat],
          stale : [Slots -> Touch], next : Nat]

\* near[i] is the first of the previous touches at the smallest distance of
\* touch i: touches that were ignored, or are out of reach, do not count.
IsNearest(v) ==
  LET D(i, j)   == Dist(v.scan[i].pos, v.old[j].ux)
      Within(i) == {j \in 1 .. v.n : v.old[j].hv /\ D(i, j) < MaxReach}
  IN  \A i \in 1 .. Len(v.scan) :
        \/ v.near[i] = 0 /\ Within(i) = {}
        \/ /\ v.near[i] \in Within(i)
           /\ \A j \in Within(i) :
                \/ D(i, v.near[i]) < D(i, j)
                \/ D(i, v.near[i]) = D(i, j) /\ v.near[i] <= j

DistTo(v, i) == Dist(v.scan[i].pos, v.old[v.near[i]].ux)

Claims_all(v, i) == v.near[i] # 0

\* Of the touches closest to one previous touch only the closest keeps it
\* (the last of them when several are equally close).
Claims(v, i) ==
  /\ v.near[i] # 0
  /\ \A k \in 1 .. Len(v.scan) :
       k # i /\ v.near[k] = v.near[i] =>
         \/ DistTo(v, i) < DistTo(v, k)
         \/ DistTo(v, i) = DistTo(v, k) /\ k < i

\* An impossibly large change, unless the touch was already moving that way.
Far(v, i) == Claims(v, i) /\ DistTo(v, i) > MaxDeltaSq
Swipe(v, i) == Far(v, i) /\ v.old[v.near[i]].fast /\ i \in v.aligned

Kept_far(v, i) == Claims(v, i)

\* The touch goes on as the previous touch near[i].
Kept(v, i) == Claims(v, i) /\ ~Far(v, i)

\* process_new_tpoint is called for it, and it is above the delay threshold.
Fresh(v, i) == ~Claims(v, i) \/ (Far(v, i) /\ ~Swipe(v, i))
Accepted(v, i) == Fresh(v, i) /\ v.scan[i].peak > v.thr.delay

NewId_same(v, i) == v.next

\* The id counter has moved on by one for every new touch before this one.
NewId(v, i) == v.next + Cardinality({k \in 1 .. (i - 1) : Accepted(v, k)})

DelayOf_restart(v, i) ==
  IF v.scan[i].peak <= v.thr.initial THEN v.thr.count ELSE 0

\* A touch that goes on keeps what is left of its delay; a new one that is not
\* above the initial threshold waits for count more frames.
DelayOf(v, i) ==
  IF Kept(v, i) THEN v.old[v.near[i]].delay
  ELSE IF Accepted(v, i) /\ v.scan[i].peak <= v.thr.initial THEN v.thr.count
  ELSE 0

\* Touch i of the frame once it has been matched.  A swipe keeps neither the
\* id of the touch it goes on from nor its location, and distance is only
\* written for a touch that goes on: other slots keep what they held.
Tracked(v, i) ==
  [id    |-> IF Kept(v, i) THEN v.old[v.near[i]].id
             ELSE IF Accepted(v, i) THEN NewId(v, i) ELSE -1,
   ux    |-> v.scan[i].pos,
   hv    |-> Fresh(v, i) => Accepted(v, i),
   delay |-> DelayOf(v, i),
   prev  |-> IF Kept(v, i) THEN v.near[i] ELSE 0,
   fast  |-> IF Kept(v, i) THEN DistTo(v, i) > MinPrevDeltaSq
             ELSE v.stale[i].fast]

\* Report touches: those that are neither ignored nor delayed.
Reported(t) == t.hv /\ t.delay = 0

AfterReport_always(t) ==
  IF ~Reported(t) THEN [t EXCEPT !.delay = @ - 1] ELSE t

\* A touch that is delayed has one frame less to wait.
AfterReport(t) ==
  IF ~Reported(t) /\ t.delay # 0 THEN [t EXCEPT !.delay = @ - 1] ELSE t

-----------------------------------------------------------------------------
Init ==
  /\ tp = AllClear
  /\ tpoint = 0 /\ prevtpoint = 0 /\ prev2tpoint = 0
  /\ previoustpc = 0 /\ tracking_id = 0
  /\ mode \in DOMAIN Modes
  /\ need_liftoff = FALSE /\ reading = FALSE /\ ret = FALSE
  /\ screen = {} /\ wrapped = FALSE /\ session = 0

\* No lift-off since the last frame: slot 0 of it was written.
TotalLiftoff == tp[tpoint][1].ux < -20

\* The frame that calc_point compares with is the last one, and the oldest is
\* overwritten; after a total lift-off the indexes stay as they are.
Rotation == IF TotalLiftoff THEN <<tpoint, prevtpoint, prev2tpoint>>
            ELSE <<(tpoint + 1) % 3, tpoint, prevtpoint>>

\* The frame calc_point makes of the areas of the matrix.
Scanned(scan, near, aligned) ==
  [scan |-> scan, old |-> tp[Rotation[2]],
   n |-> IF TotalLiftoff THEN 0 ELSE previoustpc, near |-> near,
   aligned |-> aligned, thr |-> Modes[mode], stale |-> tp[Rotation[1]],
   next |-> tracking_id]

\* The touches of frame v are tracked and reported.
Track(v) ==
  LET last == NewId(v, Len(v.scan) + 1)
      is   == 1 .. Len(v.scan)
  IN  /\ tp' = [tp EXCEPT ![Rotation[1]] = [i \in Slots |->
                  IF i \in is THEN AfterReport(Tracked(v, i)) ELSE v.stale[i]]]
      /\ screen' = IF v.scan = <<>> THEN screen
                   ELSE {[slot |-> i, id |-> Tracked(v, i).id] :
                          i \in {j \in is : Reported(Tracked(v, j))}}
      /\ tracking_id' = IF last > IdReset THEN 0 ELSE last
      /\ wrapped' = (wrapped \/ last > IdReset)

\* calc_point: a frame is complete.  The touches it may hold are the areas
\* above the continue threshold.
CalcPoint(scan) ==
  /\ ~wrapped /\ session < MaxSession
  /\ \A i \in 1 .. Len(scan) : scan[i].peak > Modes[mode].continue
  /\ \E near \in [1 .. Len(scan) -> 0 .. MaxTouch],
        aligned \in SUBSET (1 .. Len(scan)) :
       LET v == Scanned(scan, near, aligned)
       IN  /\ IsNearest(v)
           /\ \A i \in aligned : Far(v, i) /\ v.old[near[i]].fast
           /\ Track(v)
  /\ tpoint' = Rotation[1] /\ prevtpoint' = Rotation[2]
  /\ prev2tpoint' = Rotation[3]
  /\ previoustpc' = Len(scan)
  /\ reading' = TRUE
  /\ ret' = (ret \/ scan # <<>>)
  /\ session' = session + 1
  /\ UNCHANGED <<mode, need_liftoff>>

\* liftoff and clear_arrays, when something was reported.
Lift ==
  /\ tp' = IF need_liftoff THEN AllClear ELSE tp
  /\ screen' = IF need_liftoff THEN {} ELSE screen
  /\ session' = 0
  /\ need_liftoff' = FALSE

\* main has the result of snarf2 for this read.
ReadDone_forget ==
  /\ reading
  /\ reading' = FALSE /\ ret' = FALSE
  /\ need_liftoff' = FALSE
  /\ UNCHANGED <<tp, screen, tpoint, prevtpoint, prev2tpoint, previoustpc,
                 tracking_id, mode, wrapped, session>>

ReadDone ==
  /\ reading
  /\ reading' = FALSE /\ ret' = FALSE
  /\ IF ret THEN need_liftoff' = TRUE /\ UNCHANGED <<tp, screen, session>> ELSE Lift
  /\ UNCHANGED <<tpoint, prevtpoint, prev2tpoint, previoustpc, tracking_id,
                 mode, wrapped>>

\* A read whose bytes complete no frame: snarf2 returns 0 as well.
PartialRead ==
  /\ ~reading
  /\ Lift
  /\ UNCHANGED <<tpoint, prevtpoint, prev2tpoint, previoustpc, tracking_id,
                 mode, reading, ret, wrapped>>

Timeout_never ==
  /\ FALSE
  /\ UNCHANGED vars

\* select timed out: nothing has come from the digitizer for LIFTOFF_TIMEOUT.
Timeout ==
  /\ ~reading
  /\ Lift
  /\ UNCHANGED <<tpoint, prevtpoint, prev2tpoint, previoustpc, tracking_id,
                 mode, reading, ret, wrapped>>

\* set_ts_mode, between two reads.
SetMode(m) ==
  /\ ~reading
  /\ mode' = m
  /\ UNCHANGED <<tp, tpoint, prevtpoint, prev2tpoint, previoustpc, tracking_id,
                 need_liftoff, reading, ret, screen, wrapped, session>>

Next ==
  \/ \E scan \in Frames : CalcPoint(scan)
  \/ ReadDone
  \/ PartialRead
  \/ Timeout
  \/ \E m \in DOMAIN Modes : SetMode(m)

Spec == Init /\ [][Next]_vars

\* main is a real-time process that always returns to select, whose timeout
\* expires; the digitizer, the finger and the socket's clients owe nothing.
FairSpec == Spec /\ WF_vars(ReadDone) /\ WF_vars(Timeout)

-----------------------------------------------------------------------------
TypeOK ==
  /\ tp \in [0 .. 2 -> [Slots -> Touch]]
  /\ tpoint \in 0 .. 2 /\ prevtpoint \in 0 .. 2 /\ prev2tpoint \in 0 .. 2
  /\ previoustpc \in 0 .. MaxTouch
  /\ tracking_id \in Nat
  /\ mode \in DOMAIN Modes
  /\ need_liftoff \in BOOLEAN /\ reading \in BOOLEAN /\ ret \in BOOLEAN
  /\ screen \subseteq Contact
  /\ wrapped \in BOOLEAN /\ session \in 0 .. MaxSession

\* Two contacts reported in one frame never carry the same tracking id, so
\* that Android never takes two fingers for one (calc_point's pairwise removal
\* of mappings, and one id per new touch).  The id -1 of a swipe is apart.
IdsDistinct ==
  ~wrapped => \A c, d \in screen : c.id = d.id /\ c.id # -1 => c = d

\* avg_filter averages the last three positions of one finger: following
\* prev_loc back through the rotating arrays stays with one tracking id and
\* never jumps by more than MAX_DELTA.
SameFinger ==
  \A i \in 1 .. previoustpc :
    LET t == tp[tpoint][i]
        u == tp[prevtpoint][t.prev]
    IN  t.prev # 0 => /\ u.id = t.id
                      /\ Dist(t.ux, u.ux) <= MaxDeltaSq
                      /\ u.prev # 0 => tp[prev2tpoint][u.prev].id = t.id

\* Between reads, when main does not remember that a lift-off is due, Android
\* sees no contact: no path leaves a finger on the screen without need_liftoff.
QuietScreen == ~reading /\ ~need_liftoff => screen = {}

\* The tracking id of a finger that has gone is never given to another one: an
\* id that the last frame did not hold comes from the counter, which has moved
\* past every id in use and never goes back (until it restarts).
IdsFresh ==
  [][\/ wrapped'
     \/ /\ tracking_id' >= tracking_id
        /\ \A d \in screen' :
             /\ d.id < tracking_id'
             /\ \/ d \in screen \/ d.id = -1
                \/ \E i \in 1 .. previoustpc : tp[tpoint][i].id = d.id
                \/ d.id >= tracking_id]_vars

\* A touch that was reported and goes on in the next frame is reported again,
\* under the same id, however weak it has become (TOUCH_CONTINUE_THRESHOLD).
HeldStaysReported ==
  [][tpoint' # tpoint =>
       \A c \in screen, i \in 1 .. previoustpc' :
         tp'[tpoint'][i].prev = c.slot => [slot |-> i, id |-> c.id] \in screen']_vars

\* When the fingers go, so do the contacts: unless frames with touches keep
\* coming, the screen is empty again and again.
Released == []<>(screen = {}) \/ []<><<reading' /\ previoustpc' > 0>>_vars

=============================================================================
