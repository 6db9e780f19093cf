---------------------------- MODULE MC_TouchTrack ----------------------------
EXTENDS TouchTrack

\* Thresholds of ts_srv.c; the delays of 5 and 2 frames are 2 and 1 here.
MCModes ==
  [finger |-> [initial |-> 32, continue |-> 26, delay |-> 28, count |-> 2],
   stylus |-> [initial |-> 32, continue |-> 16, delay |-> 24, count |-> 1]]

At(p, k) == [pos |-> p, peak |-> k]

\* 0 and 100 are within MAX_DELTA of each other and a fast move; 300 is not.
\* A new touch of peak 27 is ignored in finger mode and delayed in stylus mode.
MCFrames ==
  {<<>>, <<At(0, 27)>>, <<At(0, 33)>>, <<At(100, 33)>>, <<At(300, 30)>>,
   <<At(300, 33)>>, <<At(100, 30), At(0, 33)>>, <<At(100, 33), At(300, 33)>>}
=============================================================================
