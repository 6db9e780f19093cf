----------------------------- MODULE MC_AudioHal -----------------------------
EXTENDS AudioHal

CONSTANTS play, rec, ctl

MCThreads == {play, rec, ctl}

Make(op, val) == [op |-> op, val |-> val]

\* The playback and the record thread drive their streams; a third thread
\* routes them and puts them into standby.
MCCalls ==
  [t \in MCThreads |->
     CASE t = play -> {Make("write", NoVal), Make("out_standby", NoVal)}
       [] t = rec  -> {Make("read", NoVal), Make("in_standby", NoVal)}
       [] t = ctl  -> {Make("in_standby", NoVal)}
                        \cup [op : {"out_routing", "in_routing"}, val : Devices]]
=============================================================================
