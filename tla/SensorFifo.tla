----------------------------- MODULE SensorFifo -----------------------------
(***************************************************************************)
(* What poll promises about the sensors whose every sample counts: samples  *)
(* are handed out in the order they were made, each once, and no more in a  *)
(* call than there is room for.  A call that ends with an error loses what  *)
(* it has written.                                                          *)
(***************************************************************************)
EXTENDS Naturals, Sequences, FiniteSetsExt

CONSTANTS Streams,  \* the sensors
          Samples,  \* their samples
          Room      \* events a call has room for

VARIABLES queue,    \* the samples of each sensor that have not been written
          out,      \* what the last call had written when it ended
          errors    \* calls that ended with an error

Init ==
  queue = [s \in Streams |-> <<>>] /\ out = [s \in Streams |-> <<>>] /\ errors = 0

Make(s, sample) ==
  queue' = [queue EXCEPT ![s] = Append(@, sample)] /\ UNCHANGED <<out, errors>>

\* What is written is what the queues begin with.
Written ==
  /\ MapThenSumSet(LAMBDA s : Len(out'[s]), Streams) <= Room
  /\ \A s \in Streams : queue[s] = out'[s] \o queue'[s]

HandOut == Written /\ UNCHANGED errors

Fail == Written /\ errors' = errors + 1

Next == HandOut \/ Fail \/ \E s \in Streams, sample \in Samples : Make(s, sample)

Spec == Init /\ [][Next]_<<queue, out, errors>>

=============================================================================
