------------------------------ MODULE AudioHal ------------------------------
(***************************************************************************)
(* The streams of the audio HAL (audio/audio_hw.c): one output and one     *)
(* input stream, which open their PCM with the first write or read, close  *)
(* it in standby, and share the PCM card, which plays one group of sample  *)
(* rates at a time.  Threads of audioflinger call them concurrently; a step *)
(* of a call is what it does from one pthread_mutex_lock to the next.       *)
(*                                                                         *)
(* The mutexes are bionic's default ones: a thread that locks one it holds *)
(* waits for ever.  Opening and freeing the streams is left out, as are    *)
(* what is written and read, and how long that takes.                      *)
(***************************************************************************)
EXTENDS Naturals

CONSTANTS
  Threads,  \* threads of audioflinger
  Calls     \* Calls[t]: the calls thread t makes

Devices == {"builtin", "wired", "sco"}
NoVal == "none"

OutCalls == [op : {"write", "out_standby"}, val : {NoVal}]
              \cup [op : {"out_routing"}, val : Devices]
InCalls  == [op : {"read", "in_standby"}, val : {NoVal}]
              \cup [op : {"in_routing"}, val : Devices]

NoCall == [op |-> "none", val |-> NoVal]

Free == "free"

ASSUME AudioAssumption ==
  /\ Free \notin Threads
  /\ Calls \in [Threads -> SUBSET (OutCalls \cup InCalls)]

VARIABLES
  hal,     \* struct audio_device and its streams, see Hal
  holder,  \* who holds each mutex
  pc,      \* where each thread is: idle, waiting for a mutex, or in pcm_write
           \* or pcm_read
  call     \* what it was called for

vars == <<hal, holder, pc, call>>

Mutexes == {"adev", "out", "in"}

\* pcm_config_out and pcm_config_in are of the group of 44.1 kHz,
\* pcm_config_sco is of the group of 8 kHz.
Groups == {"main", "sco"}

Group_device(device) == device

Group(device) == IF device = "sco" THEN "sco" ELSE "main"

\* A PCM: none (NULL), the group it is open with, or closed: the pointer to it
\* is kept when it could not be opened.
Pcm == Groups \cup {"none", "closed"}

Hal == [out_device : Devices, in_device : Devices,
        active_out : BOOLEAN, active_in : BOOLEAN,   \* not NULL
        out_pcm : Pcm, in_pcm : Pcm,
        out_standby : BOOLEAN, in_standby : BOOLEAN, \* of the streams
        out_standby_pend : BOOLEAN,
        speaker : BOOLEAN, mic : BOOLEAN]  \* the mixer paths in force

Init ==
  /\ hal = [out_device |-> "builtin", in_device |-> "builtin",
            active_out |-> FALSE, active_in |-> FALSE,
            out_pcm |-> "none", in_pcm |-> "none",
            out_standby |-> TRUE, in_standby |-> TRUE,
            out_standby_pend |-> FALSE, speaker |-> FALSE, mic |-> FALSE]
  /\ holder = [l \in Mutexes |-> Free]
  /\ pc = [t \in Threads |-> "idle"]
  /\ call = [t \in Threads |-> NoCall]

-----------------------------------------------------------------------------
(* What is done with all mutexes held: the new state h leads to.            *)

DoOutStandby_pending(h) ==
  IF h.out_standby THEN h
  ELSE IF h.active_in /\ ~h.in_standby THEN [h EXCEPT !.out_standby_pend = TRUE]
  ELSE [h EXCEPT !.out_pcm = "none", !.active_out = FALSE, !.speaker = FALSE,
                 !.out_standby = TRUE]

\* Deferred while the input stream is running: the card serves both.
DoOutStandby(h) ==
  IF h.out_standby THEN h
  ELSE IF h.active_in /\ ~h.in_standby THEN [h EXCEPT !.out_standby_pend = TRUE]
  ELSE [h EXCEPT !.out_pcm = "none", !.active_out = FALSE, !.speaker = FALSE,
                 !.out_standby = TRUE, !.out_standby_pend = FALSE]

\* do_in_standby, up to the deferred standby of the output stream.
CloseIn(h) ==
  IF h.in_standby THEN h
  ELSE [h EXCEPT !.in_pcm = "none", !.active_in = FALSE, !.mic = FALSE,
                 !.in_standby = TRUE]

\* start_output_stream with no input stream active.
OpenOut(h) == [h EXCEPT !.out_pcm = Group(h.out_device), !.speaker = TRUE,
                        !.active_out = TRUE, !.out_standby = FALSE]

MakeRoom_never(h) == h

\* start_input_stream: an output stream of the other group goes to standby.
MakeRoom(h) ==
  IF h.active_out /\ h.out_pcm # Group(h.in_device) THEN DoOutStandby(h) ELSE h

OpenIn(h) == [h EXCEPT !.in_pcm = Group(h.in_device), !.mic = TRUE,
                       !.active_in = TRUE, !.in_standby = FALSE]

RouteOut_always(h, d) == [h EXCEPT !.out_device = d, !.speaker = TRUE]

\* The routing is changed: select_devices switches on what is active.
RouteOut(h, d) == [h EXCEPT !.out_device = d, !.speaker = @ \/ h.active_out]
RouteIn(h, d)  == [h EXCEPT !.in_device = d, !.mic = TRUE]

-----------------------------------------------------------------------------
(* The calls.                                                               *)

\* t gets mutex l, and releases those in done.
Acquires(t, l, done) ==
  /\ holder[l] = Free
  /\ holder' = [m \in Mutexes |-> IF m = l THEN t
                                  ELSE IF m \in done THEN Free ELSE holder[m]]

\* Mutex l is got and released within one step, and those in done are released.
Passes(l, done) ==
  /\ holder[l] = Free
  /\ holder' = [m \in Mutexes |-> IF m \in done THEN Free ELSE holder[m]]

Goes(t, from, to) == pc[t] = from /\ pc' = [pc EXCEPT ![t] = to]

Op(t) == call[t].op
Val(t) == call[t].val

Call(t, c) ==
  /\ Goes(t, "idle", "adev")
  /\ call' = [call EXCEPT ![t] = c]
  /\ UNCHANGED <<hal, holder>>

\* Whether a call asks for another routing, and for another PCM.
Reroutes(t) ==
  \/ Op(t) = "out_routing" /\ Val(t) # hal.out_device
  \/ Op(t) = "in_routing" /\ Val(t) # hal.in_device
Switches(t) ==
  \/ Op(t) = "out_routing" /\ Group(Val(t)) # Group(hal.out_device)
  \/ Op(t) = "in_routing" /\ Group(Val(t)) # Group(hal.in_device)

\* The mutex of the device comes first; set_parameters may need no other.
LockDevice(t) ==
  \/ /\ Op(t) \in {"out_routing", "in_routing"} => Switches(t)
     /\ Goes(t, "adev", "stream")
     /\ Acquires(t, "adev", {})
     /\ UNCHANGED <<hal, call>>
  \/ /\ Op(t) \in {"out_routing", "in_routing"} /\ ~Switches(t)
     /\ Goes(t, "adev", "idle")
     /\ Passes("adev", {})
     /\ hal' = IF ~Reroutes(t) THEN hal
               ELSE IF Op(t) = "out_routing" THEN RouteOut(hal, Val(t))
               ELSE RouteIn(hal, Val(t))
     /\ UNCHANGED call

\* out_write; pcm_open may fail.
Write(t) ==
  /\ Op(t) = "write"
  /\ \/ /\ ~hal.out_standby
        /\ Acquires(t, "out", {"adev"}) /\ Goes(t, "stream", "io")
        /\ UNCHANGED hal
     \/ /\ hal.out_standby /\ ~hal.active_in
        /\ hal' = OpenOut(hal)
        /\ Acquires(t, "out", {"adev"}) /\ Goes(t, "stream", "io")
     \/ /\ hal.out_standby /\ ~hal.active_in
        /\ hal' = [hal EXCEPT !.out_pcm = "closed"]
        /\ Passes("out", {"adev"}) /\ Goes(t, "stream", "idle")
     \/ /\ hal.out_standby /\ hal.active_in
        /\ Acquires(t, "out", {}) /\ Goes(t, "stream", "active_in")
        /\ UNCHANGED hal
  /\ UNCHANGED call

\* start_output_stream locks the mutex of the active input stream, and then
\* the same mutex again: it never gets any further.
LockActiveIn(t) ==
  /\ Goes(t, "active_in", "again")
  /\ Acquires(t, "in", {})
  /\ UNCHANGED <<hal, call>>

\* The rest of start_input_stream, from hardware state h: a thread that cannot
\* open the PCM sleeps, with the mutex of the stream, before it returns.
StartIn(t, from, h) ==
  \/ hal' = OpenIn(h) /\ Goes(t, from, "io")
  \/ hal' = [h EXCEPT !.in_pcm = "closed"] /\ Goes(t, from, "sleep")

\* in_read.
Read(t) ==
  /\ Op(t) = "read"
  /\ \/ /\ ~hal.in_standby
        /\ Acquires(t, "in", {"adev"}) /\ Goes(t, "stream", "io")
        /\ UNCHANGED hal
     \/ /\ hal.in_standby /\ ~hal.active_out
        /\ Acquires(t, "in", {"adev"}) /\ StartIn(t, "stream", hal)
     \/ /\ hal.in_standby /\ hal.active_out
        /\ Acquires(t, "in", {}) /\ Goes(t, "stream", "active_out")
        /\ UNCHANGED hal
  /\ UNCHANGED call

\* start_input_stream has the mutex of the active output stream.
LockActiveOut(t) ==
  /\ Passes("out", {"adev"})
  /\ StartIn(t, "active_out", MakeRoom(hal))
  /\ UNCHANGED call

EndIo_keeps(t) ==
  /\ pc[t] \in {"io", "sleep"} /\ Goes(t, pc[t], "idle")
  /\ UNCHANGED <<hal, call, holder>>

\* pcm_write or pcm_read returns, with an underrun perhaps, or the sleep ends.
EndIo(t) ==
  /\ pc[t] \in {"io", "sleep"} /\ Goes(t, pc[t], "idle")
  /\ holder' = [m \in Mutexes |-> IF holder[m] = t THEN Free ELSE holder[m]]
  /\ UNCHANGED <<hal, call>>

\* out_standby, and out_set_parameters when the PCM must change.
StandbyOut(t) ==
  /\ Op(t) \in {"out_standby", "out_routing"}
  /\ Goes(t, "stream", "idle")
  /\ Passes("out", {"adev"})
  /\ LET h == DoOutStandby(hal)
     IN  hal' = IF Op(t) = "out_routing" THEN RouteOut(h, Val(t)) ELSE h
  /\ UNCHANGED call

\* What in_standby and in_set_parameters do when do_in_standby returns.
AfterInStandby(t, h) ==
  hal' = IF Op(t) = "in_routing" THEN RouteIn(h, Val(t)) ELSE h

\* in_standby, and in_set_parameters when the PCM must change.
StandbyIn(t) ==
  /\ Op(t) \in {"in_standby", "in_routing"}
  /\ \/ /\ hal.out_standby_pend
        /\ Acquires(t, "in", {}) /\ Goes(t, "stream", "pend")
        /\ hal' = CloseIn(hal)
     \/ /\ ~hal.out_standby_pend
        /\ Passes("in", {"adev"}) /\ Goes(t, "stream", "idle")
        /\ AfterInStandby(t, CloseIn(hal))
  /\ UNCHANGED call

StandbyPending_unlocked(t) ==
  /\ Goes(t, "pend", "idle")
  /\ holder' = [holder EXCEPT !["adev"] = Free, !["in"] = Free]
  /\ AfterInStandby(t, DoOutStandby(hal))
  /\ UNCHANGED call

\* The deferred standby, with the mutex of adev->active_out.
StandbyPending(t) ==
  /\ Goes(t, "pend", "idle")
  /\ Passes("out", {"adev", "in"})
  /\ AfterInStandby(t, DoOutStandby(hal))
  /\ UNCHANGED call

Step(t) ==
  \/ LockDevice(t) \/ Write(t) \/ LockActiveIn(t) \/ Read(t) \/ LockActiveOut(t)
  \/ EndIo(t) \/ StandbyOut(t) \/ StandbyIn(t) \/ StandbyPending(t)

Next == \E t \in Threads : Step(t) \/ \E c \in Calls[t] : Call(t, c)

Spec == Init /\ [][Next]_vars

\* A thread in a call runs on, and some waiting thread gets a free mutex; no
\* mutex is promised to any one of them, and nobody has to call.
FairSpec == Spec /\ \A t \in Threads : WF_vars(Step(t))

-----------------------------------------------------------------------------
Pcs == {"idle", "adev", "stream", "active_in", "again", "active_out", "pend",
        "io", "sleep"}

TypeOK ==
  /\ hal \in Hal
  /\ holder \in [Mutexes -> Threads \cup {Free}]
  /\ pc \in [Threads -> Pcs]
  /\ call \in [Threads -> OutCalls \cup InCalls \cup {NoCall}]

Open(pcm) == pcm \in Groups

\* "All open PCMs can only use a single group of rates at once", whatever the
\* order in which streams start, stop and are routed (audio_hw.c:326-332).
RateGroup == Open(hal.out_pcm) /\ Open(hal.in_pcm) => hal.out_pcm = hal.in_pcm

\* The PCM a thread writes to or reads from without the device's mutex stays
\* open under it: every standby, the deferred one included, waits for the
\* stream's mutex.
PcmInUse ==
  \A t \in Threads : pc[t] = "io" =>
    Open(IF Op(t) = "write" THEN hal.out_pcm ELSE hal.in_pcm)

\* A deferred standby of the output stream always finds the stream it is for
\* (do_in_standby dereferences adev->active_out), and is never forgotten: some
\* input stream is still running, or someone is about to carry it out.
DeferredStandby ==
  hal.out_standby_pend =>
    /\ hal.active_out /\ ~hal.out_standby
    /\ \/ hal.active_in /\ ~hal.in_standby
       \/ \E t \in Threads : pc[t] = "pend"

\* Whatever calls have met and failed, what the device records as active, what
\* the streams believe, what is open and what the mixer plays agree.
Consistent ==
  /\ hal.active_out <=> ~hal.out_standby
  /\ hal.active_out <=> Open(hal.out_pcm)
  /\ hal.active_in <=> ~hal.in_standby
  /\ hal.active_in <=> Open(hal.in_pcm)
  /\ hal.speaker <=> hal.active_out
  /\ hal.active_in => hal.mic

\* Calls keep returning, unless start_output_stream has locked itself out: the
\* threads never wait for one another in a circle.
Progress ==
  \/ []<>(\A t \in Threads : pc[t] = "idle")
  \/ []<><<\E t \in Threads : pc[t] # "idle" /\ pc'[t] = "idle">>_vars
  \/ <>(\E t \in Threads : pc[t] = "again")

\* The mutex a thread waits for.
Wanted(t) ==
  CASE pc[t] = "adev" -> {"adev"}
    [] pc[t] = "stream" -> {IF call[t] \in OutCalls THEN "out" ELSE "in"}
    [] pc[t] \in {"active_in", "again"} -> {"in"}
    [] pc[t] \in {"active_out", "pend"} -> {"out"}
    [] OTHER -> {}

\* "when multiple mutexes have to be acquired, always take the audio_device
\* mutex first, followed by the stream_in and/or stream_out mutexes": a thread
\* waits for a mutex after those it holds, and never for one of them.
MutexOrder ==
  \A t \in Threads : \A l \in Wanted(t) :
    /\ holder[l] # t
    /\ l = "adev" => \A m \in Mutexes : holder[m] # t

=============================================================================
