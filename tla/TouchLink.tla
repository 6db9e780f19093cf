------------------------------ MODULE TouchLink ------------------------------
(***************************************************************************)
(* How the touchscreen is switched with the screen and set to a mode: the  *)
(* power HAL (libpower/power.c) and ts_srv_set connect to the socket of    *)
(* the touchscreen driver (ts_srv.c), which opens and closes the uart,     *)
(* powers the digitizer (digitizer.c) and keeps the mode in a file.        *)
(*                                                                         *)
(* HAL calls of several threads interleave; only powerHint takes a lock.   *)
(* The driver may die at any point; init starts it again.                  *)
(***************************************************************************)
EXTENDS Integers, Sequences, FiniteSets

CONSTANTS
  Interactive,  \* the thread that calls setInteractive
  Hints,        \* the threads that call powerHint
  Clients,      \* users of ts_srv_set
  ClientOps,    \* the commands they give
  Backlog,      \* connections that may wait to be accepted
  MaxCrash      \* bound of the model: times the driver dies

HalThreads == {Interactive} \cup Hints

Gone == "gone"   \* no thread, and no client: the other end is closed

ASSUME LinkAssumption ==
  /\ Interactive \notin Hints
  /\ HalThreads \cap Clients = {} /\ Gone \notin HalThreads \cup Clients
  /\ ClientOps \subseteq {"F", "S", "M"}
  /\ Backlog \in Nat \ {0} /\ MaxCrash \in Nat

VARIABLES
  \* power HAL
  screen,     \* the last argument of setInteractive
  ts_state,   \* what the HAL believes the touchscreen is
  halpc,      \* where each HAL thread is
  boostpulse, \* boostpulse_fd is open
  \* ts_srv_set
  cpc,        \* where each client is: the command it is about to send, or
              \* waiting for the answer to M
  \* the socket
  listening, queue,
  \* the driver
  pc, conn,   \* where main is, and the accepted connection
  uart,       \* uart_fd is open
  power,      \* digitizer.c's ts_state
  mode, file, \* the thresholds in force, the settings file
  \* outside
  vdd,        \* the digitizer is powered
  crashes,
  \* history
  raced,      \* two HAL calls have overlapped
  disturbed,  \* the driver has died, or a connection has been refused
  unsaved,    \* a mode could not be saved, or the driver died saving it
  asked       \* the last mode commanded

halvars == <<screen, ts_state, halpc, boostpulse, raced>>
drvvars == <<pc, conn, uart, power, mode, file, vdd, crashes, unsaved, asked>>
vars == <<halvars, cpc, drvvars, listening, queue, disturbed>>

TsModes  == {"finger", "stylus"}
None == "none"
\* A connection: who holds the other end, and what has been sent on it.
Connection == [peer : HalThreads \cup Clients \cup {Gone},
               data : {None, "O", "C", "F", "S", "M"}]
NoConn == [peer |-> Gone, data |-> None]

Init ==
  \* tenderloin_power_init has called set_interactive and is about to connect
  /\ screen = TRUE /\ ts_state = TRUE /\ boostpulse = FALSE
  /\ halpc = [t \in HalThreads |-> IF t = Interactive THEN "connect" ELSE "idle"]
  /\ cpc = [c \in Clients |-> "idle"]
  /\ listening = FALSE /\ queue = <<>>
  /\ pc = "start" /\ conn = NoConn
  /\ uart = FALSE /\ power = FALSE /\ vdd = FALSE
  /\ file \in {"none"} \cup TsModes /\ mode = "finger"
  /\ crashes = 0
  /\ raced = FALSE /\ disturbed = FALSE /\ unsaved = FALSE
  /\ asked = IF file = "none" THEN "finger" ELSE file

-----------------------------------------------------------------------------
(* Connecting and sending, as both clients do it.                           *)

CanQueue == listening /\ Len(queue) < Backlog

Enqueue(p) == queue' = Append(queue, [peer |-> p, data |-> None])

\* The connection p holds, waiting or accepted, becomes new (if the driver
\* that knew of it is still alive).
Becomes(p, new) ==
  /\ queue' = [i \in DOMAIN queue |-> IF queue[i].peer = p THEN new ELSE queue[i]]
  /\ conn' = IF conn.peer = p THEN new ELSE conn

-----------------------------------------------------------------------------
(* The power HAL.                                                           *)

\* The argument of the call a thread is making: hints pass 1.
On(t) == t = Interactive => screen

Begin(t) ==
  /\ halpc[t] = "idle"
  /\ halpc' = [halpc EXCEPT ![t] = "test"]
  /\ raced' = (raced \/ \E u \in HalThreads : halpc[u] # "idle")

SetInteractive(v) ==
  /\ Begin(Interactive)
  /\ screen' = v
  /\ UNCHANGED <<ts_state, boostpulse, cpc, drvvars, listening, queue, disturbed>>

\* boostpulse_open: the first hint, and the first after a failed write,
\* configures the governor, under the lock.
PowerHint(t) ==
  /\ ~boostpulse /\ \A u \in Hints : halpc[u] = "idle"
  /\ Begin(t)
  /\ boostpulse' = TRUE
  /\ UNCHANGED <<screen, ts_state, cpc, drvvars, listening, queue, disturbed>>

\* The write to boostpulse failed: it is opened again by the next hint.
BoostFails ==
  /\ boostpulse /\ \A u \in Hints : halpc[u] = "idle"
  /\ boostpulse' = FALSE
  /\ UNCHANGED <<screen, ts_state, halpc, raced, cpc, drvvars,
                 listening, queue, disturbed>>

\* set_interactive: ts_state is read here and written by the next step.
Test(t) ==
  /\ halpc[t] = "test"
  /\ halpc' = [halpc EXCEPT ![t] = IF On(t) # ts_state THEN "set" ELSE "idle"]
  /\ UNCHANGED <<screen, ts_state, boostpulse, raced, cpc, drvvars,
                 listening, queue, disturbed>>

SetState(t) ==
  /\ halpc[t] = "set"
  /\ ts_state' = On(t)
  /\ halpc' = [halpc EXCEPT ![t] = "connect"]
  /\ UNCHANGED <<screen, boostpulse, raced, cpc, drvvars, listening,
                 queue, disturbed>>

\* send_ts_socket: a refused connection is not noticed.
HalConnect(t) ==
  /\ halpc[t] = "connect"
  /\ \/ /\ CanQueue
        /\ Enqueue(t)
        /\ halpc' = [halpc EXCEPT ![t] = "send"]
        /\ UNCHANGED disturbed
     \/ /\ ~listening
        /\ halpc' = [halpc EXCEPT ![t] = "idle"]
        /\ disturbed' = TRUE
        /\ UNCHANGED queue
  /\ UNCHANGED <<screen, ts_state, boostpulse, raced, cpc, drvvars, listening>>

\* send, and close.
HalSend(t) ==
  /\ halpc[t] = "send"
  /\ halpc' = [halpc EXCEPT ![t] = "idle"]
  /\ Becomes(t, [peer |-> Gone, data |-> IF On(t) THEN "O" ELSE "C"])
  /\ UNCHANGED <<screen, ts_state, boostpulse, raced, cpc, pc, uart, power,
                 mode, file, vdd, crashes, unsaved, asked, listening, disturbed>>

HalStep(t) == Test(t) \/ SetState(t) \/ HalConnect(t) \/ HalSend(t)

-----------------------------------------------------------------------------
(* ts_srv_set.                                                              *)

ClientConnect(c, a) ==
  /\ cpc[c] = "idle" /\ CanQueue
  /\ Enqueue(c)
  /\ cpc' = [cpc EXCEPT ![c] = a]
  /\ UNCHANGED <<halvars, drvvars, listening, disturbed>>

\* The exit of the process closes the socket; M waits for the answer.
ClientSend(c) ==
  /\ cpc[c] \in {"F", "S", "M"}
  /\ Becomes(c, [peer |-> IF cpc[c] = "M" THEN c ELSE Gone, data |-> cpc[c]])
  /\ cpc' = [cpc EXCEPT ![c] = IF @ = "M" THEN "wait" ELSE "idle"]
  /\ UNCHANGED <<halvars, pc, uart, power, mode, file, vdd, crashes,
                 unsaved, asked, listening, disturbed>>

\* TS_SOCKET_TIMEOUT has passed, the driver has died, or the client is killed.
ClientLeaves(c) ==
  /\ cpc[c] # "idle"
  /\ Becomes(c, [peer |-> Gone, data |-> IF cpc[c] = "wait" THEN "M" ELSE None])
  /\ cpc' = [cpc EXCEPT ![c] = "idle"]
  /\ UNCHANGED <<halvars, pc, uart, power, mode, file, vdd, crashes,
                 unsaved, asked, listening, disturbed>>

-----------------------------------------------------------------------------
(* The driver: main, from its start.                                        *)

\* touchscreen_power: called with 1 while it is on, it switches it off.
TouchscreenPower(enable) ==
  /\ power' = (enable /\ ~power)
  /\ vdd' = IF enable /\ ~power THEN TRUE ELSE IF power THEN FALSE ELSE vdd

\* read_settings_file: finger, when nothing better can be read.
FileMode(f) == IF f = "stylus" THEN "stylus" ELSE "finger"

At(p, q) == pc = p /\ pc' = q

\* The process ends: only the file and the hardware keep their state.
Die ==
  /\ pc' = "start" /\ conn' = NoConn
  /\ uart' = FALSE /\ power' = FALSE /\ mode' = "finger"
  /\ listening' = FALSE /\ queue' = <<>>
  /\ disturbed' = TRUE
  /\ unsaved' = (unsaved \/ pc \in {"truncate", "write"})
  /\ UNCHANGED <<file, vdd, asked, halvars, cpc>>

\* A crash; also open_uart's exit when the uart cannot be opened.
Crash == crashes < MaxCrash /\ crashes' = crashes + 1 /\ Die

OpenUart == uart' = TRUE

Start_closed ==
  /\ At("start", "power")
  /\ UNCHANGED <<uart, conn, power, mode, file, vdd, crashes, unsaved, asked,
                 halvars, cpc, listening, queue, disturbed>>

Start ==
  /\ At("start", "power")
  /\ OpenUart
  /\ UNCHANGED <<conn, power, mode, file, vdd, crashes, unsaved, asked,
                 halvars, cpc, listening, queue, disturbed>>

StartPower ==
  /\ At("power", "socket")
  /\ TouchscreenPower(TRUE)
  /\ UNCHANGED <<conn, uart, mode, file, crashes, unsaved, asked,
                 halvars, cpc, listening, queue, disturbed>>

\* read_settings_file, open_uinput, liftoff and create_ts_socket.
StartSocket ==
  /\ At("socket", "select")
  /\ mode' = FileMode(file)
  /\ listening' = TRUE
  /\ UNCHANGED <<conn, uart, power, file, vdd, crashes, unsaved, asked,
                 halvars, cpc, queue, disturbed>>

Accept ==
  /\ At("select", "recv")
  /\ queue # <<>>
  /\ conn' = Head(queue) /\ queue' = Tail(queue)
  /\ UNCHANGED <<uart, power, mode, file, vdd, crashes, unsaved, asked,
                 halvars, cpc, listening, disturbed>>

\* recv blocks until the client has sent its command or closed.
Recv ==
  /\ conn.data # None \/ conn.peer = Gone
  /\ At("recv", IF conn.data # None THEN "process" ELSE "close")
  /\ UNCHANGED <<conn, uart, power, mode, file, vdd, crashes, unsaved, asked,
                 halvars, cpc, listening, queue, disturbed>>

Done_recv ==
  /\ At("close", "recv")
  /\ conn' = NoConn
  /\ UNCHANGED <<uart, power, mode, file, vdd, crashes, unsaved, asked,
                 halvars, cpc, listening, queue, disturbed>>

Done ==
  /\ At("close", "select")
  /\ conn' = NoConn
  /\ UNCHANGED <<uart, power, mode, file, vdd, crashes, unsaved, asked,
                 halvars, cpc, listening, queue, disturbed>>

CloseUart_kept ==
  /\ At("process", IF uart THEN "off" ELSE "close")
  /\ conn.data = "C"
  /\ UNCHANGED <<uart, conn, power, mode, file, vdd, crashes, unsaved, asked,
                 halvars, cpc, listening, queue, disturbed>>

CloseUart ==
  /\ At("process", IF uart THEN "off" ELSE "close")
  /\ conn.data = "C"
  /\ uart' = FALSE
  /\ UNCHANGED <<conn, power, mode, file, vdd, crashes, unsaved, asked,
                 halvars, cpc, listening, queue, disturbed>>

OpenCommand_always ==
  /\ At("process", "on")
  /\ conn.data = "O"
  /\ OpenUart
  /\ UNCHANGED <<conn, power, mode, file, vdd, crashes, unsaved, asked,
                 halvars, cpc, listening, queue, disturbed>>

OpenCommand ==
  /\ At("process", IF uart THEN "close" ELSE "on")
  /\ conn.data = "O"
  /\ OpenUart
  /\ UNCHANGED <<conn, power, mode, file, vdd, crashes, unsaved, asked,
                 halvars, cpc, listening, queue, disturbed>>

Switch ==
  /\ \/ At("on", "close") /\ TouchscreenPower(TRUE)
     \/ At("off", "close") /\ TouchscreenPower(FALSE)
  /\ UNCHANGED <<conn, uart, mode, file, crashes, unsaved, asked,
                 halvars, cpc, listening, queue, disturbed>>

SetTsMode ==
  /\ At("process", "truncate")
  /\ conn.data \in {"F", "S"}
  /\ mode' = IF conn.data = "F" THEN "finger" ELSE "stylus"
  /\ asked' = mode'
  /\ UNCHANGED <<conn, uart, power, file, vdd, crashes, unsaved,
                 halvars, cpc, listening, queue, disturbed>>

\* write_settings_file: fopen truncates the file, or fails.
Truncate ==
  /\ \/ At("truncate", "write") /\ file' = "empty" /\ UNCHANGED unsaved
     \/ At("truncate", "close") /\ unsaved' = TRUE /\ UNCHANGED file
  /\ UNCHANGED <<conn, uart, power, mode, vdd, crashes, asked,
                 halvars, cpc, listening, queue, disturbed>>

WriteSetting_finger ==
  /\ At("write", "close")
  /\ \/ file' = "finger" /\ UNCHANGED unsaved
     \/ unsaved' = TRUE /\ UNCHANGED file
  /\ UNCHANGED <<conn, uart, power, mode, vdd, crashes, asked,
                 halvars, cpc, listening, queue, disturbed>>

\* fputc and fclose may fail, and nobody looks.
WriteSetting ==
  /\ At("write", "close")
  /\ \/ file' = mode /\ UNCHANGED unsaved
     \/ unsaved' = TRUE /\ UNCHANGED file
  /\ UNCHANGED <<conn, uart, power, mode, vdd, crashes, asked,
                 halvars, cpc, listening, queue, disturbed>>

\* M: the mode is read from the file again, and put in force.
ReadMode ==
  /\ At("process", "reply")
  /\ conn.data = "M"
  /\ mode' = FileMode(file)
  /\ UNCHANGED <<conn, uart, power, file, vdd, crashes, unsaved, asked,
                 halvars, cpc, listening, queue, disturbed>>

\* The answer; sending it to a client that has gone raises SIGPIPE.
Reply ==
  \/ /\ conn.peer # Gone
     /\ At("reply", "close")
     /\ cpc' = [cpc EXCEPT ![conn.peer] = "idle"]
     /\ UNCHANGED <<conn, uart, power, mode, file, vdd, crashes, unsaved,
                    asked, halvars, listening, queue, disturbed>>
  \/ /\ conn.peer = Gone /\ pc = "reply"
     /\ Die /\ UNCHANGED crashes

DriverStep ==
  \/ Start \/ StartPower \/ StartSocket \/ Accept \/ Recv \/ Done
  \/ CloseUart \/ OpenCommand \/ Switch
  \/ SetTsMode \/ Truncate \/ WriteSetting \/ ReadMode \/ Reply

Next ==
  \/ \E v \in BOOLEAN : SetInteractive(v)
  \/ \E t \in Hints : PowerHint(t)
  \/ BoostFails
  \/ \E t \in HalThreads : HalStep(t)
  \/ \E c \in Clients :
       (\E a \in ClientOps : ClientConnect(c, a)) \/ ClientSend(c) \/ ClientLeaves(c)
  \/ Crash
  \/ DriverStep

Spec == Init /\ [][Next]_vars

\* Every process runs on once it has begun, and the kernel lets the HAL thread
\* in that waits for a full backlog; calls, clients' patience and crashes are
\* nobody's duty.
FairSpec ==
  /\ Spec
  /\ WF_vars(DriverStep)
  /\ \A t \in HalThreads : WF_vars(HalStep(t)) /\ SF_vars(HalConnect(t))
  /\ \A c \in Clients : WF_vars(ClientSend(c))

-----------------------------------------------------------------------------
(* Properties.                                                              *)

\* Whenever main is ready for the next command, the digitizer is powered
\* exactly when the uart is open and digitizer.c knows it: no sequence of
\* commands and crashes makes touchscreen_power(1) switch it off.
UartPowered == pc \in {"select", "recv", "process"} => uart = power /\ power = vdd

\* Nothing is under way between the HAL and the driver.
Quiet ==
  /\ \A t \in HalThreads : halpc[t] = "idle"
  /\ pc = "select" /\ queue = <<>>

\* When all HAL calls have been made one after the other, a screen that is on
\* has a working touchscreen once all is quiet, whatever driver crashes, lost
\* commands and hints there have been.
TouchAlive == ~raced /\ Quiet /\ screen => uart

\* ... and when no command was lost either, the HAL's belief is the truth.
Agreement == ~raced /\ ~disturbed /\ Quiet => uart = ts_state

\* The mode in force is the last one commanded, across queries and restarts,
\* unless it could not be saved.
ModeKept == ~unsaved /\ pc = "select" => mode = asked

\* The driver always gets back to its select, so that no client or HAL thread
\* can hold up the touchscreen for ever.
Responsive == []<>(pc = "select")

\* When the screen stays on the touchscreen comes to life, unless HAL calls
\* have overlapped.
Wakes == <>[]screen => []<>(uart \/ raced)

=============================================================================
