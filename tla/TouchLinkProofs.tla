--------------------------- MODULE TouchLinkProofs ---------------------------
(***************************************************************************)
(* Proofs about TouchLink, for any hint threads, clients, backlog and      *)
(* number of crashes.                                                      *)
(*                                                                         *)
(* The power of the digitizer and the settings file concern the driver      *)
(* alone.  That the touchscreen follows the screen is a matter of what is  *)
(* on its way: Outcome(v) says that the uart is going to be v when all the *)
(* connections there are have been served.                                 *)
(***************************************************************************)
EXTENDS TouchLink, SequenceTheorems, TLAPS

Booting == {"start", "power", "socket"}
Serving == {"select", "recv", "process", "close", "truncate", "write", "reply"}
Pcs == Booting \cup Serving \cup {"on", "off"}

\* Every variable that a property depends on has a value of its type.
TypeInv ==
  /\ screen \in BOOLEAN /\ ts_state \in BOOLEAN
  /\ halpc \in [HalThreads -> {"idle", "test", "set", "connect", "send"}]
  /\ cpc \in [Clients -> {"idle", "F", "S", "M", "wait"}]
  /\ listening \in BOOLEAN /\ queue \in Seq(Connection)
  /\ pc \in Pcs /\ conn \in Connection
  /\ uart \in BOOLEAN /\ power \in BOOLEAN /\ vdd \in BOOLEAN
  /\ mode \in TsModes /\ asked \in TsModes
  /\ raced \in BOOLEAN /\ disturbed \in BOOLEAN /\ unsaved \in BOOLEAN

\* The uart, what digitizer.c believes, and the power, wherever main is.
PowerInv ==
  /\ pc = "start" => ~uart /\ ~power
  /\ pc = "power" => uart /\ ~power
  /\ pc = "socket" => uart /\ power /\ vdd
  /\ pc \in Serving => (uart /\ power /\ vdd) \/ (~uart /\ ~power /\ ~vdd)
  /\ pc = "on" => uart /\ ~power /\ ~vdd
  /\ pc = "off" => ~uart /\ power /\ vdd

\* The last mode commanded is in the file, or about to be written there.
SavedInv ==
  ~unsaved =>
    /\ pc \notin {"truncate", "write"} => FileMode(file) = asked
    /\ pc \notin Booting => mode = asked

\* A connection that carries a command of the HAL, or is going to; and which.
Speaks(c) == c.data \in {"O", "C"} \/ c.peer \in HalThreads
Wants(c, v) == c.peer \in HalThreads \/ c.data = (IF v THEN "O" ELSE "C")

\* No connection that waits carries one; nor does the one accepted.
Silence == \A i \in 1 .. Len(queue) : ~Speaks(queue[i])
Heard == pc \in {"recv", "process"} /\ Speaks(conn)

\* The last command there is says v; or there is none, and the uart is as v
\* says, or is about to be opened.
Outcome(v) ==
  \/ \E i \in 1 .. Len(queue) :
       Speaks(queue[i]) /\ Wants(queue[i], v) /\ \A j \in (i + 1) .. Len(queue) : ~Speaks(queue[j])
  \/ Silence /\ Heard /\ Wants(conn, v)
  \/ Silence /\ ~Heard /\ ((uart <=> v) \/ (pc = "start" /\ v))

\* A HAL thread holds a connection only while it is about to send; a command
\* has been sent by one that has closed.
Plain(c, at) ==
  /\ c.peer \in HalThreads => at[c.peer] = "send" /\ c.data = None
  /\ c.data \in {"O", "C"} => c.peer = Gone

ConnInv ==
  /\ Plain(conn, halpc) /\ \A i \in 1 .. Len(queue) : Plain(queue[i], halpc)
  /\ listening <=> pc \notin Booting
  /\ pc \in Booting => queue = <<>>

Connecting == \E t \in HalThreads : halpc[t] = "connect"

\* While HAL calls do not overlap: there is one at most, ts_state is what it
\* tells the driver, and the driver is going to do so, but for commands that
\* were lost, which leave the uart open.
CallInv ==
  ~raced =>
    /\ \A t, u \in HalThreads : halpc[t] # "idle" /\ halpc[u] # "idle" => t = u
    /\ \A t \in HalThreads : halpc[t] \in {"connect", "send"} => On(t) = ts_state
    /\ screen /\ halpc[Interactive] \in {"idle", "connect", "send"} => ts_state
    /\ ~disturbed /\ ~listening => Connecting
    /\ ~Connecting => \A v \in BOOLEAN : (ts_state <=> v) /\ (v \/ ~disturbed) => Outcome(v)

IInv == TypeInv /\ PowerInv /\ SavedInv /\ ConnInv /\ CallInv

-----------------------------------------------------------------------------
(* Queues and connections.                                                  *)

\* What an exchange of p's connections leaves.
LEMMA BecomesKeeps ==
  ASSUME queue \in Seq(Connection), conn \in Connection,
         NEW p, NEW new \in Connection, Becomes(p, new)
  PROVE  /\ queue' \in Seq(Connection) /\ conn' \in Connection
         /\ Len(queue') = Len(queue)
         /\ \A i \in 1 .. Len(queue) : queue'[i] = IF queue[i].peer = p THEN new ELSE queue[i]
<1>1. Len(queue) \in Nat /\ DOMAIN queue = 1 .. Len(queue)
  OBVIOUS
<1>2. \A i \in 1 .. Len(queue) : queue[i] \in Connection
  OBVIOUS
<1>3. queue' = [i \in 1 .. Len(queue) |-> IF queue[i].peer = p THEN new ELSE queue[i]]
  BY <1>1 DEF Becomes
<1>4. queue' \in [1 .. Len(queue) -> Connection]
  BY <1>2, <1>3
<1>5. queue' \in Seq(Connection)
  BY <1>1, <1>4
<1>6. Len(queue') = Len(queue)
  BY <1>1, <1>3, <1>5
<1> QED
  BY <1>3, <1>5, <1>6 DEF Becomes

\* What a new connection leaves.
LEMMA EnqueueKeeps ==
  ASSUME queue \in Seq(Connection), NEW p \in HalThreads \cup Clients, Enqueue(p)
  PROVE  /\ queue' \in Seq(Connection) /\ Len(queue') = Len(queue) + 1
         /\ \A i \in 1 .. Len(queue) : queue'[i] = queue[i]
         /\ queue'[Len(queue) + 1] = [peer |-> p, data |-> None]
<1>1. [peer |-> p, data |-> None] \in Connection
  BY DEF Connection
<1> QED
  BY <1>1 DEF Enqueue

\* What is left when the first connection is accepted.
LEMMA AcceptKeeps ==
  ASSUME queue \in Seq(Connection), Accept
  PROVE  /\ queue' \in Seq(Connection) /\ conn' \in Connection
         /\ Len(queue) >= 1 /\ Len(queue') = Len(queue) - 1
         /\ \A i \in 1 .. Len(queue') : queue'[i] = queue[i + 1]
         /\ conn' = queue[1]
  BY DEF Accept

-----------------------------------------------------------------------------
(* Types.                                                                   *)

LEMMA NoConnType == NoConn \in Connection
  BY DEF NoConn, Connection

LEMMA TypeInit == Init => TypeInv
<1> SUFFICES ASSUME Init PROVE TypeInv
  OBVIOUS
<1>1. queue \in Seq(Connection) /\ conn \in Connection
  BY NoConnType DEF Init
<1>2. mode \in TsModes /\ asked \in TsModes
  BY DEF Init, TsModes
<1> QED
  BY <1>1, <1>2 DEF Init, TypeInv, Pcs, Booting

\* Calls of the HAL and of clients keep the types.
LEMMA TypeHal ==
  ASSUME TypeInv, NEW t \in HalThreads,
         HalStep(t) \/ (\E v \in BOOLEAN : SetInteractive(v)) \/ PowerHint(t) \/ BoostFails
  PROVE  TypeInv'
<1>1. CASE \E v \in BOOLEAN : SetInteractive(v)
  BY <1>1 DEF TypeInv, SetInteractive, Begin, drvvars, HalThreads
<1>2. CASE PowerHint(t)
  BY <1>2 DEF TypeInv, PowerHint, Begin, drvvars
<1>3. CASE BoostFails
  BY <1>3 DEF TypeInv, BoostFails, drvvars
<1>4. CASE Test(t)
  BY <1>4 DEF TypeInv, Test, drvvars
<1>5. CASE SetState(t)
  <2>1. On(t) \in BOOLEAN
    BY DEF On, TypeInv
  <2> QED
    BY <1>5, <2>1 DEF TypeInv, SetState, drvvars
<1>6. CASE HalConnect(t)
  <2>1. queue' \in Seq(Connection)
    BY <1>6, EnqueueKeeps DEF HalConnect, TypeInv
  <2> QED
    BY <1>6, <2>1 DEF TypeInv, HalConnect, drvvars
<1>7. CASE HalSend(t)
  <2>1. [peer |-> Gone, data |-> IF On(t) THEN "O" ELSE "C"] \in Connection
    BY DEF Connection
  <2>2. queue' \in Seq(Connection) /\ conn' \in Connection
    BY <1>7, <2>1, BecomesKeeps DEF HalSend, TypeInv
  <2> QED
    BY <1>7, <2>2 DEF TypeInv, HalSend
<1> QED
  BY <1>1, <1>2, <1>3, <1>4, <1>5, <1>6, <1>7 DEF HalStep

LEMMA TypeClient ==
  ASSUME TypeInv, NEW c \in Clients,
         (\E a \in ClientOps : ClientConnect(c, a)) \/ ClientSend(c) \/ ClientLeaves(c)
  PROVE  TypeInv'
<1>1. CASE \E a \in ClientOps : ClientConnect(c, a)
  <2> PICK a \in ClientOps : ClientConnect(c, a)
    BY <1>1
  <2>1. a \in {"F", "S", "M"}
    BY LinkAssumption
  <2>2. queue' \in Seq(Connection)
    BY EnqueueKeeps DEF ClientConnect, TypeInv
  <2> QED
    BY <2>1, <2>2 DEF TypeInv, ClientConnect, halvars, drvvars
<1>2. CASE ClientSend(c)
  <2>1. [peer |-> IF cpc[c] = "M" THEN c ELSE Gone, data |-> cpc[c]] \in Connection
    BY <1>2 DEF Connection, ClientSend
  <2>2. queue' \in Seq(Connection) /\ conn' \in Connection
    BY <1>2, <2>1, BecomesKeeps DEF ClientSend, TypeInv
  <2> QED
    BY <1>2, <2>2 DEF TypeInv, ClientSend, halvars
<1>3. CASE ClientLeaves(c)
  <2>1. [peer |-> Gone, data |-> IF cpc[c] = "wait" THEN "M" ELSE None] \in Connection
    BY DEF Connection
  <2>2. queue' \in Seq(Connection) /\ conn' \in Connection
    BY <1>3, <2>1, BecomesKeeps DEF ClientLeaves, TypeInv
  <2> QED
    BY <1>3, <2>2 DEF TypeInv, ClientLeaves, halvars
<1> QED
  BY <1>1, <1>2, <1>3

LEMMA TypeDie == TypeInv /\ Die => TypeInv'
<1> SUFFICES ASSUME TypeInv, Die PROVE TypeInv'
  OBVIOUS
<1>1. queue' \in Seq(Connection) /\ conn' \in Connection
  BY NoConnType DEF Die
<1>2. mode' \in TsModes
  BY DEF Die, TsModes
<1> QED
  BY <1>1, <1>2 DEF TypeInv, Die, halvars, Pcs, Booting

LEMMA TypeDriver == TypeInv /\ DriverStep => TypeInv'
<1> SUFFICES ASSUME TypeInv, DriverStep PROVE TypeInv'
  OBVIOUS
<1> USE DEF Pcs, Booting, Serving
<1>1. CASE Start
  BY <1>1 DEF TypeInv, Start, At, OpenUart, halvars
<1>2. CASE StartPower
  BY <1>2 DEF TypeInv, StartPower, At, TouchscreenPower, halvars
<1>3. CASE StartSocket
  BY <1>3 DEF TypeInv, StartSocket, At, FileMode, TsModes, halvars
<1>4. CASE Accept
  <2>1. queue' \in Seq(Connection) /\ conn' \in Connection
    BY <1>4, AcceptKeeps DEF TypeInv
  <2> QED
    BY <1>4, <2>1 DEF TypeInv, Accept, At, halvars
<1>5. CASE Recv
  BY <1>5 DEF TypeInv, Recv, At, halvars
<1>6. CASE Done
  BY <1>6, NoConnType DEF TypeInv, Done, At, halvars
<1>7. CASE CloseUart
  BY <1>7 DEF TypeInv, CloseUart, At, halvars
<1>8. CASE OpenCommand
  BY <1>8 DEF TypeInv, OpenCommand, OpenUart, At, halvars
<1>9. CASE Switch
  BY <1>9 DEF TypeInv, Switch, TouchscreenPower, At, halvars
<1>10. CASE SetTsMode
  BY <1>10 DEF TypeInv, SetTsMode, TsModes, At, halvars
<1>11. CASE Truncate
  BY <1>11 DEF TypeInv, Truncate, At, halvars
<1>12. CASE WriteSetting
  BY <1>12 DEF TypeInv, WriteSetting, At, halvars
<1>13. CASE ReadMode
  BY <1>13 DEF TypeInv, ReadMode, FileMode, TsModes, At, halvars
<1>14. CASE Reply
  <2>1. CASE Die
    BY <2>1, TypeDie
  <2>2. CASE ~Die
    BY <1>14, <2>2 DEF TypeInv, Reply, At, halvars
  <2> QED
    BY <2>1, <2>2
<1> QED
  BY <1>1, <1>2, <1>3, <1>4, <1>5, <1>6, <1>7, <1>8, <1>9, <1>10, <1>11, <1>12, <1>13, <1>14
     DEF DriverStep

LEMMA TypeStep == TypeInv /\ [Next]_vars => TypeInv'
<1> SUFFICES ASSUME TypeInv, [Next]_vars PROVE TypeInv'
  OBVIOUS
<1>1. CASE UNCHANGED vars
  BY <1>1 DEF TypeInv, vars, halvars, drvvars
<1>2. CASE Crash
  BY <1>2, TypeDie DEF Crash
<1>3. Interactive \in HalThreads /\ Hints \subseteq HalThreads
  BY DEF HalThreads
<1> QED
  BY <1>1, <1>2, <1>3, TypeHal, TypeClient, TypeDriver DEF Next

-----------------------------------------------------------------------------
(* The driver: the power of the digitizer, and the settings file.           *)

\* A step of somebody else.
Elsewhere ==
  \/ \E v \in BOOLEAN : SetInteractive(v)
  \/ \E t \in Hints : PowerHint(t)
  \/ BoostFails
  \/ \E t \in HalThreads : HalStep(t)
  \/ \E c \in Clients :
       (\E a \in ClientOps : ClientConnect(c, a)) \/ ClientSend(c) \/ ClientLeaves(c)

\* ... leaves alone all that the driver has, but for its connection.
LEMMA ElsewhereKeeps ==
  Elsewhere => UNCHANGED <<pc, uart, power, mode, file, vdd, unsaved, asked, listening>>
<1> SUFFICES ASSUME Elsewhere
             PROVE UNCHANGED <<pc, uart, power, mode, file, vdd, unsaved, asked, listening>>
  OBVIOUS
<1>1. CASE \E v \in BOOLEAN : SetInteractive(v)
  BY <1>1 DEF SetInteractive, drvvars
<1>2. CASE \E t \in Hints : PowerHint(t)
  BY <1>2 DEF PowerHint, drvvars
<1>3. CASE BoostFails
  BY <1>3 DEF BoostFails, drvvars
<1>4. CASE \E t \in HalThreads : HalStep(t)
  BY <1>4 DEF HalStep, Test, SetState, HalConnect, HalSend, drvvars
<1>5. CASE \E c \in Clients : (\E a \in ClientOps : ClientConnect(c, a)) \/ ClientSend(c)
                              \/ ClientLeaves(c)
  BY <1>5 DEF ClientConnect, ClientSend, ClientLeaves, drvvars
<1> QED
  BY <1>1, <1>2, <1>3, <1>4, <1>5 DEF Elsewhere

LEMMA PowerDriver == TypeInv /\ PowerInv /\ DriverStep => PowerInv'
<1> SUFFICES ASSUME TypeInv, PowerInv, DriverStep PROVE PowerInv'
  OBVIOUS
<1> USE DEF PowerInv, Booting, Serving, At, TypeInv
<1>1. CASE Start
  BY <1>1 DEF Start, OpenUart
<1>2. CASE StartPower
  BY <1>2 DEF StartPower, TouchscreenPower
<1>3. CASE StartSocket
  BY <1>3 DEF StartSocket
<1>4. CASE Accept \/ Recv \/ Done
  BY <1>4 DEF Accept, Recv, Done
<1>5. CASE CloseUart
  <2>1. pc = "process" /\ ~uart' /\ UNCHANGED <<power, vdd>>
    BY <1>5 DEF CloseUart
  <2>2. pc' = IF uart THEN "off" ELSE "close"
    BY <1>5 DEF CloseUart
  <2>3. CASE uart
    BY <2>1, <2>2, <2>3
  <2>4. CASE ~uart
    BY <2>1, <2>2, <2>4
  <2> QED
    BY <2>3, <2>4
<1>6. CASE OpenCommand
  <2>1. pc = "process" /\ uart' /\ UNCHANGED <<power, vdd>>
    BY <1>6 DEF OpenCommand, OpenUart
  <2>2. pc' = IF uart THEN "close" ELSE "on"
    BY <1>6 DEF OpenCommand
  <2>3. CASE uart
    BY <2>1, <2>2, <2>3
  <2>4. CASE ~uart
    BY <2>1, <2>2, <2>4
  <2> QED
    BY <2>3, <2>4
<1>7. CASE Switch
  BY <1>7 DEF Switch, TouchscreenPower
<1>8. CASE SetTsMode \/ Truncate \/ WriteSetting \/ ReadMode
  BY <1>8 DEF SetTsMode, Truncate, WriteSetting, ReadMode
<1>9. CASE Reply
  BY <1>9 DEF Reply, Die
<1> QED
  BY <1>1, <1>2, <1>3, <1>4, <1>5, <1>6, <1>7, <1>8, <1>9 DEF DriverStep

LEMMA SavedDriver == TypeInv /\ SavedInv /\ DriverStep => SavedInv'
<1> SUFFICES ASSUME TypeInv, SavedInv, DriverStep PROVE SavedInv'
  OBVIOUS
<1> USE DEF SavedInv, Booting, At, TypeInv
<1>1. CASE Start \/ StartPower \/ Accept \/ Recv \/ Done
  BY <1>1 DEF Start, StartPower, Accept, Recv, Done, FileMode
<1>2. CASE StartSocket
  BY <1>2 DEF StartSocket, FileMode
<1>3. CASE CloseUart \/ OpenCommand \/ Switch
  BY <1>3 DEF CloseUart, OpenCommand, Switch, FileMode
<1>4. CASE SetTsMode
  BY <1>4 DEF SetTsMode
<1>5. CASE Truncate
  BY <1>5 DEF Truncate
<1>6. CASE WriteSetting
  BY <1>6 DEF WriteSetting, FileMode, TsModes
<1>7. CASE ReadMode
  BY <1>7 DEF ReadMode, FileMode
<1>8. CASE Reply
  BY <1>8 DEF Reply, Die, FileMode
<1> QED
  BY <1>1, <1>2, <1>3, <1>4, <1>5, <1>6, <1>7, <1>8 DEF DriverStep

LEMMA DriverInit == Init => PowerInv /\ SavedInv
  BY DEF Init, PowerInv, SavedInv, Booting, Serving, FileMode, TsModes

LEMMA PowerSavedStep ==
  TypeInv /\ PowerInv /\ SavedInv /\ [Next]_vars => PowerInv' /\ SavedInv'
<1> SUFFICES ASSUME TypeInv, PowerInv, SavedInv, [Next]_vars PROVE PowerInv' /\ SavedInv'
  OBVIOUS
<1>1. CASE Elsewhere \/ UNCHANGED vars
  <2>1. UNCHANGED <<pc, uart, power, mode, file, vdd, unsaved, asked>>
    BY <1>1, ElsewhereKeeps DEF vars, drvvars
  <2> QED
    BY <2>1 DEF PowerInv, SavedInv, FileMode
<1>2. CASE Crash
  BY <1>2 DEF PowerInv, SavedInv, Crash, Die, FileMode, Booting, Serving
<1>3. CASE DriverStep
  BY <1>3, PowerDriver, SavedDriver
<1> QED
  BY <1>1, <1>2, <1>3 DEF Next, Elsewhere

-----------------------------------------------------------------------------
(* Connections.                                                             *)

LEMMA ConnInit == Init => ConnInv
<1> SUFFICES ASSUME Init PROVE ConnInv
  OBVIOUS
<1>1. Len(queue) = 0
  BY DEF Init
<1>2. Plain(conn, halpc)
  BY LinkAssumption DEF Init, Plain, NoConn, None
<1> QED
  BY <1>1, <1>2 DEF Init, ConnInv, Booting

\* A call that begins or goes on leaves the connections alone.
LEMMA ConnIdle ==
  ASSUME TypeInv, ConnInv, NEW t \in HalThreads,
         halpc[t] # "send", \A u \in HalThreads \ {t} : halpc'[u] = halpc[u],
         UNCHANGED <<queue, conn, pc, listening>>
  PROVE  ConnInv'
<1>1. ASSUME NEW c, Plain(c, halpc) PROVE Plain(c, halpc')
  BY <1>1 DEF Plain
<1> QED
  BY <1>1 DEF ConnInv

\* What a client sends, or leaves behind, is no command of the HAL.
LEMMA ClientSays ==
  ASSUME NEW c \in Clients, ClientSend(c) \/ ClientLeaves(c)
  PROVE  \E new \in Connection : Becomes(c, new) /\ Plain(new, halpc) /\ ~Speaks(new)
<1>0. Gone \notin HalThreads /\ c \notin HalThreads
  BY LinkAssumption
<1>1. CASE ClientSend(c)
  <2> DEFINE new == [peer |-> IF cpc[c] = "M" THEN c ELSE Gone, data |-> cpc[c]]
  <2>1. new \in Connection /\ Becomes(c, new)
    BY <1>1 DEF Connection, ClientSend
  <2>2. Plain(new, halpc) /\ ~Speaks(new)
    BY <1>0, <1>1 DEF Plain, Speaks, ClientSend
  <2> QED
    BY <2>1, <2>2
<1>2. CASE ClientLeaves(c)
  <2> DEFINE new == [peer |-> Gone, data |-> IF cpc[c] = "wait" THEN "M" ELSE None]
  <2>1. new \in Connection /\ Becomes(c, new)
    BY <1>2 DEF Connection, ClientLeaves
  <2>2. Plain(new, halpc) /\ ~Speaks(new)
    BY <1>0 DEF Plain, Speaks, None
  <2> QED
    BY <2>1, <2>2
<1> QED
  BY <1>1, <1>2

LEMMA ConnElsewhere == TypeInv /\ ConnInv /\ Elsewhere => ConnInv'
<1> SUFFICES ASSUME TypeInv, ConnInv, Elsewhere PROVE ConnInv'
  OBVIOUS
<1>0. Interactive \in HalThreads /\ Hints \subseteq HalThreads
  BY DEF HalThreads
<1>1. CASE \E v \in BOOLEAN : SetInteractive(v)
  BY <1>0, <1>1, ConnIdle DEF SetInteractive, Begin, drvvars, TypeInv
<1>2. CASE \E t \in Hints : PowerHint(t)
  <2> PICK t \in Hints : PowerHint(t)
    BY <1>2
  <2> QED
    BY <1>0, ConnIdle DEF PowerHint, Begin, drvvars, TypeInv
<1>3. CASE BoostFails
  BY <1>3 DEF BoostFails, drvvars, ConnInv, Plain
<1>4. ASSUME NEW t \in HalThreads, HalStep(t) PROVE ConnInv'
  <2>1. CASE Test(t)
    BY <2>1, ConnIdle DEF Test, drvvars, TypeInv
  <2>2. CASE SetState(t)
    BY <2>2, ConnIdle DEF SetState, drvvars, TypeInv
  <2>3. CASE HalConnect(t) /\ queue' = queue
    BY <2>3, ConnIdle DEF HalConnect, drvvars, TypeInv
  <2>4. CASE HalConnect(t) /\ Enqueue(t) /\ listening /\ halpc' = [halpc EXCEPT ![t] = "send"]
    <3>1. ASSUME NEW c, Plain(c, halpc) PROVE Plain(c, halpc')
      BY <2>4, <3>1 DEF Plain, TypeInv
    <3>2. Plain([peer |-> t, data |-> None], halpc')
      BY <2>4 DEF Plain, TypeInv, None
    <3>3. \A i \in 1 .. Len(queue') : Plain(queue'[i], halpc')
      <4> TAKE i \in 1 .. Len(queue')
      <4>1. Len(queue) \in Nat
        BY DEF TypeInv
      <4>2. CASE i = Len(queue) + 1
        BY <2>4, <3>2, <4>2, EnqueueKeeps DEF TypeInv
      <4>3. CASE i # Len(queue) + 1
        <5>1. Len(queue') = Len(queue) + 1
          BY <2>4, EnqueueKeeps DEF TypeInv
        <5>2. i \in 1 .. Len(queue)
          BY <4>1, <4>3, <5>1
        <5>3. queue'[i] = queue[i]
          BY <2>4, <5>2, EnqueueKeeps DEF TypeInv
        <5> QED
          BY <3>1, <5>2, <5>3 DEF ConnInv
      <4> QED
        BY <4>2, <4>3
    <3> QED
      BY <2>4, <3>1, <3>3 DEF ConnInv, HalConnect, drvvars
  <2>5. CASE HalSend(t)
    <3> DEFINE new == [peer |-> Gone, data |-> IF On(t) THEN "O" ELSE "C"]
    <3>1. new \in Connection /\ Becomes(t, new)
      BY <2>5 DEF HalSend, Connection
    <3>2. Plain(new, halpc')
      BY LinkAssumption DEF Plain
    <3>3. ASSUME NEW c, Plain(c, halpc), c.peer # t PROVE Plain(c, halpc')
      BY <2>5, <3>3 DEF Plain, HalSend, TypeInv
    <3>4. \A i \in 1 .. Len(queue') : Plain(queue'[i], halpc')
      BY <3>1, <3>2, <3>3, BecomesKeeps DEF ConnInv, TypeInv
    <3>5. Plain(conn', halpc')
      BY <3>1, <3>2, <3>3 DEF ConnInv, Becomes
    <3>6. Len(queue') = Len(queue) /\ queue' \in Seq(Connection)
      BY <3>1, BecomesKeeps DEF TypeInv
    <3>7. pc \in Booting => queue' = <<>>
      BY <3>6, EmptySeq DEF ConnInv
    <3> QED
      BY <2>5, <3>4, <3>5, <3>7 DEF ConnInv, HalSend
  <2> QED
    BY <1>4, <2>1, <2>2, <2>3, <2>4, <2>5 DEF HalStep, HalConnect, CanQueue
<1>5. ASSUME NEW c \in Clients, NEW a \in ClientOps, ClientConnect(c, a) PROVE ConnInv'
  <2>1. Enqueue(c) /\ listening /\ UNCHANGED <<halpc, conn, pc, listening>>
    BY <1>5 DEF ClientConnect, CanQueue, halvars, drvvars
  <2>2. Plain([peer |-> c, data |-> None], halpc)
    BY LinkAssumption DEF Plain, None
  <2>3. \A i \in 1 .. Len(queue') : Plain(queue'[i], halpc)
    BY <2>1, <2>2, EnqueueKeeps DEF ConnInv, TypeInv
  <2> QED
    BY <2>1, <2>3 DEF ConnInv, Plain
<1>6. ASSUME NEW c \in Clients, ClientSend(c) \/ ClientLeaves(c) PROVE ConnInv'
  <2>1. PICK new \in Connection : Becomes(c, new) /\ Plain(new, halpc)
    BY <1>6, ClientSays
  <2>2. UNCHANGED <<halpc, pc, listening>>
    BY <1>6 DEF ClientSend, ClientLeaves, halvars
  <2>3. \A i \in 1 .. Len(queue') : Plain(queue'[i], halpc)
    BY <2>1, BecomesKeeps DEF ConnInv, TypeInv
  <2>4. Plain(conn', halpc)
    BY <2>1 DEF ConnInv, Becomes
  <2>5. Len(queue') = Len(queue) /\ queue' \in Seq(Connection)
    BY <2>1, BecomesKeeps DEF TypeInv
  <2>6. pc \in Booting => queue' = <<>>
    BY <2>5, EmptySeq DEF ConnInv
  <2> QED
    BY <2>2, <2>3, <2>4, <2>6 DEF ConnInv, Plain
<1> QED
  BY <1>1, <1>2, <1>3, <1>4, <1>5, <1>6 DEF Elsewhere

\* The end of the process leaves no connection.
LEMMA ConnDie == Die => ConnInv'
<1> SUFFICES ASSUME Die PROVE ConnInv'
  OBVIOUS
<1>1. Len(queue') = 0 /\ Gone \notin HalThreads
  BY LinkAssumption DEF Die
<1>2. Plain(conn', halpc')
  BY <1>1 DEF Die, Plain, NoConn, None
<1> QED
  BY <1>1, <1>2 DEF Die, ConnInv, Booting

LEMMA ConnDriver == TypeInv /\ ConnInv /\ DriverStep => ConnInv'
<1> SUFFICES ASSUME TypeInv, ConnInv, DriverStep PROVE ConnInv'
  OBVIOUS
<1> USE DEF Booting, At
<1>1. CASE Start
  BY <1>1 DEF ConnInv, Plain, Start, halvars
<1>2. CASE StartPower
  BY <1>2 DEF ConnInv, Plain, StartPower, halvars
<1>3. CASE StartSocket
  BY <1>3 DEF ConnInv, Plain, StartSocket, halvars
<1>4. CASE Accept
  <2>1. Plain(conn', halpc) /\ \A i \in 1 .. Len(queue') : Plain(queue'[i], halpc)
    BY <1>4, AcceptKeeps DEF ConnInv, TypeInv
  <2> QED
    BY <1>4, <2>1 DEF ConnInv, Plain, Accept, halvars
<1>5. CASE Recv
  BY <1>5 DEF ConnInv, Plain, Recv, halvars
<1>6. CASE Done
  <2>1. Plain(NoConn, halpc)
    BY LinkAssumption DEF Plain, NoConn, None
  <2> QED
    BY <1>6, <2>1 DEF ConnInv, Plain, Done, halvars
<1>7. CASE CloseUart
  BY <1>7 DEF ConnInv, Plain, CloseUart, halvars
<1>8. CASE OpenCommand
  BY <1>8 DEF ConnInv, Plain, OpenCommand, halvars
<1>9. CASE Switch
  BY <1>9 DEF ConnInv, Plain, Switch, halvars
<1>10. CASE SetTsMode
  BY <1>10 DEF ConnInv, Plain, SetTsMode, halvars
<1>11. CASE Truncate
  BY <1>11 DEF ConnInv, Plain, Truncate, halvars
<1>12. CASE WriteSetting
  BY <1>12 DEF ConnInv, Plain, WriteSetting, halvars
<1>13. CASE ReadMode
  BY <1>13 DEF ConnInv, Plain, ReadMode, halvars
<1>14. CASE Reply
  <2>1. CASE Die
    BY <2>1, ConnDie
  <2>2. CASE ~Die
    BY <1>14, <2>2 DEF ConnInv, Plain, Reply, halvars
  <2> QED
    BY <2>1, <2>2
<1> QED
  BY <1>1, <1>2, <1>3, <1>4, <1>5, <1>6, <1>7, <1>8, <1>9, <1>10, <1>11, <1>12, <1>13, <1>14
     DEF DriverStep

LEMMA ConnStep == TypeInv /\ ConnInv /\ [Next]_vars => ConnInv'
<1> SUFFICES ASSUME TypeInv, ConnInv, [Next]_vars PROVE ConnInv'
  OBVIOUS
<1>1. CASE UNCHANGED vars
  BY <1>1 DEF ConnInv, Plain, vars, halvars, drvvars
<1>2. CASE Crash
  BY <1>2, ConnDie DEF Crash
<1> QED
  BY <1>1, <1>2, ConnElsewhere, ConnDriver DEF Next, Elsewhere

-----------------------------------------------------------------------------
(* What the driver is about to hear.                                        *)

\* A step that changes no command on its way, nor the uart, changes no outcome.
LEMMA OutcomeSame ==
  ASSUME NEW v \in BOOLEAN, Outcome(v), Len(queue') = Len(queue),
         \A i \in 1 .. Len(queue) :
           /\ Speaks(queue'[i]) <=> Speaks(queue[i])
           /\ Speaks(queue[i]) /\ Wants(queue[i], v) => Wants(queue'[i], v),
         Heard' <=> Heard, Heard /\ Wants(conn, v) => Wants(conn', v),
         uart' = uart, pc = "start" => pc' = "start"
  PROVE  Outcome(v)'
<1>1. CASE \E i \in 1 .. Len(queue) :
             Speaks(queue[i]) /\ Wants(queue[i], v) /\ \A j \in (i + 1) .. Len(queue) : ~Speaks(queue[j])
  <2> PICK i \in 1 .. Len(queue) :
             Speaks(queue[i]) /\ Wants(queue[i], v) /\ \A j \in (i + 1) .. Len(queue) : ~Speaks(queue[j])
    BY <1>1
  <2>1. Speaks(queue'[i]) /\ Wants(queue'[i], v)
    OBVIOUS
  <2>2. \A j \in (i + 1) .. Len(queue) : j \in 1 .. Len(queue)
    OBVIOUS
  <2>3. \A j \in (i + 1) .. Len(queue') : ~Speaks(queue'[j])
    BY <2>2
  <2> QED
    BY <2>1, <2>3 DEF Outcome
<1>2. CASE Silence /\ Heard /\ Wants(conn, v)
  BY <1>2 DEF Outcome, Silence
<1>3. CASE Silence /\ ~Heard /\ ((uart <=> v) \/ (pc = "start" /\ v))
  BY <1>3 DEF Outcome, Silence
<1> QED
  BY <1>1, <1>2, <1>3 DEF Outcome

\* A new connection is the last to be heard.
LEMMA OutcomeEnqueue ==
  ASSUME TypeInv, NEW p \in HalThreads \cup Clients, Enqueue(p), NEW v \in BOOLEAN,
         p \in HalThreads \/ Outcome(v), UNCHANGED <<conn, pc, uart>>
  PROVE  Outcome(v)'
<1> DEFINE n == Len(queue)
<1>0. n \in Nat
  BY DEF TypeInv
<1>1. /\ Len(queue') = n + 1
      /\ \A i \in 1 .. n : queue'[i] = queue[i]
      /\ queue'[n + 1] = [peer |-> p, data |-> None]
  BY EnqueueKeeps DEF TypeInv
<1> HIDE DEF n
<1>2. CASE p \in HalThreads
  <2>1. Speaks(queue'[n + 1]) /\ Wants(queue'[n + 1], v)
    BY <1>1, <1>2 DEF Speaks, Wants
  <2>2. \A j \in (n + 1 + 1) .. Len(queue') : ~Speaks(queue'[j])
    BY <1>0, <1>1
  <2>3. n + 1 \in 1 .. Len(queue')
    BY <1>0, <1>1
  <2> QED
    BY <2>1, <2>2, <2>3 DEF Outcome
<1>3. CASE p \notin HalThreads
  <2>1. ~Speaks(queue'[n + 1])
    BY <1>1, <1>3 DEF Speaks, None
  <2>2. \A j \in 1 .. Len(queue') : Speaks(queue'[j]) => j \in 1 .. n /\ queue'[j] = queue[j]
    BY <1>0, <1>1, <2>1
  <2>3. CASE \E i \in 1 .. n :
               Speaks(queue[i]) /\ Wants(queue[i], v) /\ \A j \in (i + 1) .. n : ~Speaks(queue[j])
    <3> PICK i \in 1 .. n :
               Speaks(queue[i]) /\ Wants(queue[i], v) /\ \A j \in (i + 1) .. n : ~Speaks(queue[j])
      BY <2>3
    <3>1. i \in 1 .. Len(queue') /\ Speaks(queue'[i]) /\ Wants(queue'[i], v)
      BY <1>0, <1>1
    <3>2. \A j \in (i + 1) .. Len(queue') : ~Speaks(queue'[j])
      BY <1>0, <1>1, <2>2
    <3> QED
      BY <3>1, <3>2 DEF Outcome
  <2>4. CASE Silence
    <3>1. Silence'
      BY <2>2, <2>4 DEF Silence, n
    <3>2. ~\E i \in 1 .. Len(queue) : Speaks(queue[i])
      BY <2>4 DEF Silence
    <3> QED
      BY <1>3, <3>1, <3>2 DEF Outcome, Heard
  <2> QED
    BY <1>3, <2>3, <2>4 DEF Outcome, n
<1> QED
  BY <1>2, <1>3

\* The first connection is heard when it is accepted.
LEMMA OutcomeAccept ==
  ASSUME TypeInv, Accept, NEW v \in BOOLEAN, Outcome(v)
  PROVE  Outcome(v)'
<1> DEFINE n == Len(queue)
<1>0. n \in Nat /\ n >= 1
  BY AcceptKeeps DEF TypeInv
<1>1. /\ Len(queue') = n - 1 /\ conn' = queue[1]
      /\ \A i \in 1 .. (n - 1) : queue'[i] = queue[i + 1]
  BY AcceptKeeps DEF TypeInv
<1>2. pc = "select" /\ pc' = "recv" /\ UNCHANGED uart /\ ~Heard
  BY DEF Accept, At, Heard
<1>3. Heard' <=> Speaks(queue[1])
  BY <1>1, <1>2 DEF Heard
<1> HIDE DEF n
<1>4. ASSUME NEW i \in 1 .. n, \A j \in (i + 1) .. n : ~Speaks(queue[j])
      PROVE  \A j \in i .. Len(queue') : ~Speaks(queue'[j])
  <2> TAKE j \in i .. Len(queue')
  <2>1. j \in 1 .. (n - 1) /\ j + 1 \in (i + 1) .. n
    BY <1>0, <1>1
  <2> QED
    BY <1>1, <1>4, <2>1
<1>5. CASE \E i \in 1 .. n :
             Speaks(queue[i]) /\ Wants(queue[i], v) /\ \A j \in (i + 1) .. n : ~Speaks(queue[j])
  <2> PICK i \in 1 .. n :
             Speaks(queue[i]) /\ Wants(queue[i], v) /\ \A j \in (i + 1) .. n : ~Speaks(queue[j])
    BY <1>5
  <2>1. \A j \in i .. Len(queue') : ~Speaks(queue'[j])
    BY <1>4
  <2>2. CASE i = 1
    BY <1>1, <1>3, <2>1, <2>2 DEF Outcome, Silence
  <2>3. CASE i # 1
    <3>1. i - 1 \in 1 .. Len(queue') /\ (i - 1) + 1 = i
      BY <1>0, <1>1, <2>3
    <3>2. queue'[i - 1] = queue[i]
      BY <1>1, <3>1
    <3> QED
      BY <2>1, <3>1, <3>2 DEF Outcome
  <2> QED
    BY <2>2, <2>3
<1>6. CASE Silence
  <2>1. ~Speaks(queue[1]) /\ \A j \in (1 + 1) .. n : ~Speaks(queue[j])
    BY <1>0, <1>6 DEF Silence, n
  <2>2. 1 \in 1 .. n
    BY <1>0
  <2>3. Silence'
    BY <1>4, <2>1, <2>2 DEF Silence
  <2>4. uart <=> v
    BY <1>2, <1>6 DEF Outcome, Silence
  <2> QED
    BY <1>2, <1>3, <2>1, <2>3, <2>4 DEF Outcome
<1> QED
  BY <1>5, <1>6 DEF Outcome, n

\* With nothing on its way, the uart is what counts.
LEMMA OutcomeEmpty ==
  ASSUME NEW v \in BOOLEAN, queue = <<>>, pc \notin {"recv", "process"}
  PROVE  Outcome(v) <=> ((uart <=> v) \/ (pc = "start" /\ v))
  BY DEF Outcome, Silence, Heard

\* The command that is carried out is the last there is, or another follows.
LEMMA OutcomeCommand ==
  ASSUME TypeInv, ConnInv, NEW v \in BOOLEAN, Outcome(v), CloseUart \/ OpenCommand
  PROVE  Outcome(v)'
<1>1. pc = "process" /\ pc' \in {"on", "off", "close"} /\ UNCHANGED queue
  BY DEF CloseUart, OpenCommand, At
<1>2. conn.data \in {"O", "C"} /\ conn.peer \notin HalThreads
  BY LinkAssumption DEF CloseUart, OpenCommand, ConnInv, Plain, At
<1>3. Heard /\ ~Heard'
  BY <1>1, <1>2 DEF Heard, Speaks
<1>4. uart' <=> conn.data = "O"
  BY DEF CloseUart, OpenCommand, OpenUart
<1>5. Wants(conn, v) => (uart' <=> v)
  BY <1>2, <1>4 DEF Wants
<1> QED
  BY <1>1, <1>3, <1>5 DEF Outcome, Silence

\* What the driver does keeps the outcome, once it listens.
LEMMA OutcomeDriver ==
  ASSUME TypeInv, ConnInv, NEW v \in BOOLEAN, Outcome(v),
         DriverStep, ~Die, pc # "start"
  PROVE  Outcome(v)'
<1>0. ASSUME UNCHANGED <<queue, conn, uart>>, ~Heard, ~Heard' PROVE Outcome(v)'
  BY <1>0, OutcomeSame
<1> USE DEF At
<1>1. CASE StartPower \/ StartSocket \/ Switch \/ Truncate \/ WriteSetting
  BY <1>0, <1>1 DEF StartPower, StartSocket, Switch, Truncate, WriteSetting, Heard
<1>2. CASE Accept
  BY <1>2, OutcomeAccept
<1>3. CASE Recv
  <2>1. UNCHANGED <<queue, conn, uart>> /\ pc = "recv"
    BY <1>3 DEF Recv
  <2>2. CASE pc' = "process"
    <3>1. Heard' <=> Heard
      BY <2>1, <2>2 DEF Heard
    <3> QED
      BY <2>1, <2>2, <3>1, OutcomeSame
  <2>3. CASE pc' = "close"
    <3>1. conn.data = None /\ conn.peer = Gone
      BY <1>3, <2>3 DEF Recv
    <3>2. ~Heard /\ ~Heard'
      BY <2>1, <2>3, <3>1, LinkAssumption DEF Heard, Speaks, None
    <3> QED
      BY <1>0, <2>1, <3>2
  <2> QED
    BY <1>3, <2>2, <2>3 DEF Recv
<1>4. CASE Done
  <2>1. UNCHANGED <<queue, uart>> /\ pc = "close" /\ pc' = "select"
    BY <1>4 DEF Done
  <2>2. ~Heard /\ ~Heard'
    BY <2>1 DEF Heard
  <2> QED
    BY <2>1, <2>2, OutcomeSame
<1>5. CASE CloseUart \/ OpenCommand
  BY <1>5, OutcomeCommand
<1>6. CASE SetTsMode \/ ReadMode
  <2>1. UNCHANGED <<queue, conn, uart>> /\ pc' \in {"truncate", "reply"}
        /\ conn.data \in {"F", "S", "M"}
    BY <1>6 DEF SetTsMode, ReadMode
  <2>2. conn.peer \notin HalThreads
    BY <2>1 DEF ConnInv, Plain, None
  <2>3. ~Heard /\ ~Heard'
    BY <2>1, <2>2 DEF Heard, Speaks
  <2> QED
    BY <1>0, <2>1, <2>3
<1>7. CASE Reply
  <2>1. UNCHANGED <<queue, conn, uart>> /\ pc = "reply" /\ pc' = "close"
    BY <1>7 DEF Reply
  <2> QED
    BY <1>0, <2>1 DEF Heard
<1>8. ~Start
  BY DEF Start
<1> QED
  BY <1>1, <1>2, <1>3, <1>4, <1>5, <1>6, <1>7, <1>8 DEF DriverStep

\* A client changes no outcome.
LEMMA OutcomeClient ==
  ASSUME TypeInv, ConnInv, NEW c \in Clients, NEW v \in BOOLEAN, Outcome(v),
         (\E a \in ClientOps : ClientConnect(c, a)) \/ ClientSend(c) \/ ClientLeaves(c)
  PROVE  Outcome(v)'
<1>0. c \notin HalThreads /\ c # Gone
  BY LinkAssumption
<1>1. CASE \E a \in ClientOps : ClientConnect(c, a)
  <2>1. Enqueue(c) /\ UNCHANGED <<conn, pc, uart>>
    BY <1>1 DEF ClientConnect, drvvars
  <2> QED
    BY <2>1, OutcomeEnqueue
<1>2. CASE ClientSend(c) \/ ClientLeaves(c)
  <2>1. PICK new \in Connection : Becomes(c, new) /\ Plain(new, halpc) /\ ~Speaks(new)
    BY <1>2, ClientSays
  <2>2. UNCHANGED <<pc, uart>>
    BY <1>2 DEF ClientSend, ClientLeaves
  <2>3. ASSUME NEW d, Plain(d, halpc), d.peer = c PROVE ~Speaks(d)
    BY <1>0, <2>3 DEF Plain, Speaks
  <2>4. \A i \in 1 .. Len(queue) :
          /\ Speaks(queue'[i]) <=> Speaks(queue[i])
          /\ Speaks(queue[i]) /\ Wants(queue[i], v) => Wants(queue'[i], v)
    BY <2>1, <2>3, BecomesKeeps DEF ConnInv, TypeInv
  <2>5. Len(queue') = Len(queue)
    BY <2>1, BecomesKeeps DEF TypeInv
  <2>6. (Speaks(conn') <=> Speaks(conn)) /\ (Speaks(conn) => conn' = conn)
    BY <2>1, <2>3 DEF Becomes, ConnInv
  <2>7. (Heard' <=> Heard) /\ (Heard => conn' = conn)
    BY <2>2, <2>6 DEF Heard
  <2> QED
    BY <2>2, <2>4, <2>5, <2>7, OutcomeSame
<1> QED
  BY <1>1, <1>2

\* The command of the HAL says what its connection was for.
LEMMA OutcomeSend ==
  ASSUME TypeInv, ConnInv, NEW t \in HalThreads, HalSend(t),
         NEW v \in BOOLEAN, Outcome(v), On(t) <=> v
  PROVE  Outcome(v)'
<1> DEFINE new == [peer |-> Gone, data |-> IF On(t) THEN "O" ELSE "C"]
<1>1. new \in Connection /\ Becomes(t, new) /\ UNCHANGED <<pc, uart>>
  BY DEF HalSend, Connection
<1>2. Speaks(new) /\ Wants(new, v)
  BY DEF Speaks, Wants
<1>3. ASSUME NEW d, d.peer = t PROVE Speaks(d)
  BY <1>3 DEF Speaks
<1>4. \A i \in 1 .. Len(queue) : queue'[i] = IF queue[i].peer = t THEN new ELSE queue[i]
  BY <1>1, BecomesKeeps DEF TypeInv
<1>5. Len(queue') = Len(queue)
  BY <1>1, BecomesKeeps DEF TypeInv
<1>6. conn' = IF conn.peer = t THEN new ELSE conn
  BY <1>1 DEF Becomes
<1> HIDE DEF new
<1>7. \A i \in 1 .. Len(queue) :
        /\ Speaks(queue'[i]) <=> Speaks(queue[i])
        /\ Speaks(queue[i]) /\ Wants(queue[i], v) => Wants(queue'[i], v)
  BY <1>2, <1>3, <1>4
<1>8. (Speaks(conn') <=> Speaks(conn)) /\ (Wants(conn, v) => Wants(conn', v))
  BY <1>2, <1>3, <1>6
<1>9. Heard' <=> Heard
  BY <1>1, <1>8 DEF Heard
<1> QED
  BY <1>1, <1>5, <1>7, <1>8, <1>9, OutcomeSame

-----------------------------------------------------------------------------
(* The calls of the HAL.                                                    *)

LEMMA CallInit == Init => CallInv
<1> SUFFICES ASSUME Init PROVE CallInv
  OBVIOUS
<1>1. Interactive \in HalThreads
  BY DEF HalThreads
<1>2. \A t \in HalThreads : halpc[t] # "idle" <=> t = Interactive
  BY DEF Init
<1>3. Connecting
  BY <1>1 DEF Init, Connecting
<1> QED
  BY <1>1, <1>2, <1>3 DEF Init, CallInv, On

\* A step of the driver or of a client that changes no outcome.
LEMMA CallKeeps ==
  ASSUME CallInv, UNCHANGED <<screen, ts_state, halpc, raced, disturbed>>,
         listening => listening', \A v \in BOOLEAN : Outcome(v) => Outcome(v)'
  PROVE  CallInv'
<1>1. Connecting' <=> Connecting
  BY DEF Connecting
<1> QED
  BY <1>1 DEF CallInv, On

\* Calls that do not overlap begin when all is idle.
LEMMA CallBegin ==
  ASSUME TypeInv, CallInv, NEW t \in HalThreads, Begin(t),
         t # Interactive => screen' = screen,
         UNCHANGED <<ts_state, cpc, drvvars, listening, queue, disturbed>>
  PROVE  CallInv'
<1> SUFFICES ASSUME ~raced' PROVE CallInv'
  BY DEF CallInv
<1>1. ~raced /\ \A u \in HalThreads : halpc[u] = "idle"
  BY DEF Begin, TypeInv
<1>2. \A u \in HalThreads : halpc'[u] = IF u = t THEN "test" ELSE "idle"
  BY <1>1 DEF Begin, TypeInv
<1>3. ~Connecting /\ ~Connecting'
  BY <1>1, <1>2 DEF Connecting
<1>4. \A v \in BOOLEAN : Outcome(v) => Outcome(v)'
  BY DEF Outcome, Silence, Heard, drvvars
<1>5. \A u, w \in HalThreads : halpc'[u] # "idle" /\ halpc'[w] # "idle" => u = w
  BY <1>2
<1>6. \A u \in HalThreads : halpc'[u] \notin {"connect", "send"}
  BY <1>2
<1>7. screen' /\ halpc'[Interactive] = "idle" => ts_state'
  <2>1. Interactive \in HalThreads
    BY DEF HalThreads
  <2> QED
    BY <1>1, <1>2, <2>1 DEF CallInv
<1>8. halpc'[Interactive] \notin {"connect", "send"}
  BY <1>6 DEF HalThreads
<1> QED
  BY <1>1, <1>3, <1>4, <1>5, <1>6, <1>7, <1>8 DEF CallInv

\* A call goes on.
LEMMA CallTest == TypeInv /\ CallInv /\ (\E t \in HalThreads : Test(t)) => CallInv'
<1> SUFFICES ASSUME TypeInv, CallInv, NEW t \in HalThreads, Test(t), ~raced' PROVE CallInv'
  BY DEF CallInv
<1>1. ~raced /\ UNCHANGED <<screen, ts_state, pc, conn, uart, queue, listening, disturbed>>
  BY DEF Test, drvvars
<1>2. /\ halpc[t] = "test" /\ halpc'[t] = IF On(t) # ts_state THEN "set" ELSE "idle"
      /\ \A u \in HalThreads \ {t} : halpc'[u] = halpc[u]
  BY DEF Test, TypeInv
<1>3. Connecting' <=> Connecting
  BY <1>2 DEF Connecting
<1>4. \A v \in BOOLEAN : Outcome(v) => Outcome(v)'
  BY <1>1 DEF Outcome, Silence, Heard
<1>5. \A u, w \in HalThreads : halpc'[u] # "idle" /\ halpc'[w] # "idle" => u = w
  BY <1>1, <1>2 DEF CallInv
<1>6. \A u \in HalThreads : halpc'[u] \in {"connect", "send"} => On(u)' = ts_state'
  BY <1>1, <1>2 DEF CallInv, On
<1>7. Interactive \in HalThreads
  BY DEF HalThreads
<1>8. screen' /\ halpc'[Interactive] \in {"idle", "connect", "send"} => ts_state'
  <2>1. CASE t = Interactive
    BY <1>1, <1>2, <2>1 DEF On, TypeInv
  <2>2. CASE t # Interactive
    BY <1>1, <1>2, <1>7, <2>2 DEF CallInv
  <2> QED
    BY <2>1, <2>2
<1> QED
  BY <1>1, <1>3, <1>4, <1>5, <1>6, <1>8 DEF CallInv

LEMMA CallSet == TypeInv /\ CallInv /\ (\E t \in HalThreads : SetState(t)) => CallInv'
<1> SUFFICES ASSUME TypeInv, CallInv, NEW t \in HalThreads, SetState(t), ~raced' PROVE CallInv'
  BY DEF CallInv
<1>1. ~raced /\ ts_state' = On(t) /\ UNCHANGED screen
  BY DEF SetState
<1>2. /\ halpc[t] = "set" /\ halpc'[t] = "connect"
      /\ \A u \in HalThreads \ {t} : halpc'[u] = halpc[u]
  BY DEF SetState, TypeInv
<1>3. \A u \in HalThreads : u # t => halpc'[u] = "idle"
  BY <1>1, <1>2 DEF CallInv
<1>4. Connecting'
  BY <1>2 DEF Connecting
<1>5. \A u \in HalThreads : halpc'[u] \in {"connect", "send"} => On(u)' = ts_state'
  BY <1>1, <1>3 DEF On
<1>6. screen' => ts_state'
  BY <1>1 DEF On
<1> QED
  BY <1>1, <1>3, <1>4, <1>5, <1>6 DEF CallInv

\* Connecting leaves a connection to be spoken on, or shows that the driver
\* is about to open the uart anyway.
LEMMA CallConnect ==
  TypeInv /\ PowerInv /\ ConnInv /\ CallInv /\ (\E t \in HalThreads : HalConnect(t)) => CallInv'
<1> SUFFICES ASSUME TypeInv, PowerInv, ConnInv, CallInv,
                    NEW t \in HalThreads, HalConnect(t), ~raced'
             PROVE  CallInv'
  BY DEF CallInv
<1>1. ~raced /\ UNCHANGED <<screen, ts_state, pc, conn, uart, listening>>
  BY DEF HalConnect, drvvars
<1>2. /\ halpc[t] = "connect" /\ halpc'[t] \in {"send", "idle"}
      /\ \A u \in HalThreads \ {t} : halpc'[u] = halpc[u]
  BY DEF HalConnect, TypeInv
<1>3. \A u, w \in HalThreads : halpc'[u] # "idle" /\ halpc'[w] # "idle" => u = w
  BY <1>1, <1>2 DEF CallInv
<1>4. \A u \in HalThreads : halpc'[u] \in {"connect", "send"} => On(u)' = ts_state'
  BY <1>1, <1>2 DEF CallInv, On
<1>5. screen' /\ halpc'[Interactive] \in {"idle", "connect", "send"} => ts_state'
  <2>1. Interactive \in HalThreads
    BY DEF HalThreads
  <2> QED
    BY <1>1, <1>2, <2>1 DEF CallInv
<1>6. CASE CanQueue /\ Enqueue(t) /\ UNCHANGED disturbed
  <2>1. \A v \in BOOLEAN : Outcome(v)'
    BY <1>1, <1>6, OutcomeEnqueue
  <2>2. listening'
    BY <1>1, <1>6 DEF CanQueue
  <2> QED
    BY <1>3, <1>4, <1>5, <2>1, <2>2 DEF CallInv
<1>7. CASE ~listening /\ disturbed' /\ UNCHANGED queue
  <2>1. pc \in Booting /\ queue = <<>>
    BY <1>7 DEF ConnInv
  <2>2. uart \/ pc = "start"
    BY <2>1 DEF PowerInv, Booting
  <2>3. Outcome(TRUE)
    BY <2>1, <2>2, OutcomeEmpty DEF Booting
  <2>4. Outcome(TRUE)'
    BY <1>1, <1>7, <2>3 DEF Outcome, Silence, Heard
  <2> QED
    BY <1>3, <1>4, <1>5, <1>7, <2>4 DEF CallInv
<1> QED
  BY <1>6, <1>7 DEF HalConnect

LEMMA CallSend ==
  TypeInv /\ ConnInv /\ CallInv /\ (\E t \in HalThreads : HalSend(t)) => CallInv'
<1> SUFFICES ASSUME TypeInv, ConnInv, CallInv, NEW t \in HalThreads, HalSend(t), ~raced'
             PROVE  CallInv'
  BY DEF CallInv
<1>1. ~raced /\ UNCHANGED <<screen, ts_state, listening, disturbed>>
  BY DEF HalSend
<1>2. /\ halpc[t] = "send" /\ halpc'[t] = "idle"
      /\ \A u \in HalThreads \ {t} : halpc'[u] = halpc[u]
  BY DEF HalSend, TypeInv
<1>3. Connecting' <=> Connecting
  BY <1>2 DEF Connecting
<1>4. On(t) = ts_state
  BY <1>1, <1>2 DEF CallInv
<1>5. \A u, w \in HalThreads : halpc'[u] # "idle" /\ halpc'[w] # "idle" => u = w
  BY <1>1, <1>2 DEF CallInv
<1>6. \A u \in HalThreads : halpc'[u] \in {"connect", "send"} => On(u)' = ts_state'
  BY <1>1, <1>2 DEF CallInv, On
<1>7. screen' /\ halpc'[Interactive] \in {"idle", "connect", "send"} => ts_state'
  <2>1. Interactive \in HalThreads
    BY DEF HalThreads
  <2> QED
    BY <1>1, <1>2, <2>1 DEF CallInv
<1>8. ASSUME NEW v \in BOOLEAN, Outcome(v), ts_state' <=> v PROVE Outcome(v)'
  <2>1. On(t) <=> v
    BY <1>1, <1>4, <1>8
  <2> QED
    BY <1>8, <2>1, OutcomeSend
<1> QED
  BY <1>1, <1>3, <1>5, <1>6, <1>7, <1>8 DEF CallInv

-----------------------------------------------------------------------------
(* The end of the driver, and its start.                                    *)

\* What a dead driver has lost does not matter: it opens the uart first.
LEMMA CallDie == TypeInv /\ CallInv /\ Die => CallInv'
<1> SUFFICES ASSUME TypeInv, CallInv, Die PROVE CallInv'
  OBVIOUS
<1>1. UNCHANGED <<screen, ts_state, halpc, raced>> /\ disturbed'
  BY DEF Die, halvars
<1>2. queue' = <<>> /\ pc' = "start"
  BY DEF Die
<1>3. Outcome(TRUE)'
  BY <1>2 DEF Outcome, Silence, Heard
<1> QED
  BY <1>1, <1>3 DEF CallInv, On

\* The uart is not opened behind a HAL that believes it closed.
LEMMA CallStart == TypeInv /\ ConnInv /\ CallInv /\ Start => CallInv'
<1> SUFFICES ASSUME TypeInv, ConnInv, CallInv, Start PROVE CallInv'
  OBVIOUS
<1>1. UNCHANGED <<screen, ts_state, halpc, raced, disturbed, listening, queue>>
  BY DEF Start, halvars
<1>2. ~listening /\ queue = <<>>
  BY DEF Start, At, ConnInv, Booting
<1>3. uart' /\ pc' = "power"
  BY DEF Start, At, OpenUart
<1>4. Outcome(TRUE)'
  BY <1>1, <1>2, <1>3 DEF Outcome, Silence, Heard
<1>5. ~raced /\ ~Connecting => disturbed
  BY <1>2 DEF CallInv
<1>6. Connecting' <=> Connecting
  BY <1>1 DEF Connecting
<1> QED
  BY <1>1, <1>4, <1>5, <1>6 DEF CallInv, On

LEMMA CallDriver == TypeInv /\ ConnInv /\ CallInv /\ DriverStep => CallInv'
<1> SUFFICES ASSUME TypeInv, ConnInv, CallInv, DriverStep PROVE CallInv'
  OBVIOUS
<1>1. CASE Die
  BY <1>1, CallDie
<1>2. CASE pc = "start"
  <2>1. Start
    BY <1>2 DEF DriverStep, StartPower, StartSocket, Accept, Recv, Done, CloseUart,
                OpenCommand, Switch, SetTsMode, Truncate, WriteSetting, ReadMode, Reply, At
  <2> QED
    BY <2>1, CallStart
<1>3. CASE ~Die /\ pc # "start"
  <2>1. UNCHANGED <<screen, ts_state, halpc, raced, disturbed>> /\ (listening => listening')
    <3> USE DEF halvars, At
    <3>1. ~Start
      BY <1>3 DEF Start
    <3>2. CASE StartPower
      BY <3>2 DEF StartPower
    <3>3. CASE StartSocket
      BY <3>3 DEF StartSocket
    <3>4. CASE Accept
      BY <3>4 DEF Accept
    <3>5. CASE Recv
      BY <3>5 DEF Recv
    <3>6. CASE Done
      BY <3>6 DEF Done
    <3>7. CASE CloseUart
      BY <3>7 DEF CloseUart
    <3>8. CASE OpenCommand
      BY <3>8 DEF OpenCommand
    <3>9. CASE Switch
      BY <3>9 DEF Switch
    <3>10. CASE SetTsMode
      BY <3>10 DEF SetTsMode
    <3>11. CASE Truncate
      BY <3>11 DEF Truncate
    <3>12. CASE WriteSetting
      BY <3>12 DEF WriteSetting
    <3>13. CASE ReadMode
      BY <3>13 DEF ReadMode
    <3>14. CASE Reply
      BY <1>3, <3>14 DEF Reply
    <3> QED
      BY <3>1, <3>2, <3>3, <3>4, <3>5, <3>6, <3>7, <3>8, <3>9, <3>10, <3>11, <3>12, <3>13, <3>14
         DEF DriverStep
  <2>2. \A v \in BOOLEAN : Outcome(v) => Outcome(v)'
    BY <1>3, OutcomeDriver
  <2> QED
    BY <2>1, <2>2, CallKeeps
<1> QED
  BY <1>1, <1>2, <1>3

LEMMA CallElsewhere == TypeInv /\ PowerInv /\ ConnInv /\ CallInv /\ Elsewhere => CallInv'
<1> SUFFICES ASSUME TypeInv, PowerInv, ConnInv, CallInv, Elsewhere PROVE CallInv'
  OBVIOUS
<1>0. Interactive \in HalThreads /\ Hints \subseteq HalThreads /\ Interactive \notin Hints
  BY LinkAssumption DEF HalThreads
<1>1. CASE \E v \in BOOLEAN : SetInteractive(v)
  BY <1>0, <1>1, CallBegin DEF SetInteractive
<1>2. CASE \E t \in Hints : PowerHint(t)
  BY <1>0, <1>2, CallBegin DEF PowerHint
<1>3. CASE BoostFails
  <2>1. UNCHANGED <<screen, ts_state, halpc, raced, disturbed, listening>>
    BY <1>3 DEF BoostFails
  <2>2. \A v \in BOOLEAN : Outcome(v) => Outcome(v)'
    BY <1>3 DEF BoostFails, Outcome, Silence, Heard, drvvars
  <2> QED
    BY <2>1, <2>2, CallKeeps
<1>4. CASE \E t \in HalThreads : HalStep(t)
  BY <1>4, CallTest, CallSet, CallConnect, CallSend DEF HalStep
<1>5. CASE \E c \in Clients : (\E a \in ClientOps : ClientConnect(c, a)) \/ ClientSend(c)
                              \/ ClientLeaves(c)
  <2>1. UNCHANGED <<screen, ts_state, halpc, raced, disturbed, listening>>
    BY <1>5 DEF ClientConnect, ClientSend, ClientLeaves, halvars
  <2>2. \A v \in BOOLEAN : Outcome(v) => Outcome(v)'
    BY <1>5, OutcomeClient
  <2> QED
    BY <2>1, <2>2, CallKeeps
<1> QED
  BY <1>1, <1>2, <1>3, <1>4, <1>5 DEF Elsewhere

LEMMA CallStep ==
  TypeInv /\ PowerInv /\ ConnInv /\ CallInv /\ [Next]_vars => CallInv'
<1> SUFFICES ASSUME TypeInv, PowerInv, ConnInv, CallInv, [Next]_vars PROVE CallInv'
  OBVIOUS
<1>1. CASE UNCHANGED vars
  <2>1. UNCHANGED <<screen, ts_state, halpc, raced, disturbed, listening>>
    BY <1>1 DEF vars, halvars
  <2>2. \A v \in BOOLEAN : Outcome(v) => Outcome(v)'
    BY <1>1 DEF vars, drvvars, Outcome, Silence, Heard
  <2> QED
    BY <2>1, <2>2, CallKeeps
<1>2. CASE Crash
  BY <1>2, CallDie DEF Crash
<1> QED
  BY <1>1, <1>2, CallElsewhere, CallDriver DEF Next, Elsewhere

-----------------------------------------------------------------------------
(* The theorems.                                                            *)

\* The inductive invariant holds in every state.
THEOREM LinkInvariant == Spec => []IInv
<1>1. Init => IInv
  BY TypeInit, DriverInit, ConnInit, CallInit DEF IInv
<1>2. IInv /\ [Next]_vars => IInv'
  BY TypeStep, PowerSavedStep, ConnStep, CallStep DEF IInv
<1> QED
  BY <1>1, <1>2, PTL DEF Spec

\* Whenever main is ready for a command (ts_srv.c), the digitizer is powered
\* exactly when the uart is open and digitizer.c knows it.
THEOREM AlwaysUartPowered == Spec => []UartPowered
<1>1. IInv => UartPowered
  <2> SUFFICES ASSUME IInv, pc \in {"select", "recv", "process"}
               PROVE  uart = power /\ power = vdd
    BY DEF UartPowered
  <2>1. (uart /\ power /\ vdd) \/ (~uart /\ ~power /\ ~vdd)
    BY DEF IInv, PowerInv, Serving
  <2>2. uart \in BOOLEAN /\ power \in BOOLEAN /\ vdd \in BOOLEAN
    BY DEF IInv, TypeInv
  <2> QED
    BY <2>1, <2>2
<1> QED
  BY <1>1, LinkInvariant, PTL

\* The mode in force is the last one commanded, across queries (ts_srv_set M)
\* and restarts of the driver, unless it could not be saved.
THEOREM AlwaysModeKept == Spec => []ModeKept
<1>1. IInv => ModeKept
  BY DEF IInv, SavedInv, ModeKept, Booting
<1> QED
  BY <1>1, LinkInvariant, PTL

\* Once all is quiet, nothing is under way that could change the uart.
LEMMA QuietOutcome ==
  ASSUME IInv, Quiet, ~raced, NEW v \in BOOLEAN, ts_state <=> v, v \/ ~disturbed
  PROVE  uart <=> v
<1>1. ~Connecting
  BY DEF Quiet, Connecting
<1>2. Outcome(v)
  BY <1>1 DEF IInv, CallInv
<1> QED
  BY <1>2, OutcomeEmpty DEF Quiet

\* A screen that is on has a working touchscreen once all is quiet, when HAL
\* calls (power.c) have not overlapped, whatever has been lost and crashed.
THEOREM AlwaysTouchAlive == Spec => []TouchAlive
<1>1. IInv => TouchAlive
  <2> SUFFICES ASSUME IInv, ~raced, Quiet, screen PROVE uart
    BY DEF TouchAlive
  <2>1. halpc[Interactive] = "idle"
    BY DEF Quiet, HalThreads
  <2>2. ts_state
    BY <2>1 DEF IInv, CallInv
  <2> QED
    BY <2>2, QuietOutcome
<1> QED
  BY <1>1, LinkInvariant, PTL

\* ... and what the power HAL believes of the touchscreen is then the truth,
\* when no command of its was lost.
THEOREM AlwaysAgreement == Spec => []Agreement
<1>1. IInv => Agreement
  <2> SUFFICES ASSUME IInv, ~raced, ~disturbed, Quiet PROVE uart = ts_state
    BY DEF Agreement
  <2>1. uart \in BOOLEAN /\ ts_state \in BOOLEAN
    BY DEF IInv, TypeInv
  <2>2. CASE ts_state
    BY <2>1, <2>2, QuietOutcome
  <2>3. CASE ~ts_state
    BY <2>1, <2>3, QuietOutcome
  <2> QED
    BY <2>2, <2>3
<1> QED
  BY <1>1, LinkInvariant, PTL

=============================================================================
