------------------------------ MODULE Lights ------------------------------
(***************************************************************************)
(* The lights HAL (liblights/lights.c): the button light, the notification  *)
(* and the battery state share the two LEDs of the home button, which can   *)
(* be written (brightness) or driven by the two engines of the lm8502.      *)
(*                                                                         *)
(* Every light is set by a thread of its own, under g_lock; of the writes   *)
(* and ioctls each may fail, and nobody tries again.  All lights are opened *)
(* before one is set (the lights service).                                  *)
(***************************************************************************)
EXTENDS Naturals, Sequences

CONSTANT Lit  \* the brightness of the LEDs in use (25)

ASSUME LitAssumption == Lit \in Nat \ {0}

VARIABLES
  flag,    \* g_btnled_on, g_notled_on and g_batled_on
  led,     \* brightness of the left and the right LED
  engine,  \* the program each engine runs, "none" when stopped
  loaded,  \* the microcode in the lm8502
  todo,    \* what the holder of g_lock has still to do; <<>>: the lock is free
  failed   \* something failed since the notification was last switched off

lightsVars == <<flag, led, engine, loaded, todo, failed>>

Lights == {"button", "notification", "battery"}
Sides == {"left", "right"}
Programs == {"quick", "quickshort", "long", "longshort"}

\* A step under the lock.
Write(side, value) == [do |-> "write", side |-> side, value |-> value]
Ioctl(request, engines) == [do |-> request, engines |-> engines]
Download(program) == [do |-> "download", program |-> program]
LastStep == [do |-> "unlock"]

set_navled(value) == <<Write("left", value), Write("right", value)>>

program_notification_led(program) ==
  <<Download(program), Ioctl("start", {2}), Ioctl("start", {1})>>

reset_notification_led ==
  <<Download("reset"), Ioctl("start", {1}), Ioctl("stop", {1}), Ioctl("stop", {2}), Ioctl("wait", {})>>

\* open_lights has run init_notification_led, four times.
LightsInit ==
  /\ flag = [l \in Lights |-> FALSE] /\ led = [s \in Sides |-> 0]
  /\ engine = [e \in {1, 2} |-> "none"] /\ loaded = "none"
  /\ todo = <<>> /\ failed = FALSE

\* g_lock is taken, the light's flag is set, and the rest is decided.
Set(l, lit, steps) ==
  /\ todo = <<>>
  /\ flag' = [flag EXCEPT ![l] = lit]
  /\ todo' = Append(steps, LastStep)
  /\ failed' = (failed /\ (l # "notification" \/ lit))
  /\ UNCHANGED <<led, engine, loaded>>

set_light_buttons(lit) ==
  Set("button", lit,
      IF lit THEN set_navled(Lit)
      ELSE IF flag["notification"] \/ flag["battery"] THEN <<>> ELSE set_navled(0))

\* A notification that does not flash is lit as the others are; one that is
\* switched off leaves the LEDs to the other two.
set_light_notifications_dark(lit) ==
  \/ lit /\ Set("notification", TRUE, set_navled(Lit))
  \/ lit /\ \E p \in Programs : Set("notification", TRUE, program_notification_led(p))
  \/ ~lit /\ Set("notification", FALSE, reset_notification_led)

set_light_notifications(lit) ==
  \/ lit /\ Set("notification", TRUE, set_navled(Lit))
  \/ lit /\ \E p \in Programs : Set("notification", TRUE, program_notification_led(p))
  \/ ~lit /\ Set("notification", FALSE,
                 reset_notification_led
                 \o (IF flag["button"] \/ flag["battery"] THEN set_navled(Lit) ELSE <<>>))

\* lit: the colour is red, and the battery is not discharging.
set_light_battery(lit) ==
  Set("battery", lit,
      IF lit /\ ~flag["notification"] THEN set_navled(Lit)
      ELSE IF ~lit /\ ~flag["notification"] /\ ~flag["button"] THEN set_navled(0) ELSE <<>>)

\* write_int: it opens, writes and closes the file; a failure is ignored.
WriteLed ==
  /\ todo # <<>> /\ Head(todo).do = "write" /\ todo' = Tail(todo)
  /\ \/ led' = [led EXCEPT ![Head(todo).side] = Head(todo).value] /\ UNCHANGED failed
     \/ failed' = TRUE /\ UNCHANGED led
  /\ UNCHANGED <<flag, engine, loaded>>

\* The ioctls that follow one that failed are left out, but the second engine
\* is stopped even if the first was not.
IsIoctl(step) == step.do \in {"download", "start", "stop", "wait"}
AfterFailure ==
  SelectSeq(Tail(todo), LAMBDA s : \/ ~IsIoctl(s)
                                   \/ Head(todo) = Ioctl("stop", {1}) /\ s = Ioctl("stop", {2}))

\* The lm8502 (external): an engine that starts runs what is loaded; the reset
\* program switches both LEDs off.
Engines(step) ==
  CASE step.do = "download" ->
         loaded' = step.program /\ UNCHANGED <<led, engine>>
    [] step.do = "start" ->
         /\ engine' = [e \in {1, 2} |-> IF e \in step.engines THEN loaded ELSE engine[e]]
         /\ led' = IF loaded = "reset" THEN [s \in Sides |-> 0] ELSE led
         /\ UNCHANGED loaded
    [] step.do = "stop" ->
         /\ engine' = [e \in {1, 2} |-> IF e \in step.engines THEN "none" ELSE engine[e]]
         /\ UNCHANGED <<led, loaded>>
    [] OTHER -> UNCHANGED <<led, engine, loaded>>

ProgramLed ==
  /\ todo # <<>> /\ IsIoctl(Head(todo))
  /\ \/ Engines(Head(todo)) /\ todo' = Tail(todo) /\ UNCHANGED failed
     \/ todo' = AfterFailure /\ failed' = TRUE /\ UNCHANGED <<led, engine, loaded>>
  /\ UNCHANGED flag

Unlock ==
  /\ todo # <<>> /\ Head(todo) = LastStep /\ todo' = <<>>
  /\ UNCHANGED <<flag, led, engine, loaded, failed>>

LightsNext ==
  \/ \E lit \in BOOLEAN :
       set_light_buttons(lit) \/ set_light_notifications(lit) \/ set_light_battery(lit)
  \/ WriteLed \/ ProgramLed \/ Unlock

LightsSpec == LightsInit /\ [][LightsNext]_lightsVars

-----------------------------------------------------------------------------
(* Properties.                                                              *)

\* When g_lock is free the LEDs show what the three lights were last set to,
\* whichever was set in between, and though only the last one set writes:
\* while the notification is off they are lit for the button or the battery
\* and dark without; while it is on they are lit or an engine runs.  Whatever
\* write or ioctl failed before is repaired when the notification is switched
\* off without a failure.
LedShowsLights ==
  todo = <<>> /\ ~failed =>
    IF flag["notification"]
    THEN (\A s \in Sides : led[s] = Lit) \/ (\A e \in {1, 2} : engine[e] \in Programs)
    ELSE /\ \A e \in {1, 2} : engine[e] = "none"
         /\ \A s \in Sides : led[s] = IF flag["button"] \/ flag["battery"] THEN Lit ELSE 0

=============================================================================
