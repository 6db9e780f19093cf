----------------------------- MODULE AudioRoute -----------------------------
(***************************************************************************)
(* The mixer routes of the audio HAL (audio/audio_route.c), as the file     *)
(* configs/mixer_paths.xml defines them and select_devices (audio_hw.c)     *)
(* applies them: parsing, the three copies kept of every control, and what  *)
(* reaches the hardware.  A write may fail, which path_apply does not see.  *)
(*                                                                         *)
(* Everything runs under the lock of the audio device.  Of the paths "init" *)
(* the controls kept are those that select_devices has anything to do with; *)
(* the value of a control is the tuple of its values.                       *)
(***************************************************************************)
EXTENDS Naturals, SequencesExt

CONSTANTS
  Lineouts,  \* the switches of the line outputs, by name
  MaxFailed  \* bound: controls whose last write has failed

VARIABLES
  hardware,     \* the value of every control
  mixer_state,  \* old_value, new_value, reset_value of every control
  todo,         \* the settings of the path still to be applied
  ar,           \* what the parser has made of the file: see Parser
  unread,       \* the tags it has not read
  phase,        \* "parse", "init", "idle", or "select"
  route,        \* what select_devices last did with the output and the input
  failed        \* the controls whose last write failed

routeVars == <<hardware, mixer_state, ar, unread, todo, phase, route, failed>>

Sink == "PCM Playback Sink"
Source == "PCM Capture Source"
Volume == "Output Volume"
Rx == "speaker_stereo_rx"
Tx == "speaker_mono_tx"
Ctls == Lineouts \cup {Sink, Source, Volume, Rx, Tx}

ASSUME RouteAssumption ==
  IsFiniteSet(Lineouts) /\ Lineouts \cap {Sink, Source, Volume, Rx, Tx} = {}

Ctl(name, value) == [tag |-> "ctl", name |-> name, value |-> value, ignore |-> FALSE]
Ignore(name) == [tag |-> "ctl", name |-> name, value |-> <<>>, ignore |-> TRUE]
PathTag(name) == [tag |-> "path", name |-> name]
EndTag == [tag |-> "end"]

Switch(on) == LET names == SetToSeq(Lineouts) IN [i \in DOMAIN names |-> Ctl(names[i], <<on>>)]
Speaker(on) == <<Ctl(Sink, <<0, 0, on>>), Ctl(Rx, <<on>>)>>
Mic(on) == <<Ctl(Source, <<0, 1, on>>), Ctl(Tx, <<on>>)>>
Low == <<59, 59>>
High == <<117, 117>>

\* What the paths of mixer_paths.xml contain.
Contents(name) ==
  CASE name = "init"             -> Switch(1) \o <<Ctl(Volume, Low)>>
    [] name = "speaker-enable"   -> Speaker(0) \o Speaker(1) \o Switch(1) \o <<Ctl(Volume, Low)>>
    [] name = "headphone-enable" -> Speaker(0) \o Speaker(1) \o <<Ctl(Volume, High)>> \o Switch(0)
    [] name \in {"speaker-disable", "headphone-disable"} -> Speaker(0)
    [] name = "mic-enable"       -> Mic(0) \o Mic(1)
    [] name = "mic-disable"      -> Mic(0)

\* Its tags: the path, each control and its end, the end of the path.
Path(name) ==
  LET ctls == Contents(name)
      n == 2 * Len(ctls) + 2
  IN [i \in 1 .. n |-> IF i = 1 THEN PathTag(name)
                       ELSE IF i % 2 = 0 /\ i < n THEN ctls[i \div 2] ELSE EndTag]

\* The file, with one of the controls it ignores.
File ==
  Path("init") \o <<Ignore("Volume"), EndTag>> \o Path("speaker-enable")
  \o Path("speaker-disable") \o Path("headphone-enable") \o Path("headphone-disable")
  \o Path("mic-enable") \o Path("mic-disable")

-----------------------------------------------------------------------------
(* The parser, one tag at a time; initial values reach only the copy.       *)

\* The level, the path the tags are in, the settings collected for each path,
\* and the controls ignored.
Parser == [level |-> 1, path |-> "NULL", paths |-> [n \in {} |-> <<>>], ignored |-> {}]

Extended(paths, name, settings) ==
  [n \in DOMAIN paths \cup {name} |->
     IF n # name THEN paths[n] ELSE (IF n \in DOMAIN paths THEN paths[n] ELSE <<>>) \o settings]

\* A path at the top is made, unless its name exists; one within a path is
\* copied into it.
start_path(st, name) ==
  IF st.level # 1 THEN [st EXCEPT !.paths = Extended(@, st.path, st.paths[name])]
  ELSE IF name \in DOMAIN st.paths THEN [st EXCEPT !.path = "NULL"]
  ELSE [st EXCEPT !.path = name, !.paths = Extended(@, name, <<>>)]

\* A control at the top is ignored, or is not; one within a path is a setting.
start_ctl(st, e) ==
  IF st.level # 1
  THEN [st EXCEPT !.paths = Extended(@, st.path, <<[ctl |-> e.name, value |-> e.value]>>)]
  ELSE [st EXCEPT !.ignored = IF e.ignore THEN @ \cup {e.name} ELSE @ \ {e.name}]

\* An initial value goes to the copy, and nothing writes it.
InitialValue(e) ==
  mixer_state' = IF e.tag = "ctl" /\ ar.level = 1 /\ ~e.ignore
                 THEN [mixer_state EXCEPT ![e.name].new = e.value] ELSE mixer_state

start_tag ==
  /\ phase = "parse" /\ unread # <<>> /\ Head(unread).tag # "end" /\ unread' = Tail(unread)
  /\ LET e == Head(unread)
         st == IF e.tag = "path" THEN start_path(ar, e.name) ELSE start_ctl(ar, e)
     IN ar' = [st EXCEPT !.level = @ + 1] /\ InitialValue(e)
  /\ UNCHANGED <<hardware, todo, phase, route, failed>>

end_tag ==
  /\ phase = "parse" /\ unread # <<>> /\ Head(unread).tag = "end" /\ unread' = Tail(unread)
  /\ ar' = [ar EXCEPT !.level = @ - 1]
  /\ UNCHANGED <<hardware, mixer_state, todo, phase, route, failed>>

\* The file has ended: "init" is applied.
ApplyInit ==
  /\ phase = "parse" /\ unread = <<>> /\ phase' = "init" /\ todo' = ar.paths["init"]
  /\ UNCHANGED <<hardware, mixer_state, ar, unread, route, failed>>

-----------------------------------------------------------------------------
(* The mixer.                                                               *)

\* alloc_mixer_state has read the hardware.
RouteInit ==
  /\ hardware \in {[c \in Ctls |-> <<0>>], [c \in Ctls |-> <<1>>]}
  /\ mixer_state = [c \in Ctls |-> [old |-> hardware[c], new |-> hardware[c], reset |-> <<>>]]
  /\ ar = Parser /\ unread = File /\ todo = <<>> /\ phase = "parse"
  /\ route = [out |-> "none", in |-> "none"] /\ failed = {}

\* reset_mixer_state: "this resets all mixer settings to the saved values".
reset_mixer_state(ms) == [c \in Ctls |-> [ms[c] EXCEPT !.new = ms[c].reset]]

save_mixer_state(ms) == [c \in Ctls |-> [ms[c] EXCEPT !.reset = hardware[c]]]

\* The addresses compared are never equal; nothing is written.
update_mixer_state(ms) ==
  [c \in Ctls |-> IF c \in ar.ignored THEN ms[c] ELSE [ms[c] EXCEPT !.old = ms[c].new]]

\* One turn of the loop of path_apply.
path_apply ==
  /\ todo # <<>> /\ todo' = Tail(todo)
  /\ LET s == Head(todo) IN
       /\ mixer_state' = [mixer_state EXCEPT ![s.ctl].new = s.value]
       /\ \/ hardware' = [hardware EXCEPT ![s.ctl] = s.value] /\ failed' = failed \ {s.ctl}
          \/ Cardinality(failed \ {s.ctl}) < MaxFailed /\ failed' = failed \cup {s.ctl} /\ UNCHANGED hardware
  /\ UNCHANGED <<ar, unread, phase, route>>

audio_route_init ==
  /\ phase = "init" /\ todo = <<>> /\ phase' = "idle"
  /\ mixer_state' = save_mixer_state(update_mixer_state(mixer_state))
  /\ UNCHANGED <<ar, unread, hardware, todo, route, failed>>

\* Every copy is written, as the code of update_mixer_state under #if 0
\* would.
EndSelect_writes ==
  /\ phase = "select" /\ todo = <<>> /\ phase' = "idle"
  /\ mixer_state' = update_mixer_state(mixer_state)
  /\ hardware' = [c \in Ctls |-> mixer_state[c].new]
  /\ UNCHANGED <<ar, unread, todo, route, failed>>

EndSelect ==
  /\ phase = "select" /\ todo = <<>> /\ phase' = "idle"
  /\ mixer_state' = update_mixer_state(mixer_state)
  /\ UNCHANGED <<ar, unread, hardware, todo, route, failed>>

\* select_devices resets the copies and applies a path.
Select(side, to, path) ==
  /\ phase = "idle" /\ phase' = "select"
  /\ mixer_state' = reset_mixer_state(mixer_state)
  /\ todo' = ar.paths[path]
  /\ route' = [route EXCEPT ![side] = to]
  /\ UNCHANGED <<ar, unread, hardware, failed>>

\* The headset switch decides at the moment the output is switched on.
select_devices ==
  \/ Select("out", "headphone", "headphone-enable")
  \/ Select("out", "speaker", "speaker-enable")
  \/ Select("out", "off", "speaker-disable")
  \/ Select("in", "mic", "mic-enable")
  \/ Select("in", "off", "mic-disable")

RouteNext == start_tag \/ end_tag \/ ApplyInit \/ path_apply \/ audio_route_init \/ EndSelect \/ select_devices

RouteSpec == RouteInit /\ [][RouteNext]_routeVars

-----------------------------------------------------------------------------
(* Properties.                                                              *)

Is(ctl, value) == ctl \in failed \/ hardware[ctl] = value

\* Between two calls the hardware is routed as the last call for the output and
\* the last call for the input have left it, though each resets the copies of
\* the other's controls and what the other path has set is never set again: a
\* sink that plays, to the line outputs at the low volume or to the headphones
\* without them (so never loud, also when it was switched off in between); a
\* source that records; apart from the writes that failed.
Routed ==
  phase = "idle" =>
    /\ route.out # "none" =>
         LET on == IF route.out = "off" THEN 0 ELSE 1 IN Is(Sink, <<0, 0, on>>) /\ Is(Rx, <<on>>)
    /\ Is(Volume, Low) \/ \A l \in Lineouts : Is(l, <<0>>)
    /\ route.out \in {"none", "speaker"} =>
         Is(Volume, Low) /\ \A l \in Lineouts : Is(l, <<1>>)
    /\ route.out = "headphone" =>
         Is(Volume, High) /\ \A l \in Lineouts : Is(l, <<0>>)
    /\ route.in # "none" =>
         LET on == IF route.in = "off" THEN 0 ELSE 1 IN Is(Source, <<0, 1, on>>) /\ Is(Tx, <<on>>)

=============================================================================
