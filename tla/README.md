# Models of the tenderloin device software

TLA+ models, TLC configurations and TLAPS proofs for the native code in this
repository: the touchscreen driver, the power, audio, lights, sensors and
camera HALs of the HP TouchPad. Every definition is translated from the code
under `src/`; `PROJECT.json` gives the lines of each.

## The system

| part | code | state | operations | hard behaviour |
|---|---|---|---|---|
| touch tracker | `touchscreen_drv/ts_srv.c` `calc_point`, `main`'s lift-off | `tp[3][20]`, `tpoint`, `prevtpoint`, `prev2tpoint`, `previoustpc`, `tracking_id`, thresholds, `need_liftoff` | one frame, lift-off, timeout, set mode | identity of fingers across frames, rotating arrays with stale slots, lift-off by three paths |
| digitizer line parser | `put_byte`, `cline_valid`, `consume_line`, `snarf2` | `cline`, `cidx`, `matrix` | one byte | frames split over reads, aborted lines |
| touchscreen control link | `ts_srv.c` `main`, `process_socket_buffer`; `ts_srv_set.c`; `libpower/power.c`; `digitizer.c` | HAL's `ts_state`, `boostpulse_fd`; socket backlog; `uart_fd`; digitizer's `ts_state`; mode and settings file | setInteractive, powerHint, F/S/M, O/C, driver start, crash and restart | two HAL threads, lost commands, restarts, a client that leaves, a truncated file |
| audio HAL streams | `audio/audio_hw.c` | device record, two streams, PCMs, `out_standby_pend`, three mutexes, mixer paths | write, read, standby, routing; open and close of streams | mutex order, one rate group on the card, deferred standby, PCM used without the device mutex |
| audio mixer routes | `audio/audio_route.c`, `configs/mixer_paths.xml` | old, new and reset value of every control, paths | parse, reset, apply, update | the copies of all controls are reset for one path; writes fail |
| lights HAL | `liblights/lights.c` | three flags, two LED brightnesses, engines and microcode of the lm8502 | set buttons, notifications, battery, backlight | several lights share one LED, one mutex and programs that run on |
| sensors HAL | `libsensors/*` | poll fds, wake pipe, circular buffers, pending events and masks | pollEvents, activate, setDelay | leftovers that poll cannot see, a buffer that wraps, samples cut by a read |
| camera: still pictures | `camerahal/QualcommCameraHardware.cpp`, `cameraHAL.cpp` | running and thread flags, seven heaps | start/stop preview, take/cancel picture, release | frame, snapshot and encoder threads, five locks, heaps freed by one and used by another |
| camera: recording | same | record buffers, busy and free queue, tracking flags, live snapshot | start/stop recording, releaseRecordingFrame, takeLiveSnapshot | buffers handed round by four parties, threads that are told to exit and not waited for |
| camera: parameters | same | `mParameters`, the driver's settings, sizes | setParameters, getParameters | thirty setters, each of which may fail, and which depend on one another |
| camera: session | same | `gCameraHals`, weak singleton, library handle, focus and frame threads | open, close, preview, autoFocus, cancelAutoFocus | an object destroyed late on any thread, timeouts, cancel against focus |
| camera: preview window | `cameraHAL.cpp`, `Overlay.cpp` | window, geometry, overlay, preview heap | set_preview_window, frame hook | a thread that copies while calls exchange what it copies between |
| others | `rebootcmd`, `serial`, `recovery`, `levmar-2.5`, makefiles | none to speak of | one call each, or not built | none |

How they interact: Android's system server calls the power HAL, which sends `O`
and `C` to the driver's unix socket when the screen goes on and off; the settings
application runs `ts_srv_set`, which sends `F`, `S` or `M` on the same socket.
The driver is one thread that selects on the uart and the socket, so touch data,
commands and the lift-off timeout exclude each other; it writes input events,
keeps the mode in a file and is restarted by init. The audio HAL is called by
audioflinger's playback, record and control threads and drives the mixer through
audio_route. `cameraHAL.cpp` is what the camera service calls; it holds one
`QualcommCameraHardware` per camera and copies the frames that object's threads
deliver into the service's window. Lights and sensors share nothing with the rest.

What makes each part correct: a finger keeps one tracking id and two fingers
never share one, and what was reported is lifted off; the touchscreen works
when the screen is on, and the mode stays as commanded; open PCMs are of one
rate group, no PCM is closed under its user, the deferred standby is carried
out, and nobody waits in a circle; the mixer plays what both directions were
last routed to; the LED shows the three lights that share it; every sample is
delivered once, in order, and poll does not forget one; camera calls return,
a heap is there as long as it is used, a record buffer is in one place, an
application is told the settings that are in force, a camera can be opened
again, and a frame goes to the window it fits.

## Modules

| module | what it is |
|---|---|
| `TouchTrack` | the tracker; `MC_TouchTrack` gives thresholds and frames |
| `TouchTrackProofs` | its safety properties, proved for all constants |
| `TouchLink` | power HAL, `ts_srv_set`, socket, driver, digitizer power, settings file |
| `TouchLinkProofs` | its safety properties, proved for all constants |
| `AudioHal` | the two streams and the three mutexes; `MC_AudioHal` gives threads and calls |
| `AudioHalProofs` | its safety properties, proved for all constants; that the routes of `AudioRoute` hold |
| `AudioRoute` | audio_route and the part of `mixer_paths.xml` that `select_devices` uses |
| `Lights` | the notification LED and its three users |
| `SensorsLightsProofs` | that the sensors' buffer is a queue, for every size; that leftovers stay marked; that `Sensors` implements `SensorFifo`; that the LEDs show the lights |
| `InputEventReader` | the circular buffer of an input device, as operators on a record |
| `SensorFifo` | the abstract specification: one fifo for each sensor |
| `Sensors` | poll, activate and the four drivers, on `InputEventReader`; `MC_Sensors` gives sizes |
| `CameraStill` | preview and pictures: calls, frame thread, snapshot thread, encoder, heaps |
| `CameraRecord` | record buffers, video threads and live snapshots |
| `CameraRecordProofs` | its safety properties, proved for any buffers and threads |
| `CameraParams` | the setters and the driver behind them; `MC_CameraParams` gives tables |
| `CameraPictureProofs` | safety of `CameraStill` and `CameraParams`: heaps, sizes and settings, for every table, request and fault |
| `CameraSession` | opening, closing, references, focus and timeouts |
| `CameraSessionProofs` | its safety properties, proved for any cameras and threads |
| `CameraPreview` | the window, its geometry, the overlay and the preview heap |
| `CameraPreviewProofs` | its safety property, proved for any windows, sizes and buffers |

### TouchTrack

`tp`, `tpoint`, `prevtpoint`, `prev2tpoint`, `previoustpc`, `tracking_id` and
`need_liftoff` are the code's. `screen` is what the last `SYN_REPORT` contained.
`reading` and `ret` say that `snarf2` is at work and what it has summed.
`CalcPoint(scan)` is one call of `calc_point`: `scan` is the list of areas it
found (position and highest value), `IsNearest` the search for the closest
previous touch, `Claims` the outcome of the pairwise removal, `Far`, `Swipe`,
`Kept`, `Fresh`, `Accepted` the branches of the loop that assigns ids,
`Tracked` the touch that results, `AfterReport` the countdown of `touch_delay`.
`Rotation` keeps the code's habit of not moving the indexes after a lift-off.
A slot of a frame that holds fewer touches keeps what it held three frames ago.
`ReadDone`, `PartialRead` and `Timeout` are the three places of `main` that lift
off; `SetMode` is `set_ts_mode` between two reads.

Abstractions: positions on a line; direction is an arbitrary choice among the
touches for which the code looks at it; the filters on reported coordinates
(average, hover, debounce) are left out because the tracker decides with
unfiltered positions only. `wrapped` ends a behaviour when the id counter
restarts: afterwards ids may repeat (listed as a hazard).

### TouchLink

`halpc[t]` is where each thread of the power HAL is inside
`set_interactive`/`send_ts_socket`: `ts_state` is tested in one step, written in
the next, and the command is connected and sent in two more. Only `powerHint`
takes the HAL's mutex, so hints exclude one another but not `setInteractive`.
`queue` is the backlog, `conn` the accepted connection, `pc` the driver's place
in `main`. `Die` ends the process: file and hardware keep their state. `Reply`
may kill the driver as well (SIGPIPE, when the client of `M` has left).
`WriteSetting` may fail after `Truncate`: nobody looks at what `fputc` returns.

`raced`, `disturbed`, `unsaved` and `asked` are history: they state the
properties' exceptions and no action reads them.

### AudioHal

`hal` holds the fields of `struct audio_device`, of one `stream_out` and one
`stream_in`, and which mixer paths are in force. A step of a call runs from one
`pthread_mutex_lock` to the next: `LockDevice`, then `Write`, `Read`,
`StandbyOut` or `StandbyIn` with the stream's mutex, then `LockActiveIn`,
`LockActiveOut` or `StandbyPending` with the mutex of the other stream, then
`EndIo` when `pcm_write`, `pcm_read` or the sleep after a failed open is over.
`pc[t] = "again"` is the second lock of `active_in->lock`
(`audio_hw.c:336`): no action leaves it, because the mutex is not recursive and
the thread holds it. `pcm_open` may fail at every call.

### AudioRoute

A behaviour begins with the tags of the file: `Contents` is what each path lists,
`Path` its tags, `File` all of them. `start_tag` and `end_tag` build the
paths tag by tag as the parser's callbacks do (`Parser` is `config_parse_state`:
its level decides whether a control is taken as an initial value, which nothing
writes, or as a setting of the path), `ApplyInit` applies `init`, and
`audio_route_init` saves the copies. `select_devices` is one `reset_mixer_state`
and one path (`Select`), then `path_apply` for each of its settings. `path_apply`
writes to the hardware itself, and does not see a write that fails: `failed` is
the controls whose last write did. `EndSelect` is `update_mixer_state`, whose
writes are under `#if 0`: it changes only the copies.

### Lights

The three setters take `g_lock`, set a flag and leave the writes and ioctls they
decide on in `todo`; each of these is a step and may fail, and engines that
were started end by themselves. `AfterFailure` is the code's `ret`: after a
failed ioctl the rest of that program is skipped.

### Sensors

`pc`, `at`, `count` and `got` are `pollEvents` in the middle of its loops, `reader[s]`
is an `InputEventReader` record (buffer of twice the size, head, current event
and free space), `kernel[s]` what the device has for the next read. A step is a
`fill`, one event of `readEvents`, the end of `readEvents`, the MPL library's
update, or a `poll`. A sample is a number, in one event and an end of sample; so
a read can end inside a sample as it does with the several axes. The light
sensor reports changes only and drops what comes right after it is enabled.
`Undelivered` decodes everything between the device and the application's
buffer: `InOrder` says that under this mapping `Sensors` implements `SensorFifo`.

Failures: `PollFails` is a `poll` that fails, whose caller is not told of the events
already written (`SensorFifo` has a step `Fail` for it). `EnableLightFails` forgets what
was reported and switches nothing. `FillFails` is a `read` that fails: `pollEvents`
subtracts the negative result from the room and adds it to the place of the next
event, so that later events may be written outside the caller's array
(`nusensors.cpp:157-164`). What follows is undefined: the thread ends in `pc = "lost"`,
and the properties and `PollWithinRoom` speak of the time before.

### CameraStill

`app` is where the service's call is, `frame`, `snap` and `jpeg` where the threads
are; `mLock` is held from the first step of a call to its last, so `MLockFree`
is that no call is under way. The other locks that matter are `mCallbackLock`
(`MCallbackLockFree`) and `mSnapshotThreadWaitLock`, which one error path of
`takePicture` leaves locked (`held`). `camera_stop_recording` makes two calls, between
which `mLock` is free: `StopRecording`, which returns early while preview frames are
wanted, and `RestartPreview`. The waits on `mFrameThreadWait`,
`mPmemWait`, `mInSnapshotModeWait`, `mSnapshotThreadWait` and `mJpegThreadWait`
are steps whose guard is the flag waited for. `Stuck` names the five ways in
which the code stops for good (see below); the liveness properties say that
there is no sixth.

### CameraRecord

`driver`, `free`, `busy`, `video[t].buf` and `flag` say where each record buffer
is. The target is MSM8660, which `storeTargetType` fixes, and which has the video
processing engine (VPE): the last record buffer is put in no queue
and is not in `Buffers`, `setDIS` may refuse
the size and `setVpeParameters` the rotation, after which `startRecording` returns an
error although the preview runs. `initRecord` is two steps: `NewHeap`, and `FillFree`
when the video thread of before has gone. `Post` is a filled buffer the frame
library delivers, in exchange for one of the free queue; `receiveRecordingFrame` does
not look at `mCameraRunning`, so it may come after `stopPreview` has flushed the queues.
The video thread's wait under an `if`, and the wake-ups without a
signal it does not look out for, are `Check`, `WakesUp` and `Woken`.
`stopRecording` tells the thread to exit and does not wait; `overlap` is set
when buffers are handed out anew while such a thread lives, and the run stops
there (`GoOn`): with two threads the invariants do not hold. `RecordHeapKept` excepts
a thread that has been told to exit: it may still take a frame of a heap that is gone.

### CameraParams

`Apply(s, k, p, f)` is one setter on the state `s`: `Direct` is the common kind
(compare, keep in `mParameters`, set the driver), `Silent` does not look at the
driver's answer, `Kept` has no driver; the odd ones (touch focus, frame rate and
its mode, brightness, skin tone, ISO with hand-jitter reduction, scene
detection) are on their own. `Order` is the sequence of setters that
`setParameters` calls, `Set` what they leave, each starting from what the one
before has left. A value is `lo`, `hi` or one that is in no table (`bad`); `f` says which
setting the driver refuses, fails, or fails once. `setPreviewSize` and
`setRecordSize` work on `size`.

### CameraSession

`refs[o]` is who holds object `o`; dropping the last reference runs the
destructor on that thread, whichever it is. `singleton_releasing` makes the next
`open` wait for that, for five seconds (`GiveUp`). A focus thread holds
`mAutoFocusThreadLock` throughout, and `mAfLock` and `mCameraRunningLock` while
the lens moves.

A camera may not start (`StartFails`). `createInstance` then unlocks and deletes the
object to which its own `sp` still refers (`DeleteCamera`), and drops that reference
in freed memory (`ReturnNull`). The destructor closes the library under that reference,
and a frame or focus thread of the camera before may promote the weak pointer in between.
`deleted` and `misused` remember both, and `LibraryKept` excepts them: of the
object that is deleted nothing is promised, of all others everything, until a thread has
referred to a deleted one.

`FrameError` and `FrameTimeout` are the library's error callback, which holds
`mCamframeTimeoutLock` until the service's callback has returned (`CallbackReturns`).
The comment at `2580-2592` expects that callbacks of the frame thread stop the preview
and release the camera: `CallsBack` is one that wants `mLock` to do so, from a frame or
from the error, and `CallBegins` the call it makes. Called from the error, it waits for
the lock its own thread holds (`3124`); and while it waits for `mLock`, a call that has
it may wait for the timeout lock, or a `startPreview` for the frame thread's end. These
three are `LockedOut`, which `CallsReturn` excepts.

That the driver is never told to stop after a timeout (`3127`) is not visible in the
model, which has no state of a driver that streams; `Reopens` holds all the same.

### CameraPreview

`camera_set_preview_window` is four steps (window, geometry, size, overlay), of
which only the last takes `mOverlayLock`; the frame thread holds it from
`EnterHook` to `EndCopy`. `frame` remembers what it has read: the window, the
size of its buffer, the heap and its generation. The service's discipline is
external: it changes the size while the preview is stopped, sets the window
before it starts the preview, and unsets it before it closes the device
(CameraService and CameraClient do so).

The hook is called from two more places, which are left out: `takePicture` shows the
last frame with the preview stopped, and the snapshot thread finds no heap for it.
`CopySound` asks for the present heap only while the preview runs: a frame that
was let through (`4110`) before the preview stopped may still be copied from the
heap of before when the next window, of another size, has been set.

## Runs

| run | states | result |
|---|---|---|
| `touch_track` | | ids stay distinct and with one finger, lift-offs are remembered and happen |
| `touch_link` | 925 187 | uart, power and mode stay right through crashes and clients that leave; the driver returns to select; the touchscreen comes to life |
| `audio` | | rate group, PCMs in use, deferred standby, consistent records, progress |
| `audio_relock` | | finds the mutex that is locked twice |
| `audio_route` | | the hardware shows the last call of both directions, but for failed writes |
| `lights` | | the LEDs show the three flags |
| `sensors` | 843 355 | implements the fifo; leftovers stay marked; samples are returned; all until a read fails |
| `camera_still` | 293 190 | heaps stay while used, calls return and pictures end, but for five named ways |
| `camera_record` | 935 763 | buffers are in one place until video threads overlap; threads end |
| `camera_params` | 8 466 | what is reported is in force, and NO_ERROR means it |
| `camera_session` | 282 971 | the library stays for whoever can call it, but for a camera that did not start; focus only while running; calls return unless a callback has locked them out; cameras reopen |
| `camera_preview` | 579 546 | no frame is copied into what does not fit it |

All but `audio_relock` pass; that one states a comment of the repository and finds
it violated.

Bounds. `touch_track`: frames of at most two touches, at positions that are near,
a fast move apart and further than `MAX_DELTA` apart, with peaks on each side of
every threshold; five frames between lift-offs use every one of the three arrays
twice and leave room for a delay to run out; the id counter restarts after 3.
Two touches suffice for every pair that the removal loop compares; the proofs
cover more. `touch_link`: one hint thread (hints exclude each other), one client
that sets and asks, one crash at any step, and a backlog of one, so that it is
full. `audio`: one playback, one record and one control thread; devices built in,
wired and SCO are all that `Group` and the routing tell apart. `audio_route`: two
line outputs, two controls wrong at a time. `lights`: all brightnesses the code
uses. `sensors`: buffers of 3, 2 and 2 events, so that a sample of two events
wraps in one and fills the other; room for two samples where there are three;
one failing poll, an error number of 1; two calls of activate. The proofs about the buffer cover its real sizes.
`camera_still`: both formats and all calls; there is nothing to count.
`camera_record`: five buffers, two with the driver; one video thread at a time.
`camera_params`: an application changes the keys of one group, the groups being
the keys that read one another; one setting goes wrong in a call; four sizes, of
which one is in no table. `camera_session`: two cameras, two threads, two
objects, so one is closed while its successor is opened. `camera_preview`: two
windows, two sizes, two buffers.

Fairness. `touch_track`: weak fairness of `ReadDone` (the code after `snarf2`
runs) and of `Timeout` (`select` times out when nothing comes); nothing is
assumed of the finger or the digitizer. `SetMode` may interrupt the timeout: the
property therefore holds for clients that do not send a command every 25 ms for
ever. `touch_link`: the driver and HAL threads run on once they are in a
call; strong fairness of `HalConnect`, because the kernel serves those that wait
for a full backlog; calls, crashes and the patience of clients are free.
`Responsive` holds because a client that has connected goes on to send or exits.
`audio`: weak fairness of each thread; no thread is promised a mutex. `Progress`
excepts the thread that has locked itself out, which `audio_relock` shows.
`sensors`: the thread that calls poll runs; devices and the application need not.
`camera_still`: each thread runs on, and the snapshot thread gets `mLock` for the
raw callback if it is free again and again, as it is between the service's
calls (strong fairness of `RawCallback`). `camera_record`: calls and threads run
on; frames come or do not. `camera_session`: calls and threads run on, the
sensor stops focusing in the end, and a frame thread that was told to terminate
gets out between frames and timeouts (strong fairness of `FrameEnds`). Timeouts are
seconds apart, so a call gets the timeout lock (strong fairness of `LockTimeout`), and
the service's callback returns if it has nothing to wait for (of `CallbackReturns`).

`CHECK_DEADLOCK FALSE` stands where the system really stops: in the audio
configurations every thread may be in, or waiting behind, the double lock; in
`camera_still` the five ways of `Stuck`; in `sensors`, `camera_record` and
`camera_session` a bound is used up (samples, an overlap, objects), and in
`sensors` the thread may be blocked in read.

## Disagreements with the repository's own words

`audio_relock` checks the first; the others were found while modelling, with
invariants that are not kept as runs, or show as exceptions in a property.

- `audio_hw.c:172-174` gives the order of mutexes; `334` and `336` lock the same
  one twice.
- `audio_hw.c:625-628` puts audio into standby when SCO is switched; while
  capturing that standby is only deferred (`249-251`), and the stream goes on
  playing on the PCM of the device before.
- `ts_srv.c:98-100` allows a long move in the direction of the last one to be a
  swipe; the branch taken (`782`) leaves the touch without id and location, and
  it is reported with tracking id -1.
- `power.c:144` tells the touchscreen to turn on or off; `ts_state` is tested and
  written without a lock by `setInteractive` and by the first power hint, and
  overlapping calls end with the screen on and the uart closed (`raced`).
- `ts_srv.c:1262` returns the current mode; the code reads the file and sets the
  mode from it (`unsaved`).
- `nusensors.cpp:168` "see if we can get some events immediately or just wait if
  we don't have anything to return": a driver whose POLLIN is stale (its events
  were read in an earlier pass that then ran out of room) is read again, and the
  thread waits in read while other samples wait for it (`Blocked`).
- `QualcommCameraHardware.cpp:3498` "Store the last frame queued for preview.
  This shall be used as postview": the frame may be of a heap that is gone, as
  `mLastQueuedFrame` is never reset.
- `QualcommCameraHardware.cpp:4529` the video thread "should be closed in
  stopRecording": it is told to exit, nobody waits, and the next `startRecording`
  clears the request (`overlap`). `mVideoThreadRunning` is the result of
  `pthread_create`, 0 for success.
- The five ways of `Stuck` in `CameraStill`: the raw callback wants `mLock` of a
  call that waits for the snapshot thread (`cameraHAL.cpp:376-380`); `takePicture`
  sets the snapshot mode after the thread that resets it is gone (`3536`);
  `takePicture` returns with `mSnapshotThreadWaitLock` held (`3499`); a driver that
  refuses to stop leaves `initRaw` waiting for the frame thread's heap; after a
  failed encode nobody resets `mJpegThreadRunning` (`5018`).
- `QualcommCameraHardware.cpp:2580-2592` says that `release` and `deinitPreview` may be
  called from the frame thread's callback; from the error callback they wait for the
  lock it holds (`6470`, `3124`; `LockedOut`).
- `QualcommCameraHardware.cpp:3892` "If not, create a new hardware object, put it in
  the singleton, and return it": one that does not start is deleted while a strong
  pointer refers to it (`3940-3945`; `deleted`).
- `camframe_timeout_flag` is cleared only by `initDefaultParameters`: after one
  timeout the driver is not told to stop again (`3127-3140`).
- `setPreviewFrameRateMode` returns `FALSE`, which is `NO_ERROR`, when the driver
  fails (`5241-5242`); brightness, skin tone and frame rate are not sent again
  after a failure because the new value is already kept. `Honest` is about the
  settings that are.
- `audio_route.c:513` "this resets all mixer settings to the saved values": the
  copies are reset, not the settings.

## Proofs

The proof modules of specifications share a layout: a strengthening `IInv`, lemmas
about the operators, one lemma per action, and one theorem per property that
takes `IInv` from `Spec` and adds the last, non-temporal step.

`TouchTrackProofs` (assumption: `TrackAssumption`, the types of the constants).
`IdsDistinct` speaks of the screen, but a frame is made from the arrays, so it is
not inductive. `IInv` adds: `IdsOrdered`, ids on the screen and of the last frame
are below the counter, and different touches of that frame have different ids;
`Shown`, every contact is an undelayed touch of the last frame (or nothing has
followed a lift-off, or the last frame was empty); `LiftoffDue`, contacts imply
`need_liftoff` or a read that will set it; `Held`, the delays of the last frame
are counts, so that the cleared value -1000 never reaches a tracked touch;
`Rotating`, the frame before is not the one overwritten next, which keeps the
chain of `SameFinger` intact. `TotalLiftoff` appears in them because the arrays
and `previoustpc` are cleared at different times. The central lemma is that
`Claims` is injective: at most one touch keeps a previous touch. Proved for every
number of touches, every set of frames, all thresholds and distances: `TypeOK`,
`IdsDistinct`, `SameFinger`, `QuietScreen`, `IdsFresh`, `HeldStaysReported`.

`AudioHalProofs` (assumption: `AudioAssumption`). `IInv` is `TypeOK`, `Sound` (what
the fields of `hal` say together, which gives `RateGroup` and `Consistent`; it
is stated of a value so that each operator of the model has a lemma that it
preserves it), `LockInv` (which mutexes a thread holds at each `pc`, and that
nobody else does), `CallInv` (what a thread relies on after it has let the
device's mutex go: its stream is not in standby while it is in `pcm_write` or
`pcm_read`) and `PendInv` (a deferred standby waits for a running input stream,
or for the thread that has just stopped it and still has the device's mutex).
Proved for any threads and calls: `TypeOK`, `RateGroup`, `PcmInUse`,
`DeferredStandby`, `Consistent`.

`AudioHalProofs`, about the routes (assumption: `RouteAssumption`, the line outputs are
finitely many and are not among the five other controls). `Routed` speaks of one
moment between two calls; `RouteInv` has two parts that carry it there. `Parsing`
places the parser in the file (before a path, within it with so many of its settings
collected, or within the ignored control), so that at the end `ar.paths` holds for
each path what `Contents` lists, however many line outputs make it long (`StageStep`
takes one tag). `Coming` says of each control what it will be when the settings in
`todo` have been applied (`Will`): the last setting for it decides, and if there is
none, the hardware. One write keeps it (`ApplyKeeps`); a new path may only be started
when the old one is through, and then settles the controls of its own side and leaves
those of the other (`OutputPaths`, `InputPaths`). Proved for any line outputs and any
writes that fail: `Routed`.

`TouchLinkProofs` (assumption: `LinkAssumption`). The uart's power and the file are
the driver's own affair: `PowerInv` and `SavedInv` say what they are at each `pc`.
That the touchscreen follows the screen depends on what is still on its way.
`Outcome(v)` says that the uart will be `v` when every connection has been served:
the last one in the queue that carries a command of the HAL, or is held by a HAL
thread that has yet to send, wants `v`; or none does and the accepted one wants
`v`; or none does and the uart is `v`, or is about to be opened by a driver that
starts. `CallInv` is the invariant: unless calls have overlapped, one thread at most is in
`set_interactive`, its argument is `ts_state` from the moment it has written it,
and outside the connect step `Outcome(ts_state)` holds, or something was lost and
`ts_state` is FALSE. (A crash loses the commands that turn the touchscreen off,
never those that turn it on, because the driver opens the uart when it starts.)
`ConnInv` ties connections to the threads that hold them, so that a client's
command is never taken for one of the HAL. Each action has a lemma about
`Outcome` and one about `CallInv`. Proved for any hint threads, clients, backlog
and number of crashes: `UartPowered`, `ModeKept`, `TouchAlive`, `Agreement`.

`SensorsLightsProofs`, about the sensors (assumption: `SensorsAssumption`). `ReaderOK`
is what `fill` and `next` keep: the head is as far ahead of the current event as
there are unread events, give or take a turn of the buffer. `FillAppends`: what
`fill` reads, up to the free space, comes after what was unread, although it is
read in one piece beyond the end of the buffer and the rest copied to the front.
`NextDrops`: `next` takes the oldest away. Together with `NewIsEmpty`, `Unread` is a
queue for every size of buffer and every split of the events over reads.
`LeftoverMarked` is then a matter of who clears the mark: only a driver that wrote
less than there was room for, which `ScanInv` and `RoomInv` tie to `More`, and a
`poll`, which comes when no driver is in the middle of its events.
`PollWithinRoom`: a call writes no more than it has room for, until a read fails: that
step (`FillFails`) makes room that is not there, and the invariants hold up to it.
A failing `poll` is a step of every proof: it ends the call as `Return` does
(`CallEnds`).

`SamplesInOrder` is the refinement of `SensorFifo`, step by step. The events of a sensor
between device and thread are one `Stream`, the unread ones of the buffer and those of
the kernel: `fill` does not change it, `next` takes its first away. `FifoInv` says
that in the streams of accelerometer and magnetometer values and `Syn` alternate
(`Paired`; without it a `Syn` could end a value that is not the pending one), that what the
two have written is part of what the call has, and that between calls nothing is
left of the last. So the mapped queue stays as it is when a value becomes the
pending event (`ValueTaken`) and when a `Syn` turns it into an event for the application
(`SynTaken`); it grows by one when a sample is made (`DecodeMade`), and loses its
beginning, no longer than there was room, when the call returns or fails. `ValuesOf` is a recursive
function; `Picks` says that it exists and what it is at each place (by the induction
described below), `ValuesOfMore` is all that the other proofs need of it. `MaxSamples`
bounds how many samples are made, but may be any numbers.

`SensorsLightsProofs`, about the lights. `LedShowsLights` is about the moment when no
setter is at work, so `LightsInv` says for each moment of a setter what its steps
still to come will make of the LED: the writes and programs in `todo` are the rest
of one of the sequences the setters decide on, and the brightness, engines and
microcode are as they were before it or as its steps so far have left them. Proved
for every choice of failing steps: `LedsAlwaysShow` (`LedShowsLights` itself excepts the
time from a failed step until the notification is next switched off).

`CameraPictureProofs`, about the still pictures (assumption: `StillAssumption`). The
five locks make `OrderInv`: which of the call, the frame thread, the snapshot thread
and the encoder can be at work at once. `HeapInv`: what a picture will need is there
from the moment its heaps have been had, unless `stopRecording` has taken the jpeg
heap, which only `dropped` remembers. Proved for any calls and picture formats:
`PictureHeapsKept`, `FrameHeapKept`, `ReleaseQuiet`.

`CameraPictureProofs`, about the parameters (assumption: `ParamsAssumption`). `SizesInv`
adds types to `PreviewReported`; each of the two size setters keeps it, so their
composition does, in whatever order sizes are asked for, refused or shrunk.
`RecordSizeOnce`: `setRecordSize` is idempotent. `Honest` is about a whole call, so
its invariant `CallInv` is one of the setters of a call: each of them keeps it, whichever
driver setting goes wrong (`CalledKeeps`), and so does a call, however many there are
and in whatever order they come (`SetKeeps`, by the induction below). `CallInv` says
that a setting is settled once its setter has been called, or the answer is already
an error, and that hand-jitter reduction is on exactly
while `mHJR` is deblur. Between calls `SettingsInv` adds that `mHJR` is the ISO value
of `mParameters`: without it the invariant is not inductive, because the next call
would not switch the reduction off. Proved for any sensor, groups of keys and
faults: `SizesAgree`, `SettingsHonest`.

Induction. `Induction` in that module and in `SensorsLightsProofs` is the principle for
sets of numbers; it comes from the library's theorem that finite sets are well-founded
under inclusion, which no operator parameter stands in the way of. `InTurn` uses it to
show that the function in `Set` is defined, `SetKeeps` to climb along it.

`CameraRecordProofs` (assumption: `RecordAssumption`). `PlaceInv` says pairwise that
the places of a buffer exclude one another and that none is twice in one, and adds
that a tracked buffer is not with the driver, free or busy; without the flags
it is not inductive, because `startRecording` frees whatever is tracked. It also
needs `InitInv`: `initRecord` fills the free queue without looking at the busy one,
which is right because it has just emptied that and nothing is posted until the
frame thread runs. `PreviewInv` ties the calls to the running preview,
and so a live video thread to its heap. `PlaceLess` covers the actions that only
take buffers away; the ones that move a buffer have a lemma each. `OnePlace`
counts; `OneAtMost` turns exclusion into cardinalities. Proved: `OnePlace`,
`Tracked`, `RecordHeapKept`, the last without exception for overlapping threads.

`CameraSessionProofs` (assumption: `SessionAssumption`). Whether a destructor may
close the library depends on who else can have a reference. `HolderInv`: whoever
works for an object has counted a reference. `DestroyInv`: an object that nobody
has released keeps a reference that is not a thread's, so the last reference is
dropped only after `singleton_releasing` is set, and `createInstance` waits until
the destructor is through; so `ObjectInv`, at most one object at a time. `DeletedInv`:
unless a thread has referred to it, an object that is deleted is `createInstance`'s
alone, and gone with its references before the next is made. All of this holds
until `misused`. `FocusInv`, which holds always: who
focuses has `mCameraRunningLock`, and stopping the stream needs it. Proved for any
cameras and threads: `LibraryKept`, `FocusRuns`.

`CameraPreviewProofs` (no assumption on the constants). `CopySound` joins three
things that no single lock protects. `HeapInv`: while the preview runs, or is about
to, its heap lives and has the size of the parameters, which do not change then;
and a frame thread has no frame of an older heap, because `initPreview` waits for
the old thread. `SettingInv` and `WindowInv`: when a call that sets the window has
returned without an error, geometry and size agree, and are those of the
parameters once the preview is started. `HookInv`: what the hook has read under
`mOverlayLock` is still so, because `set_preview_window` takes that lock last
(`OverlayFree`), whatever it changed before without it. Proved for any windows,
sizes and buffers: `CopySound`.

Only model-checked: the liveness properties, which need fairness and `ENABLED`; and
`MutexOrder`, which is violated.

## Not modelled

- The digitizer line parser (`put_byte` and what it calls): which bytes make a
  line; `TouchTrack` takes complete frames, or none, from a read.
- Which matrix cells form an area and its weighted centre; averaging, hover and
  debounce filters; regulator and i2c sequences of the digitizer; governor names.
- Opening and closing audio streams; samples, resampling and volume.
- The backlight's brightness; `setDelay` of the sensors; the MPL library.
- Streaming of textures while a picture waits to be encoded, EXIF data, scaling
  and cropping of thumbnails, the histogram (commented out), face detection and
  `sendCommand` (refused on every board).
- Kernel interfaces, build files, vendored `levmar-2.5`, recovery graphics, serial
  number and reboot commands: declarations, data or one call without state.

## Plan

1. Opening and closing streams in `AudioHal`.
2. The line parser, and a reference definition for the pairwise removal of
   `calc_point` next to `Claims`.
