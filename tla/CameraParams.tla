---------------------------- MODULE CameraParams ----------------------------
(***************************************************************************)
(* The parameters of the camera (camerahal/QualcommCameraHardware.cpp):    *)
(* setParameters and its setters, which keep mParameters, the fields that  *)
(* follow from it and the settings of the driver together.                 *)
(*                                                                         *)
(* A value is one the setter's table has, or "bad" for one it refuses; the *)
(* driver (external) takes a setting, refuses it with                      *)
(* MM_CAMERA_ERR_INVALID_OPERATION, or fails.  A call works through its     *)
(* setters under mLock and its answer tells of any error, not of which.    *)
(***************************************************************************)
EXTENDS Naturals, Sequences

CONSTANTS
  Supported,    \* the keys whose setting the sensor supports
  Groups,       \* bound: sets of keys; an application changes those of one of them
  Previews,     \* preview_sizes, as pairs
  Requested,    \* the pairs that are asked for
  DefaultVideo  \* DEFAULT_VIDEO_WIDTH, DEFAULT_VIDEO_HEIGHT; also the default preview

\* Widths and heights.
Pairs == Nat \X Nat

ASSUME ParamsAssumption ==
  Previews \subseteq Pairs /\ Requested \subseteq Pairs /\ DefaultVideo \in Pairs

VARIABLES
  par,      \* mParameters: the value of each key
  dev,      \* the driver: the value of each setting
  size,     \* sizes: fields, mDimension and mParameters
  mHJR,     \* the last ISO value that switched hand-jitter reduction
  mBrightness, mSkinTone, mInitialized,
  mSnapshotThreadRunning,
  rc,       \* what the last setParameters answered
  group,    \* bound: the keys this application changes
  sent,     \* history: the keys the last call worked through and the driver took
  lost      \* history: switching hand-jitter reduction has failed

paramsVars == <<par, dev, size, mHJR, mBrightness, mSkinTone, mInitialized,
                mSnapshotThreadRunning, rc, group, sent, lost>>

-----------------------------------------------------------------------------
(* Keys and values.  "lo" is the default; scene "lo" is CAMERA_BESTSHOT_OFF, *)
(* iso "hi" is CAMERA_ISO_DEBLUR, focus "lo" is infinity.                   *)

Values == {"lo", "hi"}

Keys == {"picture", "thumbnail", "jpegquality", "pictureformat", "previewformat",
         "effect", "gps", "rotation", "zoom", "orientation", "lensshade", "sharpness",
         "saturation", "caf", "zoneaf", "touch", "scene", "contrast", "scenedetect",
         "strtextures", "skintone", "antibanding", "fpsrange", "fps", "fpsmode",
         "exposure", "compensation", "whitebalance", "flash", "focus", "brightness", "iso"}

\* Keys whose setter writes mParameters, sends the value and passes the answer on.
DirectKeys == {"effect", "zoom", "sharpness", "saturation", "scene", "contrast",
               "antibanding", "zoneaf", "exposure", "compensation", "whitebalance",
               "flash"}
\* Those that take MM_CAMERA_ERR_INVALID_OPERATION for an answer.
Refusable == {"effect", "saturation", "whitebalance", "antibanding"}

\* The settings of the driver: those of the keys, and two more.
Settings == Keys \cup {"snow", "hjr"}

\* The state of a call under way; ran holds the keys whose setters were called.
State == [par |-> par, dev |-> dev, mHJR |-> mHJR, mBrightness |-> mBrightness,
          mSkinTone |-> mSkinTone, rc |-> "NO_ERROR", ran |-> {}]

Failed(s) == [s EXCEPT !.rc = "ERROR"]
Known(v) == v \in Values

\* native_set_parms: a setting that goes wrong is "refused", fails "once", the
\* first time in the call, or "fails" every time.
Wrong == {"refused", "once", "fails"}
Native(s, k, v, fault) == IF fault[k] = "ok" THEN [s EXCEPT !.dev[k] = v] ELSE s
Told(s, k, fault) == IF fault[k] \in {"once", "fails"} THEN Failed(s) ELSE s

-----------------------------------------------------------------------------
(* Kinds of setters.                                                        *)

\* A value that mParameters has already is not sent again.
Direct_same(k, s, p, fault) ==
  IF k \notin Supported \/ p[k] = s.par[k] THEN s
  ELSE IF ~Known(p[k]) THEN Failed(s)
  ELSE Told(Native([s EXCEPT !.par[k] = p[k]], k, p[k], fault), k, fault)

\* mParameters first, then the driver, whose failure is the answer.
Given(k, s, p, fault) ==
  IF ~Known(p[k]) THEN Failed(s)
  ELSE Told(Native([s EXCEPT !.par[k] = p[k]], k, p[k], fault), k, fault)

Direct(k, s, p, fault) == IF k \notin Supported THEN s ELSE Given(k, s, p, fault)

\* The driver's answer is not looked at.
Silent(k, s, p, fault) ==
  IF k \notin Supported THEN s
  ELSE IF ~Known(p[k]) THEN Failed(s)
  ELSE Native([s EXCEPT !.par[k] = p[k]], k, p[k], fault)

\* Nothing goes to the driver.
Kept(k, s, p) == IF Known(p[k]) THEN [s EXCEPT !.par[k] = p[k]] ELSE Failed(s)

-----------------------------------------------------------------------------
(* The setters.                                                             *)

setPictureSize(s, p)         == Kept("picture", s, p)
setJpegThumbnailSize(s, p)   == Kept("thumbnail", s, p)
setJpegQuality(s, p)         == Kept("jpegquality", s, p)
setPictureFormat(s, p)       == Kept("pictureformat", s, p)
setPreviewFormat(s, p)       == Kept("previewformat", s, p)
setRotation(s, p)            == Kept("rotation", s, p)
setOrientation(s, p)         == Kept("orientation", s, p)
setFocusMode(s, p)           == Kept("focus", s, p)
setPreviewFpsRange(s, p)     == Kept("fpsrange", s, p)
setEffect(s, p, f)           == Direct("effect", s, p, f)
setZoom(s, p, f)             == Direct("zoom", s, p, f)
setSharpness(s, p, f)        == Direct("sharpness", s, p, f)
setSaturation(s, p, f)       == Direct("saturation", s, p, f)
setSceneMode(s, p, f)        == Direct("scene", s, p, f)
setAntibanding(s, p, f)      == Direct("antibanding", s, p, f)
setSelectableZoneAf(s, p, f) == Direct("zoneaf", s, p, f)
setAutoExposure(s, p, f)     == Direct("exposure", s, p, f)
setExposureCompensation(s, p, f) == Direct("compensation", s, p, f)
setWhiteBalance(s, p, f)     == Direct("whitebalance", s, p, f)
setFlash(s, p, f)            == Direct("flash", s, p, f)
setLensshadeValue(s, p, f)   == Silent("lensshade", s, p, f)
setContinuousAf(s, p, f)     == Silent("caf", s, p, f)

\* Everything is copied; strings that are missing are removed.
setGpsLocation(s, p) == [s EXCEPT !.par["gps"] = p["gps"]]

\* A value that is neither on nor off is kept too.
setStrTextures(s, p) == [s EXCEPT !.par["strtextures"] = p["strtextures"]]

\* The regions are set only for a known mode; an unknown one is no error.
setTouchAfAec(s, p, f) ==
  IF Known(p["touch"]) THEN Silent("touch", s, p, f) ELSE s

\* Only without a scene mode.
setContrast(s, p, f) ==
  IF p["scene"] = "lo" THEN Direct("contrast", s, p, f) ELSE s

\* The value of before, once there is one, is not sent again.
setPreviewFrameRate(s, p, f) ==
  IF mInitialized /\ p["fps"] = s.par["fps"] THEN s ELSE Direct("fps", s, p, f)

\* With one of the two supported both are set.  A failure to set the mode is
\* returned as FALSE, which is NO_ERROR.
Rates == {"fps", "fpsmode"}

setPreviewFrameRateMode(s, p, f) ==
  IF \/ Rates \cap Supported = {}
     \/ mInitialized /\ p["fpsmode"] = s.par["fpsmode"]
  THEN s
  ELSE IF ~Known(p["fpsmode"]) THEN Failed(s)
  ELSE LET t == Native([s EXCEPT !.par["fpsmode"] = p["fpsmode"]], "fpsmode", p["fpsmode"], f)
       IN IF f["fpsmode"] # "ok" THEN t ELSE Given("fps", t, p, f)

\* mBrightness is compared and kept, mParameters is not written.
setBrightness(s, p, f) ==
  IF "brightness" \notin Supported \/ p["brightness"] = s.mBrightness THEN s
  ELSE Told(Native([s EXCEPT !.mBrightness = p["brightness"]],
                   "brightness", p["brightness"], f), "brightness", f)

setSkinToneEnhancement(s, p, f) ==
  IF "skintone" \notin Supported \/ p["skintone"] = s.mSkinTone THEN s
  ELSE Told(Native([s EXCEPT !.mSkinTone = p["skintone"], !.par["skintone"] = p["skintone"]],
                   "skintone", p["skintone"], f), "skintone", f)

\* Deblur is an ISO value and switches hand-jitter reduction, on when it is
\* chosen and off when it is left.
setISOValue(s, p, f) ==
  IF "iso" \notin Supported THEN s
  ELSE IF ~Known(p["iso"]) THEN Failed(s)
  ELSE LET v == p["iso"]
           t == IF v = "hi" \/ s.mHJR = "hi" THEN Native([s EXCEPT !.mHJR = v], "hjr", v, f)
                ELSE s
       IN Native([t EXCEPT !.par["iso"] = v], "iso", v, f)

Other(v) == IF v = "lo" THEN "hi" ELSE "lo"

\* Both settings; s.rc tells of a failure.
SetBoth(s, v, f) ==
  Told(Told(Native(Native(s, "scenedetect", v, f), "snow", v, f), "scenedetect", f), "snow", f)

Again(f) == [k \in Settings |-> IF f[k] = "once" THEN "ok" ELSE f[k]]

\* "All Auto Scene detection modes should be all ON or all OFF": when one of
\* the two settings fails both are set to the opposite of the value, and only
\* the answers of that are returned.
setSceneDetect(s, p, f) ==
  IF "scenedetect" \notin Supported THEN s
  ELSE IF ~Known(p["scenedetect"]) THEN Failed(s)
  ELSE LET v == p["scenedetect"]
           a == SetBoth([s EXCEPT !.par["scenedetect"] = v], v, f)
       IN IF {f["scenedetect"], f["snow"]} = {"ok"} THEN a
          ELSE SetBoth([a EXCEPT !.rc = s.rc], Other(v), Again(f))

Apply(s, k, p, f) ==
  CASE k = "picture" -> setPictureSize(s, p)
    [] k = "thumbnail" -> setJpegThumbnailSize(s, p)
    [] k = "jpegquality" -> setJpegQuality(s, p)
    [] k = "pictureformat" -> setPictureFormat(s, p)
    [] k = "previewformat" -> setPreviewFormat(s, p)
    [] k = "rotation" -> setRotation(s, p)
    [] k = "orientation" -> setOrientation(s, p)
    [] k = "focus" -> setFocusMode(s, p)
    [] k = "fpsrange" -> setPreviewFpsRange(s, p)
    [] k = "gps" -> setGpsLocation(s, p)
    [] k = "strtextures" -> setStrTextures(s, p)
    [] k = "effect" -> setEffect(s, p, f)
    [] k = "zoom" -> setZoom(s, p, f)
    [] k = "sharpness" -> setSharpness(s, p, f)
    [] k = "saturation" -> setSaturation(s, p, f)
    [] k = "scene" -> setSceneMode(s, p, f)
    [] k = "antibanding" -> setAntibanding(s, p, f)
    [] k = "zoneaf" -> setSelectableZoneAf(s, p, f)
    [] k = "exposure" -> setAutoExposure(s, p, f)
    [] k = "compensation" -> setExposureCompensation(s, p, f)
    [] k = "whitebalance" -> setWhiteBalance(s, p, f)
    [] k = "flash" -> setFlash(s, p, f)
    [] k = "lensshade" -> setLensshadeValue(s, p, f)
    [] k = "caf" -> setContinuousAf(s, p, f)
    [] k = "touch" -> setTouchAfAec(s, p, f)
    [] k = "contrast" -> setContrast(s, p, f)
    [] k = "fps" -> setPreviewFrameRate(s, p, f)
    [] k = "fpsmode" -> setPreviewFrameRateMode(s, p, f)
    [] k = "brightness" -> setBrightness(s, p, f)
    [] k = "skintone" -> setSkinToneEnhancement(s, p, f)
    [] k = "iso" -> setISOValue(s, p, f)
    [] k = "scenedetect" -> setSceneDetect(s, p, f)

\* One setter of a call.  Those of keys that are not in the group have nothing to
\* do that they have not done.
Called(s, k, p, f) ==
  IF k \in group THEN [Apply(s, k, p, f) EXCEPT !.ran = @ \cup {k}] ELSE s

\* The setters in the order of setParameters, those of the sizes left out: those
\* that are always called, those that are not while a snapshot is under way (the
\* two formats are set twice), and those that are only called without a scene mode.
Always == <<"picture", "thumbnail", "jpegquality">>

Unhurried ==
  <<"pictureformat", "previewformat", "effect", "gps", "rotation", "zoom", "orientation",
    "lensshade", "pictureformat", "sharpness", "saturation", "caf", "zoneaf", "touch",
    "scene", "contrast", "scenedetect", "strtextures", "previewformat", "skintone",
    "antibanding", "fpsrange">>

Sceneless == <<"fps", "fpsmode", "exposure", "compensation", "whitebalance", "flash",
               "focus", "brightness", "iso">>

-----------------------------------------------------------------------------
(* Sizes.  A requested record size is a pair, <<>> when the key is missing,  *)
(* or <<0>> when it cannot be parsed.  In size, preview and video are        *)
(* previewWidth and previewHeight, videoWidth and videoHeight; shown and key  *)
(* are the preview and the record size of mParameters; display is that of    *)
(* mDimension.  The board is an MSM8660.                                     *)

Missing == <<>>
Unparsed == <<0>>

setPreviewSize(z, preview) ==
  IF preview \in Previews
  THEN [z EXCEPT !.preview = preview, !.shown = preview, !.display = preview]
  ELSE [z EXCEPT !.shown = z.preview]

Greater(a, b) == a[1] > b[1] \/ a[2] > b[2]

setRecordSize_quiet(z, video) ==
  IF video = Unparsed THEN [z EXCEPT !.key = Unparsed]
  ELSE IF video = Missing
  THEN [z EXCEPT !.video = z.preview, !.key = z.preview, !.display = z.preview]
  ELSE LET p == IF Greater(z.preview, video) THEN video ELSE z.preview
           v == IF video \in Previews THEN video ELSE DefaultVideo
       IN [z EXCEPT !.preview = p, !.video = v, !.key = v, !.display = p]

\* "VFE output1 shouldn't be greater than VFE output2": the preview gives way,
\* to the size as requested, before that is found to be none of the table's.
setRecordSize(z, video) ==
  IF video = Unparsed THEN [z EXCEPT !.key = Unparsed]
  ELSE IF video = Missing
  THEN [z EXCEPT !.video = z.preview, !.key = z.preview, !.display = z.preview]
  ELSE LET p == IF Greater(z.preview, video) THEN video ELSE z.preview
           v == IF video \in Previews THEN video ELSE DefaultVideo
       IN [z EXCEPT !.preview = p, !.shown = IF p = z.preview THEN z.shown ELSE p,
                    !.video = v, !.key = v, !.display = p]

\* setRecordSize is called four times with the same sizes, which makes no
\* difference (RecordSizeOnce in CameraPictureProofs).
Sizes(preview, video) == setRecordSize(setPreviewSize(size, preview), video)

SizesFail(preview, video) == preview \notin Previews \/ video = Unparsed

-----------------------------------------------------------------------------

NoFault == [k \in Settings |-> "ok"]

\* Settings that are sent at all.
Driven == DirectKeys \cup {"lensshade", "caf", "touch", "fps", "fpsmode",
                 "brightness", "skintone", "iso", "scenedetect", "snow", "hjr"}

\* Bound: at most one setting goes wrong in a call.
Faults ==
  LET at == Driven
              \cap (Supported \cup (IF Rates \cap Supported = {} THEN {} ELSE Rates))
              \cap (group \cup (IF "scenedetect" \in group THEN {"snow"} ELSE {})
                         \cup (IF "iso" \in group THEN {"hjr"} ELSE {}))
  IN {NoFault}
     \cup {[NoFault EXCEPT ![k] = "fails"] : k \in at}
     \cup {[NoFault EXCEPT ![k] = "refused"] : k \in at \cap Refusable}
     \cup {[NoFault EXCEPT ![k] = "once"] : k \in at \cap {"scenedetect", "snow"}}

Unscened(p) == p["scene"] = "lo"

\* The setters of a call.  Selectable zone focus is set a second time, after
\* continuous focus.
Order(p) ==
  IF mSnapshotThreadRunning THEN Always
  ELSE Always \o Unhurried \o (IF Unscened(p) THEN Sceneless ELSE <<>>) \o <<"zoneaf">>

\* What they leave, one after the other.
Set(p, f) ==
  LET order == Order(p)
      after[i \in 0 .. Len(order)] ==
        IF i = 0 THEN State ELSE Called(after[i - 1], order[i], p, f)
  IN after[Len(order)]

\* The keys whose setter had the driver take a value.
Sent(ran, p, f) ==
  {k \in ran \cap Supported : f[k] # "refused" /\ (k = "contrast" => Unscened(p))}

\* setParameters, under mLock: every setter is called, whatever those before it
\* answered.
setParameters(p, preview, video, f) ==
  LET s == Set(p, f)
  IN /\ par' = s.par /\ dev' = s.dev
     /\ mHJR' = s.mHJR /\ mBrightness' = s.mBrightness /\ mSkinTone' = s.mSkinTone
     /\ size' = Sizes(preview, video)
     /\ rc' = IF SizesFail(preview, video) THEN "ERROR" ELSE s.rc
     /\ sent' = Sent(s.ran, p, f)
     /\ lost' = (lost \/ f["hjr"] # "ok")

-----------------------------------------------------------------------------
(* Behaviour.                                                               *)

\* The defaults; the focus mode is auto if the sensor focuses at all.
Defaults == [k \in Keys |-> IF k = "focus" /\ "focus" \in Supported THEN "hi" ELSE "lo"]

ParamsInit ==
  /\ par = Defaults /\ dev = [k \in Settings |-> "none"]
  /\ size = [preview |-> DefaultVideo, video |-> DefaultVideo, shown |-> DefaultVideo,
             key |-> DefaultVideo, display |-> DefaultVideo]
  /\ mHJR = "lo" /\ mBrightness = "lo" /\ mSkinTone = "lo"
  /\ mInitialized = FALSE /\ mSnapshotThreadRunning = FALSE
  /\ rc = "NO_ERROR" /\ group \in Groups /\ sent = {} /\ lost = FALSE

\* initDefaultParameters asks what the sensor supports, writes the defaults and in
\* the end sets them all; it logs a failure.
initDefaultParameters ==
  /\ ~mInitialized /\ mInitialized' = TRUE
  /\ \E f \in Faults : setParameters(par, size.shown, size.key, f)
  /\ UNCHANGED <<mSnapshotThreadRunning, group>>

\* camera_get_parameters as the application has it: what mParameters holds, with
\* the focus mode fixed.
getParameters == [par EXCEPT !["focus"] = "lo"]

\* An application changes one value of what it has read and sets it all.
SetValue ==
  /\ mInitialized
  /\ \E k \in group \cap Keys, v \in Values \cup {"bad"}, f \in Faults :
       setParameters([getParameters EXCEPT ![k] = v], size.shown, size.key, f)
  /\ UNCHANGED <<mInitialized, mSnapshotThreadRunning, group>>

SetSizes ==
  /\ mInitialized /\ "size" \in group
  /\ \E preview \in {size.shown} \cup Requested,
        video \in {size.key, Missing, Unparsed} \cup Requested :
       setParameters(getParameters, preview, video, NoFault)
  /\ UNCHANGED <<mInitialized, mSnapshotThreadRunning, group>>

\* takePicture and the end of the snapshot thread, which CameraStill models.
Snapshot ==
  /\ mInitialized
  /\ mSnapshotThreadRunning' = ~mSnapshotThreadRunning
  /\ UNCHANGED <<par, dev, size, mHJR, mBrightness, mSkinTone, mInitialized, rc, group,
                 sent, lost>>

ParamsNext == initDefaultParameters \/ SetValue \/ SetSizes \/ Snapshot

ParamsSpec == ParamsInit /\ [][ParamsNext]_paramsVars

-----------------------------------------------------------------------------
(* Properties.                                                              *)

\* The preview size that an application reads back is the one the fields and
\* the display dimensions hold, although two setters in turn change it, either
\* may refuse its size, and the second overrules the first.
PreviewReported == size.shown = size.preview /\ size.display = size.preview

\* A call that answers NO_ERROR has left the driver with the values of
\* mParameters for every setting it went through, those that failed in an
\* earlier call included, and scene detection all on or all off ("All Auto
\* Scene detection modes should be all ON or all OFF").  Hand-jitter reduction,
\* which only the ISO value switches, is on exactly while that is deblur,
\* whatever values, scene modes and refused calls lie between, until switching
\* it fails.
Honest ==
  /\ rc = "NO_ERROR" =>
       /\ \A k \in sent \cap DirectKeys : dev[k] = par[k]
       /\ "scenedetect" \in sent => dev["scenedetect"] = dev["snow"]
  /\ ~lost => (dev["hjr"] = "hi" <=> par["iso"] = "hi")

=============================================================================
