CONSTANTS
  Calls = {"startPreview", "stopPreview", "takePicture", "cancelPicture", "stopRecording", "release", "setOverlay"}
  Formats = {"jpeg", "raw"}
SPECIFICATION FairSpec
CHECK_DEADLOCK FALSE
INVARIANTS PictureHeapsKept FrameHeapKept ReleaseQuiet
PROPERTIES CallsReturn PictureEnds
