-------------------------- MODULE MC_CameraParams --------------------------
(* CameraParams for TLC: every key in one of the groups, a sensor without  *)
(* lens shading, and four sizes of which one is in no table.               *)
EXTENDS CameraParams

MC_Supported == (DirectKeys \cup Driven \cup {"focus"}) \ {"lensshade"}

MC_Groups ==
  { {"size"}, {"scene", "contrast", "scenedetect"}, {"scene", "iso"},
    {"fps", "fpsmode"}, {"brightness", "skintone", "antibanding"},
    {"effect", "saturation", "whitebalance"},
    {"zoom", "zoneaf", "caf", "touch"}, {"sharpness", "gps", "lensshade"},
    {"exposure", "compensation", "flash", "scene"}, {"focus", "rotation", "orientation"},
    {"strtextures", "picture", "thumbnail", "jpegquality"},
    {"pictureformat", "previewformat", "fpsrange"} }

MC_Previews == {<<8, 6>>, <<6, 4>>, <<4, 3>>}
MC_Requested == {<<8, 6>>, <<6, 4>>, <<4, 3>>, <<7, 2>>, <<0, 0>>}
MC_DefaultVideo == <<6, 4>>

=============================================================================
