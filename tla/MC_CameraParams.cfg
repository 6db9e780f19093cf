SPECIFICATION ParamsSpec
CONSTANTS
  Supported <- MC_Supported
  Groups <- MC_Groups
  Previews <- MC_Previews
  Requested <- MC_Requested
  DefaultVideo <- MC_DefaultVideo
INVARIANTS PreviewReported Honest
