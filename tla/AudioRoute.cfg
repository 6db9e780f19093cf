CONSTANTS
  Lineouts = {"LINEOUT1N Switch", "LINEOUT1P Switch"}
  MaxFailed = 2
SPECIFICATION RouteSpec
INVARIANT Routed
