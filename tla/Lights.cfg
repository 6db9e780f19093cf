CONSTANT Lit = 25
SPECIFICATION LightsSpec
INVARIANT LedShowsLights
