SPECIFICATION AudioSpec
CONSTANTS
  NDev = 3
  Buses <- MCBuses
  Streams = {s1}
  Crashes = FALSE
INVARIANT RailsForServiceLifetime
