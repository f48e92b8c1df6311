SPECIFICATION AudioSpec
CONSTANTS
  NDev = 3
  Buses <- MCBuses
  Streams = {s1, s2}
  Crashes = TRUE
SYMMETRY Symmetry
INVARIANTS
    AudioInv CodecPowered
PROPERTIES
    LineDiscipline CleanStop ImplementsLadder
