SPECIFICATION Spec
CONSTANTS
  Process = {p, q}
  Savers = {}
  Serials = {s1, s2, s3, s4}
  NoDir = NoDir
  Stale = 6
  Beat = 2
  Wait = 1
  Late = 1
  Retries = 2
  SaveRounds = 1
  MaxSleeps = 2
  MaxCrashes = 1
  MaxFaults = 1
SYMMETRY Symmetry
INVARIANTS TypeOK Exclusive ToldWithinABeat OneIsTold
PROPERTIES AlarmIsTrue
