SPECIFICATION FairSpec
CONSTANTS
  Process = {p, q}
  Savers = {p}
  Serials = {1, 2, 3, 4}
  NoDir = NoDir
  Stale = 3
  Beat = 2
  Wait = 1
  Late = 0
  Retries = 2
  SaveRounds = 4
  MaxSleeps = 0
  MaxCrashes = 1
  MaxFaults = 1
PROPERTIES LeftIsReclaimed SaverOutwaits
