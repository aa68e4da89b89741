SPECIFICATION FairSpec
CONSTANTS
  MaxLogins = 4
  MaxCopies = 2
  MaxRest = 1
  MaxCrashes = 1
  MaxFaults = 1
  MaxOutside = 1
  Pieces = TRUE
  Failing = {"read", "vaultRead", "write", "copy", "save", "delete", "lock", "answer"}
INVARIANTS TypeOK CopyNamed AnswerKept
PROPERTIES NotSentTwice SavesOverSent WaitingEnds
