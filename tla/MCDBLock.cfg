CONSTANTS
  Process = {"daemon", "command", "command2"}
  Routine = {"request", "maker", "cli", "cli2"}
  ProcessOf <- MCProcessOf
  NoRoutine = "nobody"
  MaxRounds = 1
  MaxCrashes = 1
SPECIFICATION FairSpec
INVARIANTS TwoOwnersOnlyByRace
PROPERTIES StaleLockIsRemoved
CHECK_DEADLOCK FALSE
