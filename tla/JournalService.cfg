CONSTANTS
  Process = {"runner", "reporter"}
  Latest = 2
  Statements = 2
  OldVersions = {1, 3}
  MaxBackups = 2
  MaxDeaths = 1
  Caller = {1, 2, 3}
  Home <- MCHome
  Writes = 2
  Capacity = 1
SPECIFICATION Spec
INVARIANTS LedgerTellsSchema UpgradeIsRecoverable AnswersMatchJournal PendingIsHeld
CHECK_DEADLOCK FALSE
