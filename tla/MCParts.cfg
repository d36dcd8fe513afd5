\* Eight parts without shared state, each with its own bounds.
SPECIFICATION PartSpec
CONSTANTS
  MaxTyped = 2
  MaxRecordings = 2
  MaxGestures = 3
  RecordingsListed = {1, 2}
  Sizes = {1, 3}
  EntriesMaximum = 9
  ZipMaximum = 560
  MaxByte = 4
  Moments = {0, 999, 1000, 59999, 60000, 3599999, 3600000}
  Durations = {0, 61}
  MaxPatches = 2
  Addresses = {a1, a2}
  Limit = 1
  Window = 2
  MaxWindows = 2
  MaxTime = 5
  Ticks = 2
  MaxClock = 3
  MaxCommands = 3
  MaxChoices = 2
  LanguagesPicked = {"uk", "en", "de"}
  PartLimit = 4
  MaxMoves = 3
  MaxSessions = 3
  Calls = {c1, c2}
  MaxTokens = 3
INVARIANTS
  LandsOnceWhereItStarted
  ArchiveWhole
  MediaTrue
  SettingsKept
  RateKept
  CommandsAsChosen
  PasteTranslated
  CoreKeepsInStep
PROPERTY ResultFollowsTyping
CHECK_DEADLOCK FALSE
