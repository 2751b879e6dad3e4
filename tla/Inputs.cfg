CONSTANTS
  LengthOf <- MCLengthOf
  MaxChunk = 7
  Characters <- MCCharacters
  Entries <- MCEntries
  KindOf <- MCKindOf
  Roots <- MCRoots
  Uris <- MCUris
  Texts <- MCTexts
  Configs <- MCConfigs
  Folders <- MCFolders
  AwaitedIds = {"b"}
  Messages <- MCMessages
  Missing = Missing
  Wrong = Wrong
  Null = Null
SPECIFICATION MCSpec
CHECK_DEADLOCK FALSE
INVARIANTS FramesExact AnsweredOnce PairsExact ScanAgreesWithCheck RulesExact
PROPERTY NothingHalfDone
