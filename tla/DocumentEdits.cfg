CONSTANTS
  x = x
  LF = LF
  CR = CR
  Char = {x, LF, CR}
  Closed = Closed
  Eol <- MCCrLf
  NoText = NoText
  Originals <- MCOriginals
  Changes <- MCChanges
  MaxVersion = 2
  MaxSaves = 2
  MaxOpens = 2
  MaxLength = 3
  Patches <- MCPatches
SPECIFICATION PatientSpec
CHECK_DEADLOCK FALSE
INVARIANTS VersionNamesShownText InStepWhenIdle
