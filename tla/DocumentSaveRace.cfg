CONSTANTS
  x = x
  LF = LF
  CR = CR
  Char = {x, LF, CR}
  Closed = Closed
  Eol <- MCLfOnly
  NoText = NoText
  Originals <- MCEmpty
  Changes <- MCChanges
  MaxVersion = 3
  MaxSaves = 2
  MaxOpens = 1
  MaxLength = 2
  Patches <- MCFewPatches
SPECIFICATION Spec
CHECK_DEADLOCK FALSE
INVARIANT InStepWhenIdle
