SPECIFICATION Spec
CONSTANTS
  d1 = d1
  d2 = d2
  spare = spare
  nodrive = nodrive
  Drives <- MCDrives
  NoDrive = nodrive
  TooSmall = {}
  Step = 1
  AutoRebuild = TRUE
  Size = 3
  MaxRetry = 2
  MaxInstant = 1
  Own <- MCOwn
  Fits <- MCFits
  Budget <- SourceBudget
  FlashCuts = FALSE
  SourceFails = TRUE
  StaleAlone = FALSE
  ModesAsked = {"JBOD", "RAID1"}
PROPERTIES FailedSlotRecorded
\* The bounded events run out, and a bridge without drives stays as it is.
CHECK_DEADLOCK FALSE
