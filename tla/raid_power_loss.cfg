SPECIFICATION Spec
CONSTANTS
  d1 = d1
  d2 = d2
  spare = spare
  nodrive = nodrive
  Drives <- MCDrives
  NoDrive = nodrive
  TooSmall = {}
  Step = 2
  AutoRebuild = TRUE
  Size = 4
  MaxRetry = 2
  MaxInstant = 1
  Own <- MCOwn
  Fits <- MCFits
  Budget <- PowerLossBudget
  FlashCuts = FALSE
  SourceFails = FALSE
  StaleAlone = FALSE
  ModesAsked = {"JBOD", "RAID1"}
INVARIANTS TypeOK NoLostWrite NothingSkipped TwoDrives PagesInv SkipInvOneCut
PROPERTIES WipeAsked RebuildSettles
\* The bounded events run out, and a bridge without drives stays as it is.
CHECK_DEADLOCK FALSE
