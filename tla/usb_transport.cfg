SPECIFICATION Spec
CONSTANTS
  Spinup = 2
  Cipher = TRUE
  Commands <- MCCommands
  Budget = 3
  MismatchInStandby = FALSE
INVARIANTS TypeOK Inv NothingLeft SegmentOwner DriveDoneBeforeStatus
PROPERTIES WireSpec Answered
