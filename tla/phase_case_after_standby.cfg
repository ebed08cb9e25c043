SPECIFICATION Spec
CONSTANTS
  Spinup = 2
  Cipher = FALSE
  Commands <- MCCommands
  Budget = 1
  MismatchInStandby = TRUE
INVARIANTS PhaseCaseChecked
