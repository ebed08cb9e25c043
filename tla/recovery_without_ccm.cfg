SPECIFICATION LiveSpec
CONSTANTS
  c1 = c1  c2 = c2  c3 = c3  c4 = c4  c5 = c5
  NumTags = 2  Depth = 2  Cmds = {c1, c2}
  NoTag = NoTag  NoCmd = NoCmd  Internal = Internal
  Kind <- KindReads
  Faults = {"SDB"}  Resets = {}
  MaxSubmit = 2  MaxResets = 0
PROPERTIES RecoveryEnds
\* The host may stop sending: an idle bridge is not a deadlock.
CHECK_DEADLOCK FALSE
