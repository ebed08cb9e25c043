SPECIFICATION Spec
CONSTANTS
  c1 = c1  c2 = c2  c3 = c3  c4 = c4  c5 = c5
  NumTags = 4  Depth = 4  Cmds = {c1, c2}
  NoTag = NoTag  NoCmd = NoCmd  Internal = Internal
  Kind <- KindVerify
  Faults = {"SDB"}  Resets = {}
  MaxSubmit = 3  MaxResets = 0
INVARIANTS OnlyLogAfterError
\* The host may stop sending: an idle bridge is not a deadlock.
CHECK_DEADLOCK FALSE
