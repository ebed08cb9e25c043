SPECIFICATION Spec
CONSTANTS
  c1 = c1  c2 = c2  c3 = c3  c4 = c4  c5 = c5
  NumTags = 3  Depth = 2  Cmds = {c1, c2, c3, c4, c5}
  NoTag = NoTag  NoCmd = NoCmd  Internal = Internal
  Kind <- KindStart
  Faults = {"DEV", "ID", "LOG"}  Resets = {"TMF", "USB", "TIMER"}
  MaxSubmit = 4  MaxResets = 1
INVARIANTS Inv QueuesEnd
\* The host may stop sending: an idle bridge is not a deadlock.
CHECK_DEADLOCK FALSE
