SPECIFICATION LiveSpec
CONSTANTS
  c1 = c1  c2 = c2  c3 = c3  c4 = c4  c5 = c5
  NumTags = 2  Depth = 2  Cmds = {c1, c2, c3, c4, c5}
  NoTag = NoTag  NoCmd = NoCmd  Internal = Internal
  Kind <- KindAll
  Faults = {}  Resets = {}
  MaxSubmit = 3  MaxResets = 0
INVARIANTS TypeOK OutstandingIsBusy NoMixedCommands FreeCCMIsFree NoLostCommand DmaSetupHasContext
PROPERTIES GoodIsTransferred BusSpec EveryCommandAnswered PausesEnd
\* The host may stop sending: an idle bridge is not a deadlock.
CHECK_DEADLOCK FALSE
