SPECIFICATION LiveSpec
CONSTANTS
  c1 = c1  c2 = c2  c3 = c3  c4 = c4  c5 = c5
  NumTags = 3  Depth = 3  Cmds = {c1, c2, c3}
  NoTag = NoTag  NoCmd = NoCmd  Internal = Internal
  Kind <- KindReset
  Faults = {"SDB", "D2H", "LOG", "DEV", "ID"}  Resets = {"TMF", "USB", "TIMER"}
  MaxSubmit = 4  MaxResets = 1
INVARIANTS OutstandingIsBusy
PROPERTIES GoodIsTransferred ChannelReturns
\* Up to the moment a CCM is freed twice (ccm_after_cleanup).
CONSTRAINT FreeCCMIsFree
\* The host may stop sending: an idle bridge is not a deadlock.
CHECK_DEADLOCK FALSE
