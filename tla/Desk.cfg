SPECIFICATION Spec
CONSTANTS
  Boards <- MCBoards
  Spins <- MCSpins
  SpinMax = 1
  StateFiles <- MCStateFiles
  Params = {"null", "crab"}
  Windows = {"4"}
  MaxStatuses = 2
  NoState = NoState
  NoRun = NoRun
INVARIANTS
  YellowIsUnsaved EditorFollowsLock StartIsUpToDate RunIsDescribed NoStrayGenerator
