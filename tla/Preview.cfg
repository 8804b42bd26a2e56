CONSTANTS
  NTel = 2
  NPos = 2
  FlushAfter = 2
  BuilderRoom = 1
  GuiRoom = 1
  States <- MCStates
  SilentTel = FALSE
SPECIFICATION Spec
CHECK_DEADLOCK FALSE
INVARIANTS
  FrameIsFresh
  FullFrameHasAllBoards
  PanelsAreLive
  PixelsInPlace
PROPERTIES
  PipelineStops
  CameraRefreshed
