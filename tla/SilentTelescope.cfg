CONSTANTS
  NTel = 2
  NPos = 2
  FlushAfter = 2
  BuilderRoom = 1
  GuiRoom = 1
  States <- OneEach
  SilentTel = TRUE
SPECIFICATION Spec
CHECK_DEADLOCK FALSE
PROPERTIES
  CameraRefreshed
