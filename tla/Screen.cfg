SPECIFICATION FairSpec
CONSTANTS
  Sizes <- MCSizes
  FirstSizes <- MCFirstSizes
  Display <- MCDisplay
  UserSizes <- MCUserSizes
  Orientations = {7}
  Fits = {"letterbox"}
  Flex = {FALSE}
  PrintFps = FALSE
  Keys = {"pause", "unpause", "right", "flipv", "full", "fps"}
  MaxFrames = 2
  MaxInputs = 2
  LateFps = FALSE
CHECK_DEADLOCK FALSE
INVARIANTS
  FramesAreShown ClicksFollowPicture ScreenIsSafe
PROPERTY ScreenEnds
