CONSTANTS
  BodyLens = {0, 1, 2, 5}
  MaxFrames = 2
  Builds = {"posix"}
SPECIFICATION Spec
INVARIANT FrameReadBack
