SPECIFICATION Spec
CONSTANTS
  f1 = f1
  f2 = f2
  Frames = {f1, f2}
  NoFrame = NoFrame
  Garbled = Garbled
  MaxControl = 1
  MaxEvents = 1
  MaxGraphics = 2
  Sends = {"input", "focus", "detachKey"}
INVARIANTS
  TypeOK
  NothingOwedIsForgotten
  BaselineIsWhatClientShows
SYMMETRY FrameSymmetry
PROPERTIES
  ImplementsFrameChannel
