SPECIFICATION FairSpec
CONSTANTS
  f1 = f1
  f2 = f2
  Frames = {f1, f2}
  NoFrame = NoFrame
  Garbled = Garbled
  MaxControl = 0
  MaxEvents = 1
  MaxGraphics = 1
  Sends = {"detachKey"}
PROPERTIES
  ClientCatchesUp
  NothingStaysBehind
