SPECIFICATION Spec
CONSTANTS
  Target = 2
  Rate = 3
  Margin10 = 0
  Margin60 = 1
  Aout = 2
  FrameSizes = {1, 3, 6}
  Requests = {1, 3}
  MaxFrames = 3
  MaxUnderflow = 2
INVARIANTS
  NoTornSamples SoundIsInOrder LatencyIsBounded
