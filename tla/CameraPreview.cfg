CONSTANTS
  Windows = {w1, w2}
  Sizes = {1, 2}
  Buffers = {b1, b2}
  Null = null
SPECIFICATION Spec
INVARIANT CopySound
