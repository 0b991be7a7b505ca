CONSTANTS
  Sessions = {me, other}
  Me = me
  Buffers = {b1, b2}
  Codecs <- BothCodecs
  Framebuffers <- Frames
  Kept = 1
  MinRequired = 1
  MaxUpsets = 1
SPECIFICATION Spec
INVARIANT LoadedWhileOpen
CHECK_DEADLOCK FALSE
