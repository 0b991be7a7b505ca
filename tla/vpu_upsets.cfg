CONSTANTS
  Sessions = {me}
  Me = me
  Buffers = {b1, b2}
  Codecs <- BothCodecs
  Framebuffers <- Frames
  Kept = 1
  MinRequired = 1
  MaxUpsets = 2
SPECIFICATION Spec
INVARIANTS TypeOK CountIsRight ShownIsTheClients
PROPERTIES KeepsPromise
CHECK_DEADLOCK FALSE
