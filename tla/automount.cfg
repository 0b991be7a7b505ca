CONSTANTS
  p = p
  q = q
  o = o
  data = data
  audio = audio
  plain = plain
  odd = odd
  Blank = Blank
  Absent = Absent
  Devices = {p, q, o}
  Kind <- Drives
  Media = {data, audio, plain, odd}
  Label <- Names
  Disc <- Discs
  Foreign = {odd}
  Fits <- Holds
  Buffer = 1
  MaxId = 1
  MaxMounts = 1
SYMMETRY Partitions
SPECIFICATION Spec
INVARIANTS OwnMountPoint ListIsCurrent MountIsRight
