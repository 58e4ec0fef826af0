SPECIFICATION Spec
CONSTANTS
  first = first
  second = second
  wide = wide
  long = long
  Client = {c1, c2}
  Password <- MCPassword
  Sendable <- MCSendable
  Writable <- MCWritable
  Firmware = {probed, reflashed}
  MaxOps = 2
  MaxEdits = 2
INVARIANTS TypeOK LockoutIsTold HonestRotation
PROPERTIES AdoptsOnlyWhatWorks
\* A client that has done its rotations rests.
CHECK_DEADLOCK FALSE
