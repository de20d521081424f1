SPECIFICATION Spec
CONSTANTS
  Base = 16
  MaxTlvs = 3
  NonceLen = 1
  VendorId = 9
  Magic <- MCMagic
  HexBase = 4
  MatMagic <- MCMatMagic
  MaxTicket = 3
  CoordLens = {2, 4, 5, 7}
  Buffers <- MCBuffers
INVARIANTS
  AcceptsExactlyTlvs
  FramedIsUnambiguous
  WireInverts
  RecordsInvert
  StatusFieldsStayApart
\* The reader stops when it is done.
CHECK_DEADLOCK FALSE
