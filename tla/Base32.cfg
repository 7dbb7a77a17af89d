SPECIFICATION Spec
CONSTANTS
  Sources <- MCSources
  DestSizes <- MCDestSizes
INVARIANTS
  TypeOK
  EncodesRfc4648
  SizeTells
  WithinBuffer
