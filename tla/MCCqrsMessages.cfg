SPECIFICATION Spec
CONSTANTS
  a = a
  b = b
  Objects = {a, b}
  UInt32s <- MCUInt32s
  UInt64s <- MCUInt64s
  Strings <- MCStrings
  MaxUnknown = 1
SYMMETRY Symmetry
INVARIANTS
  TypeOK
  SizeExact
  RoundTrip
  MergeIsConcatenation
  CopyExact
  CutNeverAlters
