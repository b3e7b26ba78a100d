\* intL_t of ten bits, int of eight; %f prints one digit, a double has three.
SPECIFICATION Spec
CONSTANTS
  Alphabets <- All
  Half = 512
  IntHalf = 128
  Scale = 10
  Fine = 1000
  MaxExp = 3
INVARIANTS
  RoundTrip
  ReaderEnds
  EscapesAreUtf8
CHECK_DEADLOCK FALSE
