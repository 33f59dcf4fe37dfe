\* A three-byte header and a two-byte file: two partial writes can both
\* end inside the header.  write() stops once the response is sent or has
\* failed, so those states have no successor.
CONSTANTS
    WriteIdx = 3
    FileSize = 2
SPECIFICATION Spec
CHECK_DEADLOCK FALSE
INVARIANT ResponseIsHeaderThenFile
