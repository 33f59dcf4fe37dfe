\* The parse of one request ends with its verdict, or with every byte
\* read and processed, or with the NULL dereference: those states have no
\* successor.
CONSTANT Messages <- MCMessages
CONSTANT RequestLines <- MCRequestLines
CONSTANT DocRoot <- MCDocRoot
SPECIFICATION Spec
CHECK_DEADLOCK FALSE
INVARIANT ParserTypeOK
INVARIANT ParseMatchesReference
