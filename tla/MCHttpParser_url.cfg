\* GET http://host HTTP/1.1: the URL has no "/" after the host.
\* Expected to be violated.
CONSTANT Messages <- AbsoluteNoPath
CONSTANT RequestLines <- MCRequestLines
CONSTANT DocRoot <- MCDocRoot
SPECIFICATION Spec
CHECK_DEADLOCK FALSE
INVARIANT RequestNeverCrashes
