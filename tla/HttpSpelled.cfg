SPECIFICATION ConfigSpec
\* A process that was refused, or that runs, does not start again.
CHECK_DEADLOCK FALSE
INVARIANT PlainHttpStaysOutside
