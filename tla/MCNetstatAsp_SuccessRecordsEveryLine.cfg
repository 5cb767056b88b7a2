\* Does a successful return of asp_measure record every line it read?
CONSTANT MaxLines = 8
SPECIFICATION Spec
INVARIANT SuccessRecordsEveryLine
\* asp_measure returns (or crashes on a NULL pointer) and stops.
CHECK_DEADLOCK FALSE
