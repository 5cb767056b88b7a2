\* asp_measure on every failure path and on files of 0 to 8 data lines.
CONSTANT MaxLines = 8
SPECIFICATION Spec
INVARIANT TypeOK
INVARIANT ClosedOnReturn
\* asp_measure returns (or crashes on a NULL pointer) and stops.
CHECK_DEADLOCK FALSE
