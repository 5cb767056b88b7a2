\* Does asp_measure free everything it allocates on every path?
CONSTANT MaxLines = 8
SPECIFICATION Spec
INVARIANT ReleasedOnReturn
CHECK_DEADLOCK FALSE
