SPECIFICATION Spec
INVARIANT StreamReported
CHECK_DEADLOCK FALSE
