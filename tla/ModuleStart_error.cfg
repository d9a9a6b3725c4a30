SPECIFICATION Spec
INVARIANT ErrorReported
CHECK_DEADLOCK FALSE
