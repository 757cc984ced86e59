SPECIFICATION Spec
INVARIANT ResolvesFirstRegularFile
CHECK_DEADLOCK FALSE
