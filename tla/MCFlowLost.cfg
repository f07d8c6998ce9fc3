SPECIFICATION Spec
CONSTANT Functions <- Nested
INVARIANT EveryCallChecked
CHECK_DEADLOCK FALSE
