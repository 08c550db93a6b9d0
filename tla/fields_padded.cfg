SPECIFICATION Spec
CONSTANT Lines <- MCPadded
INVARIANT Understood
CHECK_DEADLOCK FALSE
