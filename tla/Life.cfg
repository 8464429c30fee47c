SPECIFICATION Spec
INVARIANTS TypeOK CalmEnd TerminalRestored
CHECK_DEADLOCK FALSE
