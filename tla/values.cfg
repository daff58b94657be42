SPECIFICATION Spec
CHECK_DEADLOCK FALSE
INVARIANTS  WindowsExact SketchesSound TablesExact
