SPECIFICATION HandshakeFairSpec
INVARIANTS HooksBeforePivot ScopeBeforeInit ErrorLeavesNothing
PROPERTY LaunchSettles
CHECK_DEADLOCK FALSE
