\* Violation run: does buildMeta satisfy NoTunnelAfterFailure?
CONSTANTS
    Nil = Nil
SPECIFICATION Spec
INVARIANT NoTunnelAfterFailure
CHECK_DEADLOCK FALSE
