\* Violation run: does buildMeta satisfy TunnelInMeta?
CONSTANTS
    Nil = Nil
SPECIFICATION Spec
INVARIANT TunnelInMeta
CHECK_DEADLOCK FALSE
