\* Violation run: does buildMeta satisfy K8sConfigUsable?
CONSTANTS
    Nil = Nil
SPECIFICATION Spec
INVARIANT K8sConfigUsable
CHECK_DEADLOCK FALSE
