\* Violation run: does buildMeta satisfy DefaultTLSFilesUsed?
CONSTANTS
    Nil = Nil
SPECIFICATION Spec
INVARIANT DefaultTLSFilesUsed
CHECK_DEADLOCK FALSE
