\* Spec 4.4: a CA bundle that cannot be parsed fails configuration.
CONSTANTS
    Nil = Nil
SPECIFICATION Spec
INVARIANT CABundleParsed
CHECK_DEADLOCK FALSE
