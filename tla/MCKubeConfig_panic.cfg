\* Settings toRawKubeConfigLoader rejects: is the failure returned to the
\* caller as an error?
CONSTANTS
    Nil = Nil
    ns1 = ns1
    p1 = p1
    p2 = p2
    p3 = p3
    Namespaces = {ns1}
    Procs = {p1, p2}
    MaxBuilds = 1
    ConfigChoices <- MCConcurrentConfigs
SPECIFICATION Spec
INVARIANT NoPanic
