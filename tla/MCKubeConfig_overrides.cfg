\* One goroutine, every combination of the "kubernetes" settings: the server
\* URL put into the overrides is the one the comment at lines 118-121 asks
\* for.  Settings that yield a nil loader panic the plugin, after which
\* nothing runs: deadlock is not an error here.
CONSTANTS
    Nil = Nil
    ns1 = ns1
    p1 = p1
    p2 = p2
    p3 = p3
    Namespaces = {ns1}
    Procs = {p1}
    MaxBuilds = 1
    ConfigChoices <- MCAllConfigs
SPECIFICATION Spec
INVARIANT ServerURLDefaulting
CHECK_DEADLOCK FALSE
