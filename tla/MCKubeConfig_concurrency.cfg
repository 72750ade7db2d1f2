\* Three goroutines share one KubeConfig; the settings either build a loader
\* or make toRawKubeConfigLoader return nil.  A nil loader panics the
\* plugin, after which nothing runs: deadlock is not an error here.
CONSTANTS
    Nil = Nil
    ns1 = ns1
    p1 = p1
    p2 = p2
    p3 = p3
    Namespaces = {ns1}
    Procs = {p1, p2, p3}
    MaxBuilds = 2
    ConfigChoices <- MCConcurrentConfigs
SPECIFICATION Spec
INVARIANT LoaderMemoized
PROPERTY CallsReturn
CHECK_DEADLOCK FALSE
