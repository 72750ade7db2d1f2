\* A kubeconfig file that carries the cluster's CA, and a host override
\* without a scheme: is the server URL the one client-go would default for
\* the merged configuration?
CONSTANTS
    Nil = Nil
    ns1 = ns1
    p1 = p1
    p2 = p2
    p3 = p3
    Namespaces = {ns1}
    Procs = {p1}
    MaxBuilds = 1
    ConfigChoices <- MCFileTLSConfigs
SPECIFICATION Spec
INVARIANT ServerURLMatchesMergedConfig
CHECK_DEADLOCK FALSE
