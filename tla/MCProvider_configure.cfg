\* One providerConfigure call for every combination of settings and every
\* answer of the cluster.  buildMeta ends in "done" or "failed" and the host
\* calls it once: deadlock is not an error here.
CONSTANTS
    Nil = Nil
SPECIFICATION Spec
INVARIANT HelmClientTarget HelmTLSFromSettings
CHECK_DEADLOCK FALSE
