--------------------------- MODULE KubeOverrides ---------------------------
(***************************************************************************)
(* The pure part of the Kubernetes connection resolver of                  *)
(* src/helm/structure_kubeconfig.go: toRawKubeConfigLoader, which turns    *)
(* the provider's "kubernetes" settings into client-go loading rules and   *)
(* a ConfigOverrides value, or into nil when a setting cannot be used.     *)
(*                                                                         *)
(* Data is abstracted to what changes control: a string setting is "set"  *)
(* or not (k8sGetOk reports an empty string as unset), a PEM setting is    *)
(* present or not, and the host is one of a few URL shapes.  The          *)
(* overrides are built in the order of the code, one operator per         *)
(* setting, so that the host step sees exactly the TLS material that the  *)
(* earlier steps have put into the overrides.                              *)
(***************************************************************************)
CONSTANTS
    Nil,          \* the nil loader (and the nil *string namespace)
    Namespaces    \* namespace names a KubeConfig may be created with

ASSUME NilNotNamespace == Nil \notin Namespaces

(* Shapes of the config_path setting: unset or "", a path homedir.Expand  *)
(* accepts, and a "~otheruser/..." path on which homedir.Expand fails.    *)
PathKinds == {"none", "path", "tildeUser"}

(* Shapes of the host setting: unset, "https://h", "http://h", a host     *)
(* with no scheme ("h" or "h:6443"), and a string url.Parse rejects even  *)
(* after a scheme is prefixed.                                             *)
HostKinds == {"unset", "https", "http", "bare", "invalid"}

(* The string settings that are copied verbatim into AuthInfo.            *)
AuthKeys == {"username", "password", "client_key", "token"}

(* One KubeConfig's inputs: its ConfigData fields (schema keys under      *)
(* kubernetes.0), its Namespace pointer, and whether the kubeconfig file  *)
(* at config_path carries TLS material (CA or client certificate) for the *)
(* cluster it selects.                                                     *)
ConfigData ==
    [load_config_file: BOOLEAN,
     config_path: PathKinds,
     config_context: BOOLEAN,
     config_context_auth_info: BOOLEAN,
     config_context_cluster: BOOLEAN,
     insecure: {"unset", "true", "false"},
     cluster_ca_certificate: BOOLEAN,
     client_certificate: BOOLEAN,
     host: HostKinds,
     static_auth: SUBSET AuthKeys,
     exec: {"unset", "block", "malformed"},
     namespace: {Nil} \cup Namespaces,
     file_tls: BOOLEAN]

(* clientcmd.ConfigOverrides with the loading rules' ExplicitPath, every  *)
(* byte field abstracted to "non-empty".                                   *)
Overrides ==
    [ExplicitPath: BOOLEAN,
     CurrentContext: BOOLEAN,
     Context: [AuthInfo: BOOLEAN, Cluster: BOOLEAN,
               Namespace: {"default"} \cup Namespaces],
     ClusterInfo: [InsecureSkipTLSVerify: BOOLEAN,
                   CertificateAuthorityData: BOOLEAN,
                   Server: {"unset", "https", "http"}],
     AuthInfo: [ClientCertificateData: BOOLEAN,
                Static: SUBSET AuthKeys,
                Exec: BOOLEAN]]

EmptyOverrides ==
    [ExplicitPath |-> FALSE,
     CurrentContext |-> FALSE,
     Context |-> [AuthInfo |-> FALSE, Cluster |-> FALSE, Namespace |-> "default"],
     ClusterInfo |-> [InsecureSkipTLSVerify |-> FALSE,
                      CertificateAuthorityData |-> FALSE,
                      Server |-> "unset"],
     AuthInfo |-> [ClientCertificateData |-> FALSE, Static |-> {}, Exec |-> FALSE]]

(* The kubeconfig file is used when load_config_file is true and          *)
(* config_path is set and non-empty.                                       *)
UsesConfigFile(c) == c.load_config_file /\ c.config_path # "none"

(* rest.DefaultServerURL: a host that parses with a scheme is kept, any   *)
(* other gets "https://" when defaultTLS holds and "http://" otherwise;   *)
(* "invalid" is the host on which it returns an error.                    *)
DefaultServerURL(host, defaultTLS) ==
    CASE host \in {"https", "http"} -> host
      [] host = "bare"               -> IF defaultTLS THEN "https" ELSE "http"

(* The three early returns of toRawKubeConfigLoader that yield nil.       *)
ExpandFails(c) == UsesConfigFile(c) /\ c.config_path = "tildeUser"
LoaderFails(c) ==
    \/ ExpandFails(c)
    \/ c.host = "invalid"
    \/ c.exec = "malformed"

(* Explicit kubeconfig path and context selection (lines 78-105).         *)
ApplyFileContext(o, c) ==
    IF UsesConfigFile(c)
    THEN [o EXCEPT !.ExplicitPath = TRUE,
                   !.CurrentContext = c.config_context,
                   !.Context.AuthInfo = c.config_context_auth_info,
                   !.Context.Cluster = c.config_context_cluster]
    ELSE o

ApplyInsecure(o, c) ==
    IF c.insecure = "unset" THEN o
    ELSE [o EXCEPT !.ClusterInfo.InsecureSkipTLSVerify = (c.insecure = "true")]

ApplyCA(o, c) ==
    IF c.cluster_ca_certificate
    THEN [o EXCEPT !.ClusterInfo.CertificateAuthorityData = TRUE] ELSE o

ApplyCert(o, c) ==
    IF c.client_certificate
    THEN [o EXCEPT !.AuthInfo.ClientCertificateData = TRUE] ELSE o

(* The host step reads the TLS material already in the overrides.         *)
ApplyHost(o, c) ==
    IF c.host = "unset" THEN o
    ELSE LET defaultTLS == \/ o.ClusterInfo.CertificateAuthorityData
                           \/ o.AuthInfo.ClientCertificateData
                           \/ o.ClusterInfo.InsecureSkipTLSVerify
         IN [o EXCEPT !.ClusterInfo.Server = DefaultServerURL(c.host, defaultTLS)]

ApplyStaticAuth(o, c) == [o EXCEPT !.AuthInfo.Static = c.static_auth]

ApplyExec(o, c) ==
    IF c.exec = "block" THEN [o EXCEPT !.AuthInfo.Exec = TRUE] ELSE o

ApplyNamespace(o, c) ==
    [o EXCEPT !.Context.Namespace =
                  IF c.namespace = Nil THEN "default" ELSE c.namespace]

(* Faulty variant: the host block placed before the CA and client         *)
(* certificate blocks, so it cannot see their TLS material.               *)
ToRawKubeConfigLoaderHostFirst(c) ==
    IF LoaderFails(c) THEN Nil
    ELSE ApplyNamespace(ApplyExec(ApplyStaticAuth(ApplyCert(ApplyCA(ApplyHost(
             ApplyInsecure(ApplyFileContext(EmptyOverrides, c), c), c), c), c), c), c), c)

(* toRawKubeConfigLoader: nil on an early return, otherwise the deferred  *)
(* loading client config built from the overrides (never nil).            *)
ToRawKubeConfigLoader(c) ==
    IF LoaderFails(c) THEN Nil
    ELSE ApplyNamespace(ApplyExec(ApplyStaticAuth(ApplyHost(ApplyCert(ApplyCA(
             ApplyInsecure(ApplyFileContext(EmptyOverrides, c), c), c), c), c), c), c), c)

(* What client-go's defaultServerUrlFor would decide for the merged       *)
(* configuration: secure defaults when the merged cluster and user carry  *)
(* a CA, a client certificate or the insecure flag, whether they come     *)
(* from the overrides or from the kubeconfig file.                         *)
MergedHasTLS(o, c) ==
    \/ o.ClusterInfo.CertificateAuthorityData
    \/ o.AuthInfo.ClientCertificateData
    \/ o.ClusterInfo.InsecureSkipTLSVerify
    \/ (UsesConfigFile(c) /\ c.file_tls)
=============================================================================
