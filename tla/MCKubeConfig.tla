---------------------------- MODULE MCKubeConfig ----------------------------
(***************************************************************************)
(* Model-checking instances of KubeConfig.                                 *)
(***************************************************************************)
EXTENDS KubeConfig

CONSTANTS p1, p2, p3, ns1

(* A usable configuration: kubeconfig file with a context override, a CA, *)
(* a host without a scheme and a bearer token.                             *)
UsableConfig ==
    [load_config_file |-> TRUE, config_path |-> "path",
     config_context |-> TRUE, config_context_auth_info |-> FALSE,
     config_context_cluster |-> FALSE, insecure |-> "unset",
     cluster_ca_certificate |-> TRUE, client_certificate |-> FALSE,
     host |-> "bare", static_auth |-> {"token"}, exec |-> "unset",
     namespace |-> ns1, file_tls |-> FALSE]

(* The same settings with an exec block that fails to parse.              *)
BadExecConfig == [UsableConfig EXCEPT !.exec = "malformed"]

(* Concurrency runs: one configuration that builds, one that does not.    *)
MCConcurrentConfigs == {UsableConfig, BadExecConfig}

(* Every combination of settings, with the verbatim-copied strings held   *)
(* to two choices and no TLS material in the kubeconfig file.             *)
MCAllConfigs ==
    {c \in ConfigData :
        /\ c.static_auth \in {{}, {"username", "password"}}
        /\ ~c.file_tls}

(* A kubeconfig file with TLS material, selected by config_path, and a    *)
(* host override without a scheme and no TLS override.                     *)
MCFileTLSConfigs ==
    {c \in ConfigData :
        /\ c.load_config_file /\ c.config_path = "path" /\ c.file_tls
        /\ c.host = "bare" /\ c.exec = "unset" /\ c.static_auth = {}
        /\ ~c.config_context_auth_info /\ ~c.config_context_cluster}
=============================================================================
