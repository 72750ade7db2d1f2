------------------------------ MODULE Provider ------------------------------
(***************************************************************************)
(* The provider configuration step of src/unnamed/part_000 (provider.go): *)
(* providerConfigure -> buildMeta, which fills a Meta in four steps,      *)
(* settings, Kubernetes client, Tiller tunnel, Helm client, and gives up  *)
(* at the first step that returns an error.                                *)
(*                                                                         *)
(* The provider settings are abstracted to what changes control: the      *)
(* Tiller host is empty or set, a PEM setting is left at its default, is  *)
(* PEM, is something else, or names a file that cannot be read.  What    *)
(* the cluster and the file system answer (kubeconfig resolution,        *)
(* kubernetes.NewForConfig, the port-forward) is chosen at the step.      *)
(***************************************************************************)
CONSTANTS
    Nil     \* a nil pointer or interface

(* The content of client_key, client_certificate and ca_certificate as    *)
(* getContent reads it: left at the "$HELM_HOME/<file>.pem" default,      *)
(* valid PEM, non-empty text that is not PEM, or an unreadable file.      *)
ContentKinds == {"default", "pem", "garbage", "unreadable"}

(* The provider block's settings, and whether $HELM_HOME holds a TLS key  *)
(* pair.  k8s_host is kubernetes.0.host; it needs the kubernetes block.   *)
Inputs ==
    {d \in [host: {"", "set"},
            kubernetes: BOOLEAN,
            k8s_host: BOOLEAN,
            client_key: ContentKinds,
            client_certificate: ContentKinds,
            ca_certificate: ContentKinds,
            insecure: BOOLEAN,
            helm_home_tls: BOOLEAN] : d.k8s_host => d.kubernetes}

(* A rest.Config: whether it came from a kubeconfig, whether a static     *)
(* host was put into it.                                                   *)
K8sConfigs == [kubeconfig: BOOLEAN, host: BOOLEAN]

(* A tls.Config for the Helm client: certificates are always set;        *)
(* RootCAs is the parsed CA bundle or absent.                              *)
TLSConfigs == [InsecureSkipVerify: BOOLEAN, RootCAs: BOOLEAN]

(* A nil *tls.Config is not a configuration.                              *)
ASSUME NilNotTLSConfig == Nil \notin TLSConfigs

Stages == {"settings", "k8s", "tunnel", "helm", "done", "failed"}

VARIABLES
    d,            \* the schema.ResourceData of the provider block
    stage,        \* the next step of buildMeta, or its outcome
    settings,     \* m.Settings.TillerHost
    k8sConfig,    \* m.K8sConfig
    k8sClient,    \* m.K8sClient is set
    tunnel,       \* m.Tunnel
    helmClient,   \* m.HelmClient: Nil or [host, tls]
    tunnelOpen    \* a port-forward to Tiller is open in the cluster

vars == <<d, stage, settings, k8sConfig, k8sClient, tunnel, helmClient, tunnelOpen>>

TypeOK ==
    /\ d \in Inputs
    /\ stage \in Stages
    /\ settings \in {"", "set", "localhost"}
    /\ k8sConfig \in {Nil} \cup K8sConfigs
    /\ k8sClient \in BOOLEAN
    /\ tunnel \in {Nil}
    /\ helmClient \in {Nil} \cup [host: {"", "set", "localhost"},
                                  tls: {Nil} \cup TLSConfigs]
    /\ tunnelOpen \in BOOLEAN

(* getContent: the content read, or an error.  A setting left at its     *)
(* default is read by pathorcontents.Read as the literal default string, *)
(* which getContent turns into no content.                               *)
ReadFails(kind) == kind = "unreadable"
NoContent(kind) == kind = "default"

(* getTLSConfig: the pair (cfg, err) it returns; cfg is Nil for no TLS.  *)
TLSError(in) ==
    \/ ReadFails(in.client_key) \/ ReadFails(in.client_certificate)
    \/ /\ ~(NoContent(in.client_key) /\ NoContent(in.client_certificate))
       /\ \/ in.client_key # "pem" \/ in.client_certificate # "pem"
          \/ ReadFails(in.ca_certificate)
          \/ ~in.insecure /\ in.ca_certificate = "garbage"

(* Faulty variant: TLS is set up only when both the key and the          *)
(* certificate are given (|| for && at line 341), so a lone key or        *)
(* certificate silently gives a client without TLS.                        *)
GetTLSConfigNeedsBoth(in) ==
    LET none == NoContent(in.client_key) \/ NoContent(in.client_certificate)
        err  == \/ ReadFails(in.client_key) \/ ReadFails(in.client_certificate)
                \/ /\ ~none
                   /\ \/ in.client_key # "pem" \/ in.client_certificate # "pem"
                      \/ ReadFails(in.ca_certificate)
                      \/ ~in.insecure /\ in.ca_certificate = "garbage"
    IN  [err |-> err,
         cfg |-> IF err \/ none THEN Nil
                 ELSE [InsecureSkipVerify |-> in.insecure,
                       RootCAs |-> ~in.insecure /\ in.ca_certificate = "pem"]]

GetTLSConfig(in) ==
    [err |-> TLSError(in),
     cfg |-> IF TLSError(in)
                \/ (NoContent(in.client_key) /\ NoContent(in.client_certificate))
             THEN Nil
             ELSE [InsecureSkipVerify |-> in.insecure,
                   RootCAs |-> ~in.insecure /\ in.ca_certificate = "pem"]]

Init ==
    /\ d \in Inputs
    /\ stage = "settings"
    /\ settings = ""
    /\ k8sConfig = Nil
    /\ k8sClient = FALSE
    /\ tunnel = Nil
    /\ helmClient = Nil
    /\ tunnelOpen = FALSE

(* buildSettings: TillerHost from the host setting.                       *)
BuildSettings ==
    /\ stage = "settings"
    /\ settings' = d.host
    /\ stage' = "k8s"
    /\ UNCHANGED <<d, k8sConfig, k8sClient, tunnel, helmClient, tunnelOpen>>

(* buildK8sClient: resolve the kubeconfig for config_context; a failure   *)
(* is fatal only when a kubernetes block is present, otherwise an empty   *)
(* rest.Config is used.  The static settings are laid over it, and        *)
(* kubernetes.NewForConfig may still fail.                                 *)
BuildK8sClient ==
    /\ stage = "k8s"
    /\ \E resolved, clientOk \in BOOLEAN :
         IF ~resolved /\ d.kubernetes
         THEN /\ stage' = "failed"
              /\ UNCHANGED <<k8sConfig, k8sClient>>
         ELSE /\ k8sConfig' = [kubeconfig |-> resolved, host |-> d.k8s_host]
              /\ k8sClient' = clientOk
              /\ stage' = IF clientOk THEN "tunnel" ELSE "failed"
    /\ UNCHANGED <<d, settings, tunnel, helmClient, tunnelOpen>>

(* Faulty variant: the early return for a configured Tiller host missing. *)
BuildTunnelAlways ==
    /\ stage = "tunnel"
    /\ \E ok \in BOOLEAN :
         IF ok THEN /\ tunnelOpen' = TRUE
                    /\ settings' = "localhost"
                    /\ stage' = "helm"
               ELSE /\ stage' = "failed"
                    /\ UNCHANGED <<settings, tunnelOpen>>
    /\ UNCHANGED <<d, k8sConfig, k8sClient, tunnel, helmClient>>

(* buildTunnel: nothing to do when a Tiller host is set; otherwise open a *)
(* port-forward to Tiller and point TillerHost at localhost:<port>.  The  *)
(* tunnel is a local variable: m.Tunnel is never assigned.                *)
BuildTunnel ==
    /\ stage = "tunnel"
    /\ IF settings # ""
       THEN /\ stage' = "helm"
            /\ UNCHANGED <<settings, tunnelOpen>>
       ELSE \E ok \in BOOLEAN :
              IF ok THEN /\ tunnelOpen' = TRUE
                         /\ settings' = "localhost"
                         /\ stage' = "helm"
                    ELSE /\ stage' = "failed"
                         /\ UNCHANGED <<settings, tunnelOpen>>
    /\ UNCHANGED <<d, k8sConfig, k8sClient, tunnel, helmClient>>

(* buildHelmClient: a client for TillerHost, with TLS when getTLSConfig   *)
(* returns a configuration; its error ends buildMeta.                     *)
BuildHelmClient ==
    /\ stage = "helm"
    /\ LET tls == GetTLSConfig(d)
       IN  IF tls.err
           THEN /\ stage' = "failed"
                /\ UNCHANGED helmClient
           ELSE /\ helmClient' = [host |-> settings, tls |-> tls.cfg]
                /\ stage' = "done"
    /\ UNCHANGED <<d, settings, k8sConfig, k8sClient, tunnel, tunnelOpen>>

(* buildMeta runs the steps in order; providerConfigure returns its      *)
(* result, and the host calls it once per provider instance.              *)
Next == BuildSettings \/ BuildK8sClient \/ BuildTunnel \/ BuildHelmClient

Spec == Init /\ [][Next]_vars /\ WF_vars(Next)

-----------------------------------------------------------------------------
(* Spec 4.3: a configured Tiller host is used as it is and no tunnel is   *)
(* opened; without one, the Helm client talks to the local end of a       *)
(* tunnel that was opened.  This relates the settings step, the tunnel    *)
(* step and the Helm client step.                                         *)
HelmClientTarget ==
    stage = "done" =>
        IF d.host # ""
        THEN helmClient.host = d.host /\ ~tunnelOpen
        ELSE helmClient.host = "localhost" /\ tunnelOpen

(* Spec 4.4 and 8, in the spec's words: a TLS configuration is attached  *)
(* exactly when key or certificate material is present and non-default;  *)
(* configuration fails on a malformed certificate/key pair; the insecure *)
(* setting is the verification skip; certificate and key without a CA    *)
(* give no root pool, and a CA bundle for a verified server is the root  *)
(* pool.  Relates the TLS settings to the client buildHelmClient stores.  *)
HelmTLSFromSettings ==
    stage = "done" =>
        LET material == ~(NoContent(d.client_key) /\ NoContent(d.client_certificate))
            tls      == helmClient.tls
        IN  /\ (tls # Nil) = material
            /\ material =>
                  /\ d.client_key = "pem" /\ d.client_certificate = "pem"
                  /\ tls.InsecureSkipVerify = d.insecure
                  /\ d.ca_certificate = "default" => ~tls.RootCAs
                  /\ (~d.insecure /\ d.ca_certificate = "pem") => tls.RootCAs

(* Spec 4.4: configuration "fails if ... the CA bundle cannot be parsed": *)
(* a Helm client with TLS is never built from a CA setting that is not    *)
(* PEM, whether or not the server certificate is verified.                *)
CABundleParsed ==
    (stage = "done" /\ helmClient.tls # Nil) => d.ca_certificate # "garbage"

(* Spec 4.2: the client builder fails when neither the kubeconfig nor the *)
(* static settings make the configuration usable: configuration never     *)
(* goes past the Kubernetes step with a rest.Config that has neither.     *)
K8sConfigUsable ==
    stage \in {"tunnel", "helm", "done"} => k8sConfig.kubeconfig \/ k8sConfig.host

(* Spec 3: the provider metadata holds the open tunnel, if any.           *)
TunnelInMeta == tunnelOpen => tunnel # Nil

(* Spec 3 and 5: the port-forward lives as long as the metadata object   *)
(* that holds it; when configuration fails no metadata exists, so no       *)
(* port-forward may be left open: a failed buildMeta (a bad TLS file      *)
(* found by buildHelmClient after buildTunnel succeeded) has none.         *)
NoTunnelAfterFailure == stage = "failed" => ~tunnelOpen

(* Spec 6: PEM material is read from literal content or from a file path, *)
(* by default $HELM_HOME/<file>.pem: with the TLS settings at their        *)
(* defaults and a key pair in $HELM_HOME, the Helm client uses TLS.        *)
DefaultTLSFilesUsed ==
    (stage = "done" /\ d.helm_home_tls
     /\ d.client_key = "default" /\ d.client_certificate = "default")
        => helmClient.tls # Nil
=============================================================================
