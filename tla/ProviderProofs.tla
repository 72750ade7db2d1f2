------------------------- MODULE ProviderProofs ----------------------------
(***************************************************************************)
(* Proofs about the provider configuration pipeline (Provider) for every  *)
(* provider block: the type invariant, that the Helm client is bound to   *)
(* the configured Tiller host or to an opened tunnel, and that its TLS    *)
(* configuration is the one the TLS settings call for.                     *)
(***************************************************************************)
EXTENDS Provider, TLAPS

(* Where the Helm client must point, given the host setting: the setting *)
(* itself with no tunnel, or the local end of an opened tunnel.           *)
TargetSet ==
    IF d.host # ""
    THEN settings = d.host /\ ~tunnelOpen
    ELSE settings = "localhost" /\ tunnelOpen

(* The inductive invariant: what each stage of buildMeta has established.*)
(* Before the tunnel step TillerHost is the host setting and no tunnel is *)
(* open; from the Helm step on the target is set; a Helm client exists   *)
(* only once buildMeta is done, and it was built from the target and a   *)
(* TLS configuration that getTLSConfig returned without error.           *)
PInv ==
    /\ TypeOK
    /\ stage = "settings" => settings = "" /\ ~tunnelOpen
    /\ stage \in {"k8s", "tunnel"} => settings = d.host /\ ~tunnelOpen
    /\ stage \in {"helm", "done"} => TargetSet
    /\ stage # "done" => helmClient = Nil
    /\ stage = "done" =>
           /\ ~TLSError(d)
           /\ helmClient = [host |-> settings, tls |-> GetTLSConfig(d).cfg]

(* The TLS configuration getTLSConfig returns is Nil or a TLSConfigs     *)
(* record.                                                                 *)
LEMMA TLSConfigType == ASSUME NEW in \in Inputs
                       PROVE  GetTLSConfig(in).cfg \in {Nil} \cup TLSConfigs
<1>1. in.insecure \in BOOLEAN
  BY DEF Inputs
<1>2. QED
  BY <1>1 DEF GetTLSConfig, TLSConfigs

(* Every step of buildMeta keeps the state well typed.                    *)
LEMMA TypeStep == TypeOK /\ [Next]_vars => TypeOK'
<1> SUFFICES ASSUME TypeOK, [Next]_vars PROVE TypeOK'
  OBVIOUS
<1> USE DEF TypeOK, Stages
<1>1. CASE BuildSettings
  BY <1>1 DEF BuildSettings, Inputs
<1>2. CASE BuildK8sClient
  <2>1. PICK resolved, clientOk \in BOOLEAN :
          IF ~resolved /\ d.kubernetes
          THEN /\ stage' = "failed"
               /\ UNCHANGED <<k8sConfig, k8sClient>>
          ELSE /\ k8sConfig' = [kubeconfig |-> resolved, host |-> d.k8s_host]
               /\ k8sClient' = clientOk
               /\ stage' = IF clientOk THEN "tunnel" ELSE "failed"
    BY <1>2 DEF BuildK8sClient
  <2>2. d.k8s_host \in BOOLEAN /\ d.kubernetes \in BOOLEAN
    BY DEF Inputs
  <2>3. UNCHANGED <<d, settings, tunnel, helmClient, tunnelOpen>>
    BY <1>2 DEF BuildK8sClient
  <2>4. CASE ~resolved /\ d.kubernetes
    BY <2>1, <2>3, <2>4
  <2>5. CASE ~(~resolved /\ d.kubernetes)
    <3>1. k8sConfig' = [kubeconfig |-> resolved, host |-> d.k8s_host]
          /\ k8sClient' = clientOk
          /\ stage' \in {"tunnel", "failed"}
      BY <2>1, <2>2, <2>5
    <3>2. k8sConfig' \in K8sConfigs
      BY <2>2, <3>1 DEF K8sConfigs
    <3>3. QED
      BY <2>3, <3>1, <3>2
  <2>6. QED
    BY <2>4, <2>5
<1>3. CASE BuildTunnel
  BY <1>3 DEF BuildTunnel
<1>4. CASE BuildHelmClient
  <2>1. GetTLSConfig(d).cfg \in {Nil} \cup TLSConfigs
    BY TLSConfigType
  <2>2. settings \in {"", "set", "localhost"}
    OBVIOUS
  <2>3. UNCHANGED <<d, settings, k8sConfig, k8sClient, tunnel, tunnelOpen>>
    BY <1>4 DEF BuildHelmClient
  <2>4. CASE GetTLSConfig(d).err
    BY <1>4, <2>3, <2>4 DEF BuildHelmClient
  <2>5. CASE ~GetTLSConfig(d).err
    <3>1. helmClient' = [host |-> settings, tls |-> GetTLSConfig(d).cfg]
          /\ stage' = "done"
      BY <1>4, <2>5 DEF BuildHelmClient
    <3>2. QED
      BY <2>1, <2>2, <2>3, <3>1
  <2>6. QED
    BY <2>4, <2>5
<1>5. CASE UNCHANGED vars
  BY <1>5 DEF vars
<1>6. QED
  BY <1>1, <1>2, <1>3, <1>4, <1>5 DEF Next

(* Type correctness of the provider metadata.                              *)
THEOREM TypeCorrect == Spec => []TypeOK
<1>1. Init => TypeOK
  BY DEF Init, TypeOK, Stages
<1>2. QED
  BY <1>1, TypeStep, PTL DEF Spec

(* Every step of buildMeta preserves the inductive invariant.             *)
LEMMA PInvStep == PInv /\ [Next]_vars => PInv'
<1> SUFFICES ASSUME PInv, [Next]_vars PROVE PInv'
  OBVIOUS
<1>0. TypeOK'
  BY TypeStep DEF PInv
<1> USE DEF PInv, TargetSet
<1>1. CASE BuildSettings
  BY <1>0, <1>1 DEF BuildSettings
<1>2. CASE BuildK8sClient
  BY <1>0, <1>2 DEF BuildK8sClient
<1>3. CASE BuildTunnel
  BY <1>0, <1>3 DEF BuildTunnel, TypeOK, Inputs
<1>4. CASE BuildHelmClient
  <2>1. UNCHANGED <<d, settings, tunnelOpen>> /\ stage = "helm"
    BY <1>4 DEF BuildHelmClient
  <2>2. CASE GetTLSConfig(d).err
    BY <1>0, <1>4, <2>1, <2>2 DEF BuildHelmClient
  <2>3. CASE ~GetTLSConfig(d).err
    <3>1. helmClient' = [host |-> settings, tls |-> GetTLSConfig(d).cfg]
          /\ stage' = "done"
      BY <1>4, <2>3 DEF BuildHelmClient
    <3>2. ~TLSError(d)
      BY <2>3 DEF GetTLSConfig
    <3>3. QED
      BY <1>0, <2>1, <3>1, <3>2
  <2>4. QED
    BY <2>2, <2>3
<1>5. CASE UNCHANGED vars
  BY <1>0, <1>5 DEF vars, GetTLSConfig, TLSError, NoContent, ReadFails
<1>6. QED
  BY <1>1, <1>2, <1>3, <1>4, <1>5 DEF Next

(* The inductive invariant holds in every reachable state.                *)
LEMMA PInvHolds == Spec => []PInv
<1>1. Init => PInv
  BY DEF Init, PInv, TypeOK, Stages
<1>2. QED
  BY <1>1, PInvStep, PTL DEF Spec

(* buildTunnel and buildHelmClient (lines 296-327) agree on the Tiller    *)
(* address: a configured host is used and no tunnel is opened; without   *)
(* one, the Helm client talks to the local end of a tunnel that was       *)
(* opened.                                                                  *)
THEOREM ClientTarget == Spec => []HelmClientTarget
<1>1. PInv => HelmClientTarget
  <2> SUFFICES ASSUME PInv, stage = "done" PROVE HelmClientTarget
    BY DEF HelmClientTarget
  <2>1. helmClient.host = settings
    BY DEF PInv
  <2>2. TargetSet
    BY DEF PInv
  <2>3. QED
    BY <2>1, <2>2 DEF TargetSet, HelmClientTarget
<1>2. QED
  BY <1>1, PInvHolds, PTL

(* getTLSConfig (lines 329-368) attaches TLS exactly when key or          *)
(* certificate material is given, and uses the CA bundle as root pool     *)
(* only when the server certificate is verified.                           *)
THEOREM TLSFromSettings == Spec => []HelmTLSFromSettings
<1>1. PInv => HelmTLSFromSettings
  <2> SUFFICES ASSUME PInv, stage = "done" PROVE HelmTLSFromSettings
    BY DEF HelmTLSFromSettings
  <2>1. d \in Inputs /\ ~TLSError(d)
    BY DEF PInv, TypeOK
  <2>2. helmClient.tls = GetTLSConfig(d).cfg
    BY DEF PInv
  <2>3. d.insecure \in BOOLEAN
    BY <2>1 DEF Inputs
  <2> DEFINE material == ~(NoContent(d.client_key) /\ NoContent(d.client_certificate))
  <2>4. CASE material
    <3>1. d.client_key = "pem" /\ d.client_certificate = "pem"
          /\ ~(~d.insecure /\ d.ca_certificate = "garbage")
      BY <2>1, <2>4 DEF TLSError, ReadFails, NoContent
    <3>2. helmClient.tls = [InsecureSkipVerify |-> d.insecure,
                            RootCAs |-> ~d.insecure /\ d.ca_certificate = "pem"]
      BY <2>1, <2>2, <2>4 DEF GetTLSConfig
    <3>3. helmClient.tls \in TLSConfigs
      BY <2>3, <3>2 DEF TLSConfigs
    <3>4. helmClient.tls # Nil
      BY <3>3, NilNotTLSConfig DEF NilNotTLSConfig
    <3>5. /\ helmClient.tls.InsecureSkipVerify = d.insecure
          /\ helmClient.tls.RootCAs = (~d.insecure /\ d.ca_certificate = "pem")
      BY <3>2
    <3>6. /\ d.ca_certificate = "default" => ~helmClient.tls.RootCAs
          /\ (~d.insecure /\ d.ca_certificate = "pem") => helmClient.tls.RootCAs
      BY <3>5, Zenon
    <3>7. QED
      BY <2>4, <3>1, <3>4, <3>5, <3>6 DEF HelmTLSFromSettings, material
  <2>5. CASE ~material
    <3>1. helmClient.tls = Nil
      BY <2>2, <2>5 DEF GetTLSConfig
    <3>2. QED
      BY <2>5, <3>1 DEF HelmTLSFromSettings, material
  <2>6. QED
    BY <2>4, <2>5
<1>2. QED
  BY <1>1, PInvHolds, PTL
=============================================================================
