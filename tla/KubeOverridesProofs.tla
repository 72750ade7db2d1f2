------------------------ MODULE KubeOverridesProofs -------------------------
(***************************************************************************)
(* Facts about toRawKubeConfigLoader (KubeOverrides) for every setting:   *)
(* what each block of the function writes into the overrides and what it *)
(* leaves alone, and, from these, the server URL the host block computes. *)
(***************************************************************************)
EXTENDS KubeOverrides, TLAPS

(* The TLS material the overrides carry when the host block runs.         *)
OverridesTLS(o) ==
    \/ o.ClusterInfo.CertificateAuthorityData
    \/ o.AuthInfo.ClientCertificateData
    \/ o.ClusterInfo.InsecureSkipTLSVerify

(* The file and context block touches neither the cluster nor the user.  *)
LEMMA FileContextKeeps ==
    ASSUME NEW o \in Overrides, NEW c \in ConfigData
    PROVE  /\ ApplyFileContext(o, c) \in Overrides
           /\ ApplyFileContext(o, c).ClusterInfo = o.ClusterInfo
           /\ ApplyFileContext(o, c).AuthInfo = o.AuthInfo
BY DEF ApplyFileContext, Overrides, ConfigData

(* The insecure block sets InsecureSkipTLSVerify when the setting is set. *)
LEMMA InsecureSets ==
    ASSUME NEW o \in Overrides, NEW c \in ConfigData
    PROVE  /\ ApplyInsecure(o, c) \in Overrides
           /\ ApplyInsecure(o, c).AuthInfo = o.AuthInfo
           /\ ApplyInsecure(o, c).ClusterInfo.CertificateAuthorityData
                  = o.ClusterInfo.CertificateAuthorityData
           /\ ApplyInsecure(o, c).ClusterInfo.InsecureSkipTLSVerify
                  = IF c.insecure = "unset" THEN o.ClusterInfo.InsecureSkipTLSVerify
                    ELSE c.insecure = "true"
<1>1. CASE c.insecure = "unset"
  BY <1>1 DEF ApplyInsecure
<1>2. CASE c.insecure # "unset"
  <2>1. ApplyInsecure(o, c)
          = [o EXCEPT !.ClusterInfo.InsecureSkipTLSVerify = (c.insecure = "true")]
    BY <1>2 DEF ApplyInsecure
  <2>2. (c.insecure = "true") \in BOOLEAN
    OBVIOUS
  <2> DEFINE b == (c.insecure = "true")
  <2>3. [o.ClusterInfo EXCEPT !.InsecureSkipTLSVerify = b]
          \in [InsecureSkipTLSVerify: BOOLEAN, CertificateAuthorityData: BOOLEAN,
              Server: {"unset", "https", "http"}]
    BY <2>2 DEF Overrides
  <2>4. ApplyInsecure(o, c) \in Overrides
    BY <2>1, <2>3 DEF Overrides
  <2>5. QED
    BY <1>2, <2>1, <2>4 DEF Overrides
<1>3. QED
  BY <1>1, <1>2

(* The CA block sets CertificateAuthorityData when the CA is given.       *)
LEMMA CASets ==
    ASSUME NEW o \in Overrides, NEW c \in ConfigData
    PROVE  /\ ApplyCA(o, c) \in Overrides
           /\ ApplyCA(o, c).AuthInfo = o.AuthInfo
           /\ ApplyCA(o, c).ClusterInfo.InsecureSkipTLSVerify
                  = o.ClusterInfo.InsecureSkipTLSVerify
           /\ ApplyCA(o, c).ClusterInfo.CertificateAuthorityData
                  = (c.cluster_ca_certificate \/ o.ClusterInfo.CertificateAuthorityData)
BY DEF ApplyCA, Overrides, ConfigData

(* The client certificate block sets ClientCertificateData when given.   *)
LEMMA CertSets ==
    ASSUME NEW o \in Overrides, NEW c \in ConfigData
    PROVE  /\ ApplyCert(o, c) \in Overrides
           /\ ApplyCert(o, c).ClusterInfo = o.ClusterInfo
           /\ ApplyCert(o, c).AuthInfo.ClientCertificateData
                  = (c.client_certificate \/ o.AuthInfo.ClientCertificateData)
BY DEF ApplyCert, Overrides, ConfigData

(* The host block stores the URL rest.DefaultServerURL gives for the host *)
(* and the TLS material already in the overrides.                         *)
LEMMA HostSets ==
    ASSUME NEW o \in Overrides, NEW c \in ConfigData,
           c.host \in {"https", "http", "bare"}
    PROVE  /\ ApplyHost(o, c) \in Overrides
           /\ ApplyHost(o, c).ClusterInfo.Server
                  = DefaultServerURL(c.host, OverridesTLS(o))
<1>1. DefaultServerURL(c.host, OverridesTLS(o)) \in {"https", "http"}
  BY DEF DefaultServerURL
<1>2. ApplyHost(o, c) = [o EXCEPT !.ClusterInfo.Server
                                     = DefaultServerURL(c.host, OverridesTLS(o))]
  BY DEF ApplyHost, OverridesTLS
<1>3. QED
  BY <1>1, <1>2 DEF Overrides

(* The blocks after the host block leave the cluster alone.               *)
LEMMA TailKeeps ==
    ASSUME NEW o \in Overrides, NEW c \in ConfigData
    PROVE  ApplyNamespace(ApplyExec(ApplyStaticAuth(o, c), c), c).ClusterInfo
               = o.ClusterInfo
<1>1. ApplyStaticAuth(o, c) \in Overrides
      /\ ApplyStaticAuth(o, c).ClusterInfo = o.ClusterInfo
  BY DEF ApplyStaticAuth, Overrides, ConfigData
<1>2. ApplyExec(ApplyStaticAuth(o, c), c) \in Overrides
      /\ ApplyExec(ApplyStaticAuth(o, c), c).ClusterInfo = o.ClusterInfo
  BY <1>1 DEF ApplyExec, Overrides
<1>3. QED
  BY <1>2 DEF ApplyNamespace, Overrides

(* The comment at lines 118-121 holds for every setting: the server URL   *)
(* of a loader toRawKubeConfigLoader builds is the one                    *)
(* rest.DefaultServerURL gives for the host, with secure defaults exactly *)
(* when a CA, a client certificate or insecure=true is set.  It rests on  *)
(* the order of the blocks: insecure, CA and certificate before the host. *)
LEMMA URLOfLoader ==
    ASSUME NEW c \in ConfigData, ToRawKubeConfigLoader(c) # Nil, c.host # "unset"
    PROVE  ToRawKubeConfigLoader(c).ClusterInfo.Server
               = DefaultServerURL(c.host, \/ c.cluster_ca_certificate
                                          \/ c.client_certificate
                                          \/ c.insecure = "true")
<1> DEFINE o1 == ApplyFileContext(EmptyOverrides, c)
           o2 == ApplyInsecure(o1, c)
           o3 == ApplyCA(o2, c)
           o4 == ApplyCert(o3, c)
           o5 == ApplyHost(o4, c)
<1>1. ~LoaderFails(c)
  BY DEF ToRawKubeConfigLoader
<1>2. c.host \in {"https", "http", "bare"}
  BY <1>1 DEF ConfigData, LoaderFails, HostKinds
<1>3. EmptyOverrides \in Overrides
  BY DEF EmptyOverrides, Overrides
<1>4. /\ o1 \in Overrides
      /\ o1.ClusterInfo = EmptyOverrides.ClusterInfo
      /\ o1.AuthInfo = EmptyOverrides.AuthInfo
  BY <1>3, FileContextKeeps
<1>5. /\ o2 \in Overrides
      /\ o2.AuthInfo = EmptyOverrides.AuthInfo
      /\ o2.ClusterInfo.CertificateAuthorityData = FALSE
      /\ o2.ClusterInfo.InsecureSkipTLSVerify = (c.insecure = "true")
  <2>1. /\ o2 \in Overrides
        /\ o2.AuthInfo = o1.AuthInfo
        /\ o2.ClusterInfo.CertificateAuthorityData
               = o1.ClusterInfo.CertificateAuthorityData
        /\ o2.ClusterInfo.InsecureSkipTLSVerify
               = IF c.insecure = "unset" THEN o1.ClusterInfo.InsecureSkipTLSVerify
                 ELSE c.insecure = "true"
    BY <1>4, InsecureSets
  <2>2. o1.ClusterInfo.InsecureSkipTLSVerify = FALSE
        /\ o1.ClusterInfo.CertificateAuthorityData = FALSE
    BY <1>4 DEF EmptyOverrides
  <2>3. QED
    BY <1>4, <2>1, <2>2
<1>6. /\ o3 \in Overrides
      /\ o3.AuthInfo.ClientCertificateData = FALSE
      /\ o3.ClusterInfo.CertificateAuthorityData = c.cluster_ca_certificate
      /\ o3.ClusterInfo.InsecureSkipTLSVerify = (c.insecure = "true")
  BY <1>5, CASets DEF EmptyOverrides, ConfigData
<1>7. /\ o4 \in Overrides
      /\ OverridesTLS(o4) = \/ c.cluster_ca_certificate
                            \/ c.client_certificate
                            \/ c.insecure = "true"
  BY <1>6, CertSets DEF OverridesTLS, ConfigData
<1>8. o5 \in Overrides
      /\ o5.ClusterInfo.Server = DefaultServerURL(c.host, OverridesTLS(o4))
  BY <1>2, <1>7, HostSets
<1>9. ToRawKubeConfigLoader(c) = ApplyNamespace(ApplyExec(ApplyStaticAuth(o5, c), c), c)
  BY <1>1 DEF ToRawKubeConfigLoader
<1>10. QED
  BY <1>7, <1>8, <1>9, TailKeeps
=============================================================================
