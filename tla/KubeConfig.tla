----------------------------- MODULE KubeConfig -----------------------------
(***************************************************************************)
(* The KubeConfig RESTClientGetter of src/helm/structure_kubeconfig.go     *)
(* shared by concurrent callers.  Each goroutine in Procs calls one of    *)
(* the four methods; all of them go through ToRawKubeConfigLoader, which  *)
(* takes k.lock, builds the loader when k.clientConfig is nil, and        *)
(* returns k.clientConfig while still holding the lock (the deferred      *)
(* Unlock runs after the return value is read).                            *)
(*                                                                         *)
(* A constructed loader is an instance number 1..MaxBuilds; the overrides *)
(* it carries are ToRawKubeConfigLoader(configData).  A Go panic (a       *)
(* method call on the nil loader, or NewDiscoveryClientForConfigOrDie     *)
(* failing) ends the whole plugin process: crashed.                       *)
(***************************************************************************)
EXTENDS Naturals, KubeOverrides

CONSTANTS
    Procs,          \* goroutines calling the getter
    ConfigChoices,  \* the configurations a run starts from
    MaxBuilds       \* bound on loader constructions (instance numbers)

ASSUME ProcsAssumption == Procs # {} /\ Nil \notin Procs
ASSUME ConfigChoicesAssumption == ConfigChoices \subseteq ConfigData
ASSUME MaxBuildsAssumption == MaxBuilds \in Nat \ {0}
ASSUME NilNotInstance == Nil \notin Nat

VARIABLES
    configData,    \* k.ConfigData and k.Namespace: fixed for the object's life
    clientConfig,  \* k.clientConfig: Nil or a loader instance
    owner,         \* holder of k.lock, or Nil
    pc,            \* where each goroutine is
    method,        \* the method each goroutine is executing
    ret,           \* the loader ToRawKubeConfigLoader last returned to it
    builds,        \* number of loaders constructed so far
    crashed        \* the plugin process has panicked

vars == <<configData, clientConfig, owner, pc, method, ret, builds, crashed>>

Instances == 1..MaxBuilds
Methods == {"ToRawKubeConfigLoader", "ToRESTConfig", "ToDiscoveryClient",
            "ToRESTMapper"}
PCs == {"idle", "lock", "check", "build", "return", "restconfig", "discovery"}

(* Goroutines inside the critical section of ToRawKubeConfigLoader.       *)
InCritical(p) == pc[p] \in {"check", "build", "return"}

TypeOK ==
    /\ configData \in ConfigData
    /\ clientConfig \in {Nil} \cup Instances
    /\ owner \in {Nil} \cup Procs
    /\ pc \in [Procs -> PCs]
    /\ method \in [Procs -> Methods]
    /\ ret \in [Procs -> {Nil} \cup Instances]
    /\ builds \in 0..MaxBuilds
    /\ crashed \in BOOLEAN

Init ==
    /\ configData \in ConfigChoices
    /\ clientConfig = Nil
    /\ owner = Nil
    /\ pc = [p \in Procs |-> "idle"]
    /\ method = [p \in Procs |-> "ToRawKubeConfigLoader"]
    /\ ret = [p \in Procs |-> Nil]
    /\ builds = 0
    /\ crashed = FALSE

(* A goroutine calls one of the getter's methods.                         *)
Call(p, m) ==
    /\ pc[p] = "idle"
    /\ pc' = [pc EXCEPT ![p] = "lock"]
    /\ method' = [method EXCEPT ![p] = m]
    /\ UNCHANGED <<configData, clientConfig, owner, ret, builds, crashed>>

(* Faulty variant: the memoization check done without taking k.lock.     *)
LockUnguarded(p) ==
    /\ pc[p] = "lock"
    /\ owner' = p
    /\ pc' = [pc EXCEPT ![p] = "check"]
    /\ UNCHANGED <<configData, clientConfig, method, ret, builds, crashed>>

(* k.lock.Lock(): blocks while another goroutine holds the lock.          *)
Lock(p) ==
    /\ pc[p] = "lock"
    /\ owner = Nil
    /\ owner' = p
    /\ pc' = [pc EXCEPT ![p] = "check"]
    /\ UNCHANGED <<configData, clientConfig, method, ret, builds, crashed>>

(* if k.clientConfig == nil: build, otherwise go straight to the return.  *)
Check(p) ==
    /\ pc[p] = "check"
    /\ pc' = [pc EXCEPT ![p] = IF clientConfig = Nil THEN "build" ELSE "return"]
    /\ UNCHANGED <<configData, clientConfig, owner, method, ret, builds, crashed>>

(* k.clientConfig = k.toRawKubeConfigLoader(): a new loader instance, or  *)
(* nil again when the settings cannot be used.                            *)
Build(p) ==
    /\ pc[p] = "build"
    /\ builds < MaxBuilds
    /\ IF ToRawKubeConfigLoader(configData) = Nil
       THEN UNCHANGED <<clientConfig, builds>>
       ELSE /\ builds' = builds + 1
            /\ clientConfig' = builds + 1
    /\ pc' = [pc EXCEPT ![p] = "return"]
    /\ UNCHANGED <<configData, owner, method, ret, crashed>>

(* Faulty variant: the deferred k.lock.Unlock() missing.                  *)
ReturnKeepsLock(p) ==
    /\ pc[p] = "return"
    /\ ret' = [ret EXCEPT ![p] = clientConfig]
    /\ pc' = [pc EXCEPT ![p] = IF method[p] = "ToRawKubeConfigLoader"
                                THEN "idle" ELSE "restconfig"]
    /\ UNCHANGED <<configData, clientConfig, owner, method, builds, crashed>>

(* return k.clientConfig, then the deferred k.lock.Unlock().  A plain     *)
(* ToRawKubeConfigLoader call ends here; the other methods go on to call  *)
(* ClientConfig() on what was returned.                                    *)
Return(p) ==
    /\ pc[p] = "return"
    /\ ret' = [ret EXCEPT ![p] = clientConfig]
    /\ owner' = Nil
    /\ pc' = [pc EXCEPT ![p] = IF method[p] = "ToRawKubeConfigLoader"
                                THEN "idle" ELSE "restconfig"]
    /\ UNCHANGED <<configData, clientConfig, method, builds, crashed>>

(* ToRESTConfig: ToRawKubeConfigLoader().ClientConfig().  On the nil      *)
(* loader this is a method call on a nil interface: a panic.  Otherwise   *)
(* the deferred loader reads the kubeconfig and may return an error,      *)
(* which ToDiscoveryClient and ToRESTMapper pass back to their caller.    *)
RESTConfig(p) ==
    /\ pc[p] = "restconfig"
    /\ IF ret[p] = Nil
       THEN /\ crashed' = TRUE
            /\ UNCHANGED pc
       ELSE /\ \E ok \in BOOLEAN :
                 pc' = [pc EXCEPT ![p] =
                          IF ok /\ method[p] # "ToRESTConfig"
                          THEN "discovery" ELSE "idle"]
            /\ UNCHANGED crashed
    /\ UNCHANGED <<configData, clientConfig, owner, method, ret, builds>>

(* ToDiscoveryClient: NewDiscoveryClientForConfigOrDie panics when no     *)
(* REST client can be made from the configuration (bad TLS data);         *)
(* otherwise the memory-cached client is returned, and ToRESTMapper wraps *)
(* it in a deferred mapper and a shortcut expander.                        *)
Discovery(p) ==
    /\ pc[p] = "discovery"
    /\ \E ok \in BOOLEAN :
         IF ok THEN /\ pc' = [pc EXCEPT ![p] = "idle"]
                    /\ UNCHANGED crashed
               ELSE /\ crashed' = TRUE
                    /\ UNCHANGED pc
    /\ UNCHANGED <<configData, clientConfig, owner, method, ret, builds>>

(* Steps of one goroutine other than starting a call.                     *)
Step(p) == Lock(p) \/ Check(p) \/ Build(p) \/ Return(p) \/ RESTConfig(p)
           \/ Discovery(p)

(* A panic stops every goroutine.                                          *)
Next ==
    /\ ~crashed
    /\ \E p \in Procs :
         \/ \E m \in Methods : Call(p, m)
         \/ Step(p)

(* Go's sync.Mutex hands the lock to a waiter that has starved for 1ms,   *)
(* so a goroutine that waits on a repeatedly released lock gets it:       *)
(* strong fairness for Lock.  The other steps run without waiting.        *)
(* Callers need not call again: Call has no fairness.  Nothing runs once  *)
(* the process has panicked.                                              *)
Fairness ==
    \A p \in Procs :
        /\ SF_vars(~crashed /\ Lock(p))
        /\ WF_vars(~crashed /\ (Check(p) \/ Build(p) \/ Return(p)
                                \/ RESTConfig(p) \/ Discovery(p)))

Spec == Init /\ [][Next]_vars /\ Fairness

-----------------------------------------------------------------------------
(* The spec (sections 3, 5 and 8): concurrent first calls resolve the     *)
(* loader exactly once, and every caller observes the same loader.  At    *)
(* most one instance is ever built, and what any goroutine got back from  *)
(* ToRawKubeConfigLoader is nil or the instance k.clientConfig holds now. *)
LoaderMemoized ==
    /\ builds <= 1
    /\ \A p \in Procs : ret[p] \in {Nil, clientConfig}

(* Every call of a getter method returns (or the process has panicked):   *)
(* no goroutine waits for k.lock forever.                                 *)
CallsReturn ==
    \A p \in Procs : (pc[p] # "idle") ~> (pc[p] = "idle" \/ crashed)

(* The comment at lines 118-121: the server URL put into the overrides is *)
(* the one rest.DefaultServerURL gives for the host with secure defaults  *)
(* exactly when CA data, a client certificate or insecure=true is set.    *)
ServerURLDefaulting ==
    LET c == configData
        o == ToRawKubeConfigLoader(c)
    IN  (clientConfig # Nil /\ c.host # "unset") =>
            o.ClusterInfo.Server =
                DefaultServerURL(c.host, \/ c.cluster_ca_certificate
                                         \/ c.client_certificate
                                         \/ c.insecure = "true")

(* Spec 4.5: the effective server URL is the one client-go's own default- *)
(* URL logic would compute for the merged configuration, whose TLS        *)
(* material also comes from the kubeconfig file.                          *)
ServerURLMatchesMergedConfig ==
    LET c == configData
        o == ToRawKubeConfigLoader(c)
    IN  (clientConfig # Nil /\ c.host # "unset") =>
            o.ClusterInfo.Server = DefaultServerURL(c.host, MergedHasTLS(o, c))

(* Spec 7: failures are returned to the caller as errors; a getter method *)
(* never brings the plugin down, even when the loader could not be built. *)
NoPanic == ~crashed
=============================================================================
