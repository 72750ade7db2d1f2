------------------------- MODULE KubeConfigProofs --------------------------
(***************************************************************************)
(* Proofs about KubeConfig for every set of goroutines, every              *)
(* configuration and every bound: the type invariant, and that the        *)
(* lock-guarded memoization of ToRawKubeConfigLoader builds at most one   *)
(* loader and hands every caller that same loader.                         *)
(***************************************************************************)
EXTENDS KubeConfig, KubeOverridesProofs, TLAPS

(* The inductive strengthening of LoaderMemoized: a goroutine inside the  *)
(* critical section holds the lock, a goroutine about to build saw no     *)
(* loader, the number of builds is 1 exactly when a loader is cached and  *)
(* that loader is instance 1, and every goroutine holds nil or it.        *)
IInv ==
    /\ TypeOK
    /\ \A p \in Procs : InCritical(p) => owner = p
    /\ \A p \in Procs : pc[p] = "build" => clientConfig = Nil
    /\ clientConfig = Nil => builds = 0
    /\ clientConfig # Nil => builds = 1 /\ clientConfig = 1
    /\ \A p \in Procs : ret[p] \in {Nil, clientConfig}

(* Every step of the getter preserves the type invariant.                 *)
LEMMA TypeStep == TypeOK /\ [Next]_vars => TypeOK'
<1> SUFFICES ASSUME TypeOK, [Next]_vars PROVE TypeOK'
  OBVIOUS
<1> USE DEF TypeOK, PCs, Instances
<1>1. ASSUME NEW p \in Procs, NEW m \in Methods, Call(p, m) PROVE TypeOK'
  BY <1>1 DEF Call
<1>2. ASSUME NEW p \in Procs, Lock(p) PROVE TypeOK'
  BY <1>2 DEF Lock
<1>3. ASSUME NEW p \in Procs, Check(p) PROVE TypeOK'
  BY <1>3 DEF Check
<1>4. ASSUME NEW p \in Procs, Build(p) PROVE TypeOK'
  BY <1>4, MaxBuildsAssumption DEF Build
<1>5. ASSUME NEW p \in Procs, Return(p) PROVE TypeOK'
  BY <1>5 DEF Return
<1>6. ASSUME NEW p \in Procs, RESTConfig(p) PROVE TypeOK'
  BY <1>6 DEF RESTConfig
<1>7. ASSUME NEW p \in Procs, Discovery(p) PROVE TypeOK'
  BY <1>7 DEF Discovery
<1>8. CASE UNCHANGED vars
  BY <1>8 DEF vars
<1>9. QED
  BY <1>1, <1>2, <1>3, <1>4, <1>5, <1>6, <1>7, <1>8 DEF Next, Step

(* The initial states are well typed.                                    *)
LEMMA TypeCorrectInit == Init => TypeOK
<1> SUFFICES ASSUME Init PROVE TypeOK
  OBVIOUS
<1>1. configData \in ConfigData
  BY ConfigChoicesAssumption DEF Init
<1>2. pc \in [Procs -> PCs] /\ method \in [Procs -> Methods]
  BY DEF Init, PCs, Methods
<1>3. ret \in [Procs -> {Nil} \cup Instances] /\ clientConfig \in {Nil} \cup Instances
  BY DEF Init
<1>4. builds \in 0..MaxBuilds
  BY MaxBuildsAssumption DEF Init
<1>5. QED
  BY <1>1, <1>2, <1>3, <1>4 DEF Init, TypeOK

(* Type correctness of the getter's state.                                *)
THEOREM TypeCorrect == Spec => []TypeOK
<1>1. Init => TypeOK
  BY TypeCorrectInit
<1>2. TypeOK /\ [Next]_vars => TypeOK'
  BY TypeStep
<1>3. QED
  BY <1>1, <1>2, PTL DEF Spec

(* Every step of the getter preserves the inductive invariant.            *)
LEMMA IInvStep == IInv /\ [Next]_vars => IInv'
<1> SUFFICES ASSUME IInv, [Next]_vars PROVE IInv'
  OBVIOUS
<1>0. TypeOK'
  BY TypeStep DEF IInv
<1> USE DEF IInv, TypeOK, InCritical
<1>1. ASSUME NEW p \in Procs, NEW m \in Methods, Call(p, m) PROVE IInv'
  BY <1>0, <1>1 DEF Call
<1>2. ASSUME NEW p \in Procs, Lock(p) PROVE IInv'
  BY <1>0, <1>2, ProcsAssumption DEF Lock
<1>3. ASSUME NEW p \in Procs, Check(p) PROVE IInv'
  BY <1>0, <1>3 DEF Check
<1>4. ASSUME NEW p \in Procs, Build(p) PROVE IInv'
  BY <1>0, <1>4, NilNotInstance DEF Build
<1>5. ASSUME NEW p \in Procs, Return(p) PROVE IInv'
  BY <1>0, <1>5 DEF Return
<1>6. ASSUME NEW p \in Procs, RESTConfig(p) PROVE IInv'
  BY <1>0, <1>6 DEF RESTConfig
<1>7. ASSUME NEW p \in Procs, Discovery(p) PROVE IInv'
  BY <1>0, <1>7 DEF Discovery
<1>8. CASE UNCHANGED vars
  BY <1>8 DEF vars
<1>9. QED
  BY <1>1, <1>2, <1>3, <1>4, <1>5, <1>6, <1>7, <1>8 DEF Next, Step

(* The inductive invariant holds in every reachable state.                *)
LEMMA IInvHolds == Spec => []IInv
<1>1. Init => IInv
  BY TypeCorrectInit DEF Init, IInv, InCritical
<1>2. QED
  BY <1>1, IInvStep, PTL DEF Spec

(* The memoization of ToRawKubeConfigLoader (lines 62-72) is race free:   *)
(* however the goroutines interleave, at most one loader is built and     *)
(* every goroutine got nil or the loader k.clientConfig holds.            *)
THEOREM Memoized == Spec => []LoaderMemoized
<1>1. IInv => LoaderMemoized
  BY DEF IInv, LoaderMemoized
<1>2. QED
  BY <1>1, IInvHolds, PTL

(* A cached loader is one toRawKubeConfigLoader built from the getter's   *)
(* settings, which never change.                                          *)
LoaderFromSettings ==
    /\ TypeOK
    /\ clientConfig # Nil => ToRawKubeConfigLoader(configData) # Nil

(* Every step of the getter preserves LoaderFromSettings.                *)
LEMMA LoaderFromSettingsStep ==
    LoaderFromSettings /\ [Next]_vars => LoaderFromSettings'
<1> SUFFICES ASSUME LoaderFromSettings, [Next]_vars PROVE LoaderFromSettings'
  OBVIOUS
<1>0. TypeOK'
  BY TypeStep DEF LoaderFromSettings
<1>1. ASSUME NEW p \in Procs, Build(p) PROVE LoaderFromSettings'
  BY <1>0, <1>1 DEF Build, LoaderFromSettings
<1>2. ASSUME NEW p \in Procs,
             \/ \E m \in Methods : Call(p, m)
             \/ Lock(p) \/ Check(p) \/ Return(p) \/ RESTConfig(p) \/ Discovery(p)
      PROVE  UNCHANGED <<configData, clientConfig>>
  BY <1>2 DEF Call, Lock, Check, Return, RESTConfig, Discovery
<1>3. CASE UNCHANGED <<configData, clientConfig>>
  BY <1>0, <1>3 DEF LoaderFromSettings
<1>4. QED
  BY <1>1, <1>2, <1>3 DEF Next, Step, vars

(* The server URL of the loader the getter hands out (lines 117-128) is   *)
(* the one rest.DefaultServerURL gives for the host, with secure defaults *)
(* exactly when CA data, a client certificate or insecure=true is set,   *)
(* whatever the settings.                                                  *)
THEOREM URLDefaulting == Spec => []ServerURLDefaulting
<1>1. Init => LoaderFromSettings
  BY TypeCorrectInit DEF Init, LoaderFromSettings
<1>2. LoaderFromSettings => ServerURLDefaulting
  <2> SUFFICES ASSUME LoaderFromSettings, clientConfig # Nil,
                      configData.host # "unset"
               PROVE  ServerURLDefaulting
    BY DEF ServerURLDefaulting
  <2>1. configData \in ConfigData /\ ToRawKubeConfigLoader(configData) # Nil
    BY DEF LoaderFromSettings, TypeOK
  <2>2. QED
    BY <2>1, URLOfLoader DEF ServerURLDefaulting
<1>3. QED
  BY <1>1, <1>2, LoaderFromSettingsStep, PTL DEF Spec
=============================================================================
