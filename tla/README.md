# TLA+ verification of terraform-provider-helm (connection layer)

This directory holds TLA+ models of the connection layer of the Helm Terraform
provider, with TLC configurations and TLAPS proofs. The connection layer is the
code that turns the provider block into Kubernetes and Helm clients. It models
`src/helm/structure_kubeconfig.go` and the `provider.go` part of
`src/unnamed/part_000`, lines 51-395. The two test files are listed under
"Not modelled".

## 1. Inventory

### Components

| Component | Source | State it keeps | Operations |
|---|---|---|---|
| KubeConfig getter | structure_kubeconfig.go 21-72 | `ConfigData`, `Namespace` (fixed), `clientConfig` (memoized loader, nil until built), `lock` | `ToRawKubeConfigLoader`, `ToRESTConfig`, `ToDiscoveryClient`, `ToRESTMapper` |
| Override assembly | structure_kubeconfig.go 74-177 | none: a pure function of the settings | `toRawKubeConfigLoader`: loading rules plus `ConfigOverrides`, or nil |
| Provider configuration | part_000 206-383 | `Meta`: `Settings.TillerHost`, `K8sConfig`, `K8sClient`, `Tunnel`, `HelmClient` | `providerConfigure` → `buildMeta` → `buildSettings`, `buildK8sClient`, `buildTunnel`, `buildHelmClient` (→ `getTLSConfig` → `getContent`) |
| Provider schema | part_000 74-204 | defaults of the settings | none |
| Resource handlers | not under src/ (only their tests) | the repository, chart and tiller resources | create/read/update/delete |

### How they interact

The plugin host calls `providerConfigure` once per provider instance. It runs
four builders in sequence and stops at the first error. The tunnel step only
runs when no Tiller host is configured: it opens a port-forward and rewrites
`TillerHost` to `localhost:<port>`, and the Helm client step reads that
rewritten host.

By spec 3 and 5, resource handlers may run in parallel goroutines
(Terraform's parallelism) and share one `KubeConfig` (the handler code that
creates it is not in this source tree). It is a getter whose four methods all go through
`ToRawKubeConfigLoader`. That method takes a mutex, builds the loader with
`toRawKubeConfigLoader` if `clientConfig` is nil, and returns `clientConfig`.
It returns while still holding the lock, because the unlock is deferred.
`ToRESTConfig` calls `ClientConfig()` on what it got back.

### What is hard here

- **Concurrency.** First calls of the getter race on the memoized loader,
  and only the mutex stops two loaders from being built.
- **Failure.** A loader that cannot be built is stored as nil and then used,
  which is a nil-interface panic. `NewDiscoveryClientForConfigOrDie` panics
  too. Any builder of `buildMeta` may fail after an earlier one has changed
  the cluster, for example by opening the tunnel.
- **Ordering.** The host override decides its URL scheme from the TLS
  overrides set before it. The Helm client must be built after the tunnel
  has rewritten the host.
- No message passing, timeouts or retries: the code has none. Nothing is
  persisted, so there is no crash recovery to model.

### What makes each component correct

- **Getter.** At most one loader is built, and every caller sees the same
  one (spec 5 and 8). Every call returns. A failure is an error, not a panic
  (spec 7).
- **Override assembly.** The server URL has secure defaults exactly when
  TLS material is present, as client-go would decide (spec 4.5 and 8).
- **Provider configuration.** The Helm client targets the configured host,
  or else an opened tunnel (spec 4.3). TLS is attached exactly when key or
  certificate material is given, configuration fails on a malformed key
  pair or an unparsable CA bundle, and certificate and key without a CA give
  no root pool (spec 4.4 and 8). The Kubernetes step fails only when no usable
  configuration exists (spec 4.2). Meta holds the tunnel (spec 3).

## 2. Plan

Modules in order of importance, and their state (✓ = done):

1. ✓ `KubeOverrides`: `toRawKubeConfigLoader` as a pure operator, built one
   setting at a time in code order.
2. ✓ `KubeConfig` (EXTENDS `KubeOverrides`): the shared getter with
   goroutines, the mutex, the memoized loader and the panics.
   ✓ `MCKubeConfig` instantiates it.
3. ✓ `KubeConfigProofs`: the type invariant and `LoaderMemoized` for every
   instance.
4. ✓ `Provider` and `MCProvider`: the `buildMeta` pipeline.
5. ✓ `ProviderProofs`: the type invariant, `HelmClientTarget` and
   `HelmTLSFromSettings`, through an inductive invariant that ties `stage`
   to `settings`, `tunnelOpen` and `helmClient`.
6. ✓ `KubeOverridesProofs`: what each block of `toRawKubeConfigLoader`
   writes, and from it `ServerURLDefaulting` for every setting
   (`URLDefaulting` in `KubeConfigProofs`).
7. Dropped: `RepositoryResource`, `TillerResource` and a `Plugin`
   composition. The handlers' code is not in this source tree, and nothing
   in src/ connects `Meta` to `KubeConfig` (see section 7).

## 3. Modules and how they correspond to the code

### KubeOverrides

`ConfigData` is one `KubeConfig`'s inputs: the `kubernetes.0.*` settings,
the `Namespace` pointer, and `file_tls`, which says whether the kubeconfig
file supplies TLS material. Strings are abstracted to set or unset, because
`k8sGetOk` treats an empty string as unset. The host is one of five URL
shapes, and `config_path` is one of three.

There is one operator per block of `toRawKubeConfigLoader`: `ApplyFileContext`,
`ApplyInsecure`, `ApplyCA`, `ApplyCert`, `ApplyHost`, `ApplyStaticAuth`,
`ApplyExec` and `ApplyNamespace`. `ToRawKubeConfigLoader` composes them in
code order. `LoaderFails` gathers the three early returns to nil:
`homedir.Expand`, `DefaultServerURL` and the exec parse. `DefaultServerURL`
models client-go's `rest.DefaultServerURL` as the comment at lines 118-121
describes it.

### KubeConfig

| Variable | Code |
|---|---|
| `configData` | `k.ConfigData`, `*k.Namespace` |
| `clientConfig` | `k.clientConfig`, as an instance number |
| `owner` | `k.lock` |
| `pc`, `method`, `ret` | each goroutine's position, method and returned loader |
| `builds` | count of constructed loaders |
| `crashed` | the process panicked |

| Action | Code |
|---|---|
| `Call` | a goroutine enters one of the four methods |
| `Lock` | line 63 |
| `Check` | line 67 |
| `Build` | line 68 |
| `Return` | the return at line 71 plus the deferred unlock at line 64 |
| `RESTConfig` | `ClientConfig()` on the returned loader: panic on nil, else success or error |
| `Discovery` | `NewDiscoveryClientForConfigOrDie`, panic or success, then the mapper |

A panic stops all steps.

### Provider

`d` is the provider block, a member of `Inputs`. `stage` is the next builder
to run, or `done` / `failed`. Each builder action carries its early error
return. `GetTLSConfig` returns getTLSConfig's `(cfg, err)` pair.

The TLS properties are written from the words of spec 4.4 and 8, not from
`GetTLSConfig`. `HelmTLSFromSettings` holds for the code. `CABundleParsed`
does not: line 360 parses the CA only for a verified server.
`ContentKinds` abstracts what getContent reads: `default`, `pem`, `garbage`
or `unreadable`. What the cluster and the file system answer is chosen with
`\E` at the step: kubeconfig resolution, `NewForConfig` and the
port-forward.

### Faulty variants

Each property has a faulty variant, defined just before the original it
replaces. It shows that the property is sensitive to a plausible bug in the
code:

- `LockUnguarded`: the nil check is done without the mutex.
- `ReturnKeepsLock`: the deferred unlock is missing.
- `ToRawKubeConfigLoaderHostFirst`: the host block comes before the CA and
  client certificate blocks.
- `BuildTunnelAlways`: the early return for a configured host is missing.
- `GetTLSConfigNeedsBoth`: TLS is set up only when both key and
  certificate are given (`||` for `&&` at line 341), so a lone key or
  certificate gives a client without TLS and without an error.

## 4. Runs

| Run | Cfg | Expect | Shows |
|---|---|---|---|
| kubeconfig_concurrency | MCKubeConfig_concurrency.cfg | pass | 3 goroutines, two configurations (one builds, one returns nil): `LoaderMemoized`, `CallsReturn` |
| kubeconfig_overrides | MCKubeConfig_overrides.cfg | pass | 1 goroutine, all 34,560 setting combinations (copied auth strings held to two choices, no TLS in the kubeconfig file): `ServerURLDefaulting` |
| kubeconfig_merged_url | MCKubeConfig_merged_url.cfg | violation | `ServerURLMatchesMergedConfig`: CA in the kubeconfig file, bare host, gives http |
| kubeconfig_panic | MCKubeConfig_panic.cfg | violation | `NoPanic`: a malformed exec block makes ToRESTConfig panic |
| provider_configure | MCProvider_configure.cfg | pass | every input and every cluster answer: `HelmClientTarget`, and `HelmTLSFromSettings` (TLS as spec 4.4 and 8 describe it) |
| provider_ca_bundle_parsed | MCProvider_CABundleParsed.cfg | violation | `CABundleParsed`: with insecure set, a non-PEM CA bundle is accepted |
| provider_k8s_usable | MCProvider_K8sConfigUsable.cfg | violation | `K8sConfigUsable`: no kubernetes block plus a failed kubeconfig still configures |
| provider_tunnel_in_meta | MCProvider_TunnelInMeta.cfg | violation | `TunnelInMeta`: Meta.Tunnel stays nil |
| provider_default_tls | MCProvider_DefaultTLSFilesUsed.cfg | violation | `DefaultTLSFilesUsed`: $HELM_HOME key pair not used |
| provider_no_tunnel_after_failure | MCProvider_NoTunnelAfterFailure.cfg | violation | `NoTunnelAfterFailure`: a certificate without a key fails configuration after the port-forward was opened |

**Bounds.**

- Three goroutines are enough for two to race on the first build while a
  third waits on the lock.
- `MaxBuilds = 2` leaves room for the second build that a faulty variant
  would produce. The correct code never reaches it.
- Goroutines loop forever, so repeated calls after the first build are
  covered.
- Every combination of the settings that change control is enumerated.
  Only the verbatim-copied strings are narrowed, to two choices.

**Deadlock.** Runs whose configurations include a panic, and the provider
runs (configure is called once and ends), say `CHECK_DEADLOCK FALSE`: the
process really stops there. `CallsReturn` catches a goroutine stuck on the
lock instead.

**Symmetry.** None. The liveness check is not sound under symmetry.

**Fairness.**

- `Lock` is strongly fair. Go's `sync.Mutex` enters starvation mode after a
  waiter has waited 1ms and then hands the lock to the waiters in order.
- The other steps of a started call are weakly fair: they never wait.
- Starting a call has no fairness, since callers may stop.
- `Provider` is weakly fair as a whole, because `buildMeta` is straight-line
  code.

## 5. Findings

| Kind | Where | What |
|---|---|---|
| Code bug | structure_kubeconfig.go:31 | The getter panics instead of returning an error when the loader is nil. |
| Spec-code divergence | structure_kubeconfig.go:124 | Scheme defaulting ignores TLS material that comes from the kubeconfig file. |
| Spec-code divergence | part_000:253 | A failed kubeconfig is fatal only when a kubernetes block is present. Without one, an empty config is used. |
| Spec-code divergence | part_000:301 | The tunnel is never stored in `Meta.Tunnel`. |
| Spec-code divergence | part_000:378 | TLS settings left at their `$HELM_HOME` defaults are never read. |
| Spec-code divergence | part_000:360 | With insecure set, the CA bundle is never parsed, so an unparsable one does not fail configuration as spec 4.4 says. |
| Spec gap | part_000:316 | TLS files are checked only after the port-forward is opened. A bad key pair fails configuration with the tunnel open and held by nothing. |

## 6. Proofs

TLAPS checks every proof. The theorems hold for every value of the
constants that satisfies the ASSUMEs of `KubeConfig`: `Procs` is non-empty
and excludes Nil, `MaxBuilds` is at least 1, and Nil is not a number.
`Provider` assumes only that Nil, the nil `*tls.Config`, is not a TLS
configuration record (`NilNotTLSConfig`).

**KubeConfigProofs.**

- `TypeCorrect`: `Spec => []TypeOK`.
- `Memoized`: `Spec => []LoaderMemoized`.
- `URLDefaulting`: `Spec => []ServerURLDefaulting`.

`LoaderMemoized` is not inductive as it stands: a step of one goroutine
could break it from a state no run reaches. The proof goes through `IInv`,
which adds four facts:

- a goroutine in the critical section holds the lock;
- a goroutine about to build saw `clientConfig = Nil`;
- `builds` is 0 while no loader is cached, and 1 (with the loader being
  instance 1) once one is;
- every `ret` is Nil or `clientConfig`.

The first fact gives mutual exclusion. With it, a `Build` cannot happen
while another goroutine is at its own build or return.

`URLDefaulting` uses the invariant `LoaderFromSettings`: a cached loader was
built from the settings, which never change. It then applies `URLOfLoader`.

**KubeOverridesProofs.** `URLOfLoader` proves the server URL for every
setting. It chains one lemma per block of `toRawKubeConfigLoader`:

- `FileContextKeeps`, `InsecureSets`, `CASets`, `CertSets`, `HostSets` and
  `TailKeeps` each state what the block writes and what it leaves alone;
- together they show that the insecure, CA and certificate blocks have set
  their flags before the host block reads them.

**ProviderProofs.**

- `TypeCorrect`: `Spec => []TypeOK`.
- `ClientTarget`: `Spec => []HelmClientTarget`.
- `TLSFromSettings`: `Spec => []HelmTLSFromSettings`.

All of them go through `PInv`, which records what each stage of `buildMeta`
has established:

- the target host is fixed from the Helm step on;
- there is no Helm client before `done`;
- at `done`, the client was built from the target and from a TLS
  configuration that `getTLSConfig` returned without error.

`TLSFromSettings` then unfolds `getTLSConfig` at `done`. No error means that
either no key or certificate material was given, so the configuration is
nil, or the key pair is PEM, so a configuration with the insecure flag and a
root pool for a verified PEM CA is returned.

**Left to TLC.**

- Liveness (`CallsReturn`), because it needs fairness and ENABLED.
- The violation runs, which are counterexamples rather than theorems.

## 7. Not modelled

- **Resource handlers.** The handlers (`helm_repository`, `helm_chart`,
  `helm_tiller`) have no code in this source tree. Only
  `resource_tiller_test.go` and the `ResourcesMap` entries naming
  `resourceChart` and `resourceRepository` (part_000:198-201) are here.
  - Spec 4.5 calls each handler a stateless request/response mapping onto
    Helm and Kubernetes client calls.
  - The spec's claims about them are about the plugin host's plan diff and
    the cluster's garbage collector, not about logic that can be read here:
    an identical re-apply is a no-op, a URL change updates in place, and a
    destroyed Tiller deployment keeps a deletion timestamp.
  - A model of them would be invented, not translated.
  - For the same reason there is no composition module. Nothing in src/
    hands `Meta` or a `KubeConfig` to a handler.
- **Acceptance tests.** They run against a live cluster and check the
  handlers' results in the cluster.
- **Unused TLS package variables and debug logging.** They have no effect
  on control.
- **client-go and Helm internals.** Discovery, the REST mapper, the
  port-forwarder and the Helm RPCs are abstracted to success, error or
  panic at the call site.
