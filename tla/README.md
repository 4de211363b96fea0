# Formal models of eggo

TLA+ models of the eggo cluster deployment tool. They cover its Kubernetes
operator (eggops) first, since that is where the concurrency is. They come
with TLC configurations and TLAPS proofs.

## The system

eggo deploys Kubernetes clusters onto machines over SSH. It has these parts:

| Part | Source | What it does |
|---|---|---|
| eggops `ClusterReconciler` | `src/unnamed/part_001` | Drives a `Cluster` custom resource through provisioning and teardown. |
| Machine allocation | `src/unnamed/part_001:271-479` | Picks free `Machine` records for each role. |
| Config conversion | `src/cmd/configs.go` | Turns the user's YAML into the deployment config. It merges roles by IP, makes the masters the etcd nodes by default, and handles packages and CertSans. |
| CA certificate copy | `src/unnamed/part_000` | Computes the certificate set a node needs from its role bits and copies it. |
| Binary deployment driver | `src/pkg/clusterdeployment/binary/binary.go` | An SSH connection cache. The stages are stubs. |
| Types and bootstrap tokens | `src/pkg/clusterdeployment/types.go` | Data types and token templating. |
| CLI | `src/cmd/eggo.go` | Command-line parsing and I/O. |

### How the reconciler's parts interact

The reconciler owns several objects, all named after the cluster `<c>`:

- the `Cluster` `<c>`, which carries the finalizer;
- the `MachineBinding` `machinebind-<c>`;
- the `cmd-config` `ConfigMap`;
- the Jobs `<c>-create-job` and `<c>-delete-job`, which run `eggo deploy` and `eggo cleanup`.

**Provisioning.** `reconcileCreate` advances one step per pass:

1. find or allocate the binding;
2. validate the secret;
3. bind the volume claim;
4. create the ConfigMap;
5. create the deploy job;
6. wait for the job;
7. mark the binding "success" and set `HasCluster`.

Each step returns as soon as it has changed something. A reference to a newly
created object is recorded only on the next pass.

**Teardown.** `reconcileDelete` has five steps:

1. delete the deploy job;
2. run the cleanup job;
3. delete the binding;
4. delete the ConfigMap;
5. clear the references.

**Reads.** All reads go through the controller-runtime informer cache.

## Modules

| Module | Models |
|---|---|
| `ClusterReconciler.tla` | The reconciler and the machine allocator, with the environment: users, the job backend, operators and the informer. |
| `MC_ClusterReconciler.tla` | The TLC instance: clusters `c1` and `c2`, machines `m1`, `m2` and `m3`. Each cluster asks for one master and one worker. etcd asks for 0 machines and loadbalance for -1, which exercises the pass-through of `filterMachines`. |
| `MachineAllocation.tla` | The abstract allocation promise. `owner[m]` is a cluster or `Free`. A cluster with no machines may `Acquire` free machines, and a cluster may `Release` all of its machines at once. |
| `ClusterReconciler_proofs.tla` | The TLAPS proofs of the invariants. |
| `Configs.tla` | `createDeployConfigTemplate` and `toClusterdeploymentConfig`/`fillHostConfig` of `cmd/configs.go`, as one sequential state machine. |
| `MC_Configs.tla` | Its TLC instance: four IPs, user configs built from a few host entries, package overrides and endpoint forms, and every template option. |
| `Configs_proofs.tla` | The TLAPS proofs that hosts are merged by IP, that no step drops a cached host or a role bit, and that every host keeps the login of its origin entry. |
| `ConfigsLoops_proofs.tla` | The TLAPS proofs about the etcd member loop of `toClusterdeploymentConfig`: what the loop function computes for every node list, and that the members are exactly the etcd hosts, each once. |
| `BinaryDriver.tla` | The SSH connection cache of the binary driver: `New`/`initConnections` and `Finish`. |
| `MC_BinaryDriver.tla` | Its TLC instance: two addresses, every node list of up to three entries. |
| `BinaryDriver_proofs.tla` | The TLAPS proof that `Finish` leaves no runner open. |
| `BootstrapToken.tla` | `CreateBootstrapTokensForCluster` and `CreateBootstrapToken` of `types.go` against one machine and the cluster's Secrets. |
| `MC_BootstrapToken.tla` | Its TLC instance: two token IDs, TTLs nil, 1 or 24 hours, lists of up to two tokens. |
| `BootstrapToken_proofs.tla` | The TLAPS proofs of type correctness and of `NilMeansAllApplied`. |

### How Configs maps to the code

The conversion is sequential, so the state is a program counter `pc` (a role
loop, `"collect"`, `"finish"`, `"done"`, or `"template"`/`"panic"` for the
template command), the loop index `i`, the user config `conf`, the host cache
`cache` of `fillHostConfig` and the fields of `ccfg` the
properties read: `nodes`, `etcdNodes`, `certSans`. `cache` is a function
whose domain is the set of IPs stored so far. The Go code tests the key's
presence (`hostconfig, exist = cache[ip]`), so the model tests `ip \in DOMAIN cache`
and does not use a sentinel value.

`InputsAssumption` states what the inputs are:
- `IPs` is finite and holds the template's default addresses.
- A user's file parses into a `DeployConf`.
- The template flags parse into `Opts`.

- `Iterate(role)` is one iteration of a role loop (`configs.go:416-470`). `HostFor` is the cache lookup, which the masters loop skips. Then come the role bit, `AddUserPackages` and `AddPackagesAndExports`, and the write-back into the cache.
- `AddUserPackages` keeps the code's `noDupPkgs` computed once before the loop. `AddPackagesAndExports` checks ports against the ports appended so far, but packages only against those present before the call, as the code does.
- `CollectHosts` ranges over the cache in every order (`SetToSeqs`), because Go randomises map order.
- `Finish` is the rest of `toClusterdeploymentConfig`. `SetStrArray` is the identity, because the slice is passed by value. The etcd members are the hosts with the ETCD bit, in `ccfg.Nodes` order: `AppendMembers` is the `for _, node := range ccfg.Nodes` loop written as a recursive function `MembersLoop` over the index, one append per node with the bit, so that the provers can reason about it.
- `Template`/`TemplatePanics` are `createDeployConfigTemplate` followed by `loadDeployConfig`. Names are abstracted to strings, YAML and file I/O are left out, and a host's name and SSH port are kept.

The properties compare the result with independent reference definitions
(`RefRoles`, `RefLogin`, `RefPkgType`...). Each says what the host for an IP
must hold, computed from the user's lists rather than from the loop.

### How BinaryDriver and BootstrapToken map to the code

`BinaryDriver` has `phase` (`"connecting"` inside `New`, then `"ready"`,
`"finished"`), the cache `conns` (address to runner index) and the sequence
`runners` of every runner `NewSSHRunner` returned, each open or closed.

- `SkipCached`, `Connect` and `ConnectFails` are the three outcomes of one iteration of `initConnections`.
- `ConnectFails` ends `New`, because `New` drops the error.
- `Finish` closes the cached runners and empties the map.
- `connLock` makes each function atomic with respect to the other.

`BootstrapToken` has the token list, the index `k`, whether `/tmp/.eggo`
exists on the machine (`dir`), the set of Secrets (ID, expiration) and the
result.

- `DerefNilTTL` is `ttl := *bconf.TTL` on a nil pointer.
- `RunTokenCommand` is the `mkdir && write && kubectl apply` command. Either mkdir fails because the directory exists, or apply succeeds, or apply fails, leaving the directory behind.
- `TokensDone` returns nil.
- The constants `DirMayExist` and `ApplyMayFail` turn the environment's faults on.

### How ClusterReconciler maps to the code

**State.** The module has these variables:

- `cluster[c]` is the Cluster object or `Absent`. It holds the finalizer, the DeletionTimestamp (`deleting`) and the status.
- Each status reference is a Boolean, because all object names are deterministic.
- `mbStore[c]` is the binding in the API server and `mbCache[c]` is what the informer shows.
- `cm`, `createJob` and `deleteJob` hold the other objects. A job's value is its condition as `jobIsFinished` reads it.
- `secretValid` and `pvcBound` say whether the secret and the claim are usable.

**One pass is one step.** An action is one complete `Reconcile` pass that
changes something. This includes the `Status().Update` in `reconcile`, the
deferred `Update` in `Reconcile`, and what is lost when those are skipped.
`SetupWithManager` passes no options, so `MaxConcurrentReconciles` is 1.
Passes never overlap, so each pass is atomic. A pass that only fails and
requeues is a stutter, and each action's comment names the error paths it
leaves out.

**Allocation.** `filterMachines` is modelled declaratively:

- `FoundBefore` is the loop counter.
- `BoundInCache` is the skip test, evaluated against the cache.
- `Orders(S)` is every order the List may return, because the cache has no fixed order.

**Teardown.** `ReconcileDelete` ends every branch with the cluster removed.
This follows the code: `reconcileDelete` always returns a nil error, so the
finalizer is always removed.

**Environment.** These actions model the world outside the controller:

- `UserCreate` and `UserDelete`;
- `JobEnds`, where a job ends failed only if `JobMayFail`;
- `JobRemovedExternally`;
- `SecretReady` and `PVCReady`;
- `CacheSync`, which the model can only take if `StaleCache` holds.

`PROJECT.json` maps each definition to its lines.

## Runs

| Run | Config | Expect | Shows |
|---|---|---|---|
| safety | `MC_ClusterReconciler_safety.cfg` | pass | Fresh cache, failing jobs and external job deletion. `NoDoubleAllocation` and `BindingMeetsRequirements` hold, and the reconciler refines `MachineAllocation` (`AllocationRefinement`). 66k states. |
| liveness | `MC_ClusterReconciler_liveness.cfg` | pass | One cluster, lagging cache, deletions and recreations. `ProvisioningCompletes` holds under fairness. |
| failedjob | `MC_ClusterReconciler_failedjob.cfg` | violation | A failed deploy job is never retried: its status update is dropped (`part_001:815`). |
| finalizer | `MC_ClusterReconciler_finalizer.cfg` | violation | The finalizer is removed after one deletion pass (`part_001:107`). |
| stalecache | `MC_ClusterReconciler_stalecache.cfg` | violation | A lagging cache lets two clusters take the same machine (`part_001:310`). |
| staleref | `MC_ClusterReconciler_staleref.cfg` | violation | A recreated cluster adopts a binding that was already deleted (`part_001:725`). |
| jobdeleted | `MC_ClusterReconciler_jobdeleted.cfg` | violation | With `ExternalJobDelete`, `ProvisioningCompletes` fails. A deploy job deleted while `JobRef` names it makes every later `Get` fail (`part_001:674`). |
| configs | `MC_Configs.cfg` | pass | 116k states. The conversion holds for every user config, template option and map order. `HostsMergedByIP`: one host per listed IP with exactly its roles. `HostLogin`: name and port from the last master entry of the IP, else from the first entry of the first later list naming it. `InstallPlan`: packages and ports. `EtcdMembership`: exactly the etcd (or, by default, master) IPs. |
| certsans | `MC_Configs_certsans.cfg` | violation | User CertSans are dropped by `setStrArray` (`configs.go:507`). |
| binarydriver | `MC_BinaryDriver.cfg` | pass | `Finish` leaves no SSH runner open (`NoRunnerLeak`), across cache skips and failed connects. |
| bootstraptoken | `MC_BootstrapToken.cfg` | pass | With a leftover directory and failing kubectl, a nil result means every token's Secret exists with its TTL (`NilMeansAllApplied`). |
| mkdir | `MC_BootstrapToken_mkdir.cfg` | violation | On a clean machine with working kubectl, the second token fails: `mkdir /tmp/.eggo` has no `-p` and the directory is never removed (`types.go:243`). |

### Bounds

Two clusters and three machines are the smallest instance with contention.
Together the clusters need four machines, so the second to allocate must
either skip a bound machine or fail and retry. Every listing order of the
machines is enumerated. The machines are interchangeable model values, so the
safety run uses symmetry over them.

The liveness run uses one cluster, because two clusters without symmetry take
more than 12 minutes. Deleting and recreating that one cluster under a lagging
cache still exercises the stale-read paths.

Configs: four IPs and lists of up to two masters are enough for every overlap
of roles on one IP (master+node, master+etcd by default, node+loadbalance, a
master listed twice) and for a host's own name and port to compete with a
default. The package choices include names that are default packages of
another role and one that is of none. The endpoint forms include one with and
one without a scheme and a port. BinaryDriver: two addresses and lists of up to
three entries give a repeated address and a failure after a success. BootstrapToken:
two tokens are the least for the mkdir failure. Lists of two tokens with distinct IDs and each TTL let a failure strike after a success.

### Fairness

- The controller requeues after every error and every `RequeueAfter`, and watches Cluster objects. Each `Reconcile(c)` is therefore weakly fair.
- The job backend runs jobs to completion, so `JobEnds(c)` is weakly fair.
- The informer eventually delivers every update, so `CacheSync(c)` is weakly fair.
- Users and operators get no fairness.

## Proofs

`ClusterReconciler_proofs.tla` proves three theorems for every set of
clusters and machines and every requirement. They rest only on
`ConstantsAssumption` and `AbsentAssumption`.

**`TypeCorrect`: `Spec => []TypeOK`.** No run checks `TypeOK`: in Go the
types are the compiler's business, and no slip in the controller code could
break it. It is proved because the other proofs rest on it. The proof has one lemma per action
group. It rests on `PrepareMachineBindingFacts`: what `prepareMachineBinding`
returns is a well-typed binding.

**`BindingsMeetRequirements`: `Spec => []BindingMeetsRequirements`.** This
holds for a stale cache too. The inductive invariant `ReqInv` also requires
that every binding in the cache meets its requirements. That is needed because
`updateMachineBindingStatus` writes back a binding read from the cache. The
argument runs:

1. `FilterMachinesFacts`: `filterMachines` returns free machines of its pool, and exactly `Number` of them on success.
2. The unused machines are passed on from role to role, so the roles are disjoint.

**Not proved: no double allocation and the refinement.** Both hold only
while the informer cache never lags (`~StaleCache`), and the controller reads
other clusters' bindings through a cache that does lag (`filterMachines`,
part_001:310). The stalecache run shows the double allocation that a lagging
cache allows, so no theorem states either property for the code; the safety
run checks them on the fresh-cache instance only to show what the skip of
bound machines and the final count check buy when the cache is current.

TLC checked `ReqInv` on the safety instance before it was proved.
`ReqInv` was also checked with a lagging cache, which took 13M states.

**`ReqInvHolds`** states the inductive invariant itself, `Spec => []ReqInv`:
the bindings in the cache meet their requirements as well as those in the
store, however stale the cache.

**`FinishClosesAllRunners`** (`BinaryDriver_proofs.tla`): `Spec => []NoRunnerLeak`
for every set of addresses and every node list, from `BinaryDriverAssumption`
(`None` is no index, node lists are sequences of addresses). `NoRunnerLeak` is
not inductive: a `Finish` from `"ready"` closes only cached runners. The
inductive invariant `LeakInv` adds `OpenRunnersCached` (every open runner is
the cache entry of some address). `Connect` keeps it because it only caches
under an address that has no runner (the skip of `initConnections`), so no
open runner loses its entry; `Finish` then closes them all. TLC checked
`LeakInv` on the binarydriver instance before the proof.

**`DriverTypeCorrect`** (`BinaryDriver_proofs.tla`): `Spec => []TypeOK`. It
follows from `LeakInv`, which contains `TypeOK`. As with the reconciler, no
run checks it: the map stores the runner itself, so there is no slip in the
code that `TypeOK` alone would catch.

**`BootstrapToken_proofs.tla`** proves two theorems for every token list and
every machine state. They rest on `TokenListsAssumption`: the lists are
sequences of tokens.

- **`TokenTypeCorrect`**: `Spec => []TypeOK`.
- **`NilMeansAllTokensApplied`**: `Spec => []NilMeansAllApplied`, for every set of token lists whose IDs are distinct.
  - `NilMeansAllApplied` is not inductive: it speaks only of the final state.
  - The inductive invariant `TokenLoopInv` says that the first `k - 1` tokens are applied with their own TTL. It also says that a nil result means the loop has passed the last token.
  - Why IDs must be distinct: `kubectl apply` of a Secret replaces an earlier Secret of the same ID, so with a repeated ID the earlier token's TTL is lost. `ApplyKeepsOthers` shows that applying a token leaves the Secrets of other IDs alone.
  - TLC checked `TokenLoopInv` on the bootstraptoken instance before the proof.

**`Configs_proofs.tla`** proves two theorems for every finite set of
addresses, every user config and every template option. They rest on
`InputsAssumption`.

**`HostsMerged`: `Spec => []HostsMergedByIP`.** `HostsMergedByIP` speaks only of
the final state. The inductive invariant `MergeInv` describes the cache after
any number of loop iterations:
- `StageOf(pc)` and `i` say which entries of which lists have been visited.
- `Seen(conf, pc, i, ip)` is the set of roles whose lists have a visited entry for `ip`.
- `CacheInv` says that the cache holds exactly the IPs with a seen role. Each such host is stored under its own address, has the fields of a `HostConfig`, and has exactly the seen roles as its type.
- `NodesFromCache` says that, after the loop over the cache, `ccfg.nodes` is the cache's hosts in an order drawn from `SetToSeqs`.

The step lemmas follow the loops:
- `SeenAfterIterate`: one iteration adds the entry's role to its IP.
- For the masters loop, `SeenWithinStage` shows the host it recreates had only the master bit.
- `SeenAfterLoop`: the end of a loop changes nothing seen.
- `SeenAtEnd`: after the four loops, the seen roles are the reference `RefRoles`.
- `SetToSeqsOrder` (from `FS_Injection`): the order visits each cached IP exactly once.
- `RoleListRef`: the code's `len(conf.Etcds) == 0` and the reference's empty etcd list coincide.

`MergeInv` needed one strengthening beyond the first draft: `i = 1` while the
template is written. TLC checked `MergeInv` on the configs instance before the
proof (116k states).

**`HostLoginHolds`: `Spec => []HostLogin`.** A second invariant, `LoginInv`,
is proved alongside `MergeInv`. It gives the login (name and SSH port) of each
cached host, stated by `LoginOK(ip)`, in terms of the entries visited so far:
- If a master entry of the address has been visited, the login comes from the last such entry (`LastVisitedMaster`). The masters loop always calls `createCommonHostConfig`, so each master entry overwrites the host.
- Otherwise the login comes from the first entry (`FirstOf`) in the list of the address's first seen role (`FirstRole`). The other loops take the cached host and keep its name and port.

The steps:
- `LoginInvIterate` splits an iteration on three questions: is the address the entry's own, is the loop the masters loop, and is the address cached already.
- `VisitedAfterLoop` shows that the end of a loop changes no entry's visited status.
- `IterationHostFacts` shows that the package and port steps keep the name and port.
- At the end, `OriginMaster` and `OriginOther` show that these entries are the only ones matching the CHOOSE in `RefOrigin`. The last entry and the first entry are each unique, and `RoleIndex` is injective, so the first role is unique too.

TLC checked `LoginInv` and `MergeInv` together on the configs instance before
the proof (116k states, no violation).

**`ConfigsLoops_proofs.tla`: `EtcdMembers`: `Spec => []EtcdMembership`.**
The members are built by a loop over the list, so the proof needs what a
recursive function computes for every list. The library's induction theorems
take an operator parameter, which the provers cannot instantiate, so the
induction is done by hand, by a least counterexample:
- `LeastNat`: every non-empty set of naturals has a least element. It follows from `WFMin` applied to `<` on `Nat` (`NatLessThanWellFounded`).
- `MembersLoopExists`: for every prefix length `n` a function exists that satisfies the loop's equation on `0..n`. A least `n` without one would extend the one for `n - 1`.
- `MembersLoopDef`: so the `CHOOSE` behind `MembersLoop` satisfies its equation.
- `MembersPicked`: starting from no members, the loop's result is the nodes with the bit, each once and in list order. The witness is an injective index map `g` onto exactly the positions whose node has the bit. The induction step splits on whether node `n` has the bit.
- `EtcdInv` is the inductive invariant: the members are empty until `Finish` and afterwards equal `AppendMembers(<< >>, ccfg.nodes, "etcd")`. `EtcdInvStep` holds alongside `MergeInv`. TLC checked `EtcdInv` together with `MergeInv` and `LoginInv` on the configs instance before the proof (116k states).
- `EtcdInvMembership` combines them. `ccfg.nodes` visits each cached IP once (`SetToSeqsOrder`). The cached hosts have their seen roles, which at the end are `RefRoles` (`SeenAtEnd`). The `g` of `MembersPicked` composed with that order is injective, so no address repeats.

### Only model-checked

- The liveness property `ProvisioningCompletes`. Its proof needs fairness and ENABLED, which TLAPS cannot handle.
- The other Configs properties:
  - `InstallPlan` needs what the loop functions of `AddUserPackages` and `AddPackagesAndExports` compute for every list, and `AddPackagesAndExports` filters with `SelectSeq`, about which the provers know nothing. The least-counterexample induction of `ConfigsLoops_proofs.tla` would apply to each loop; it has not been carried out for them.
  - `Configs.TypeOK` needs the package and port lists that those loops build. It also needs host names to be in `STRING`, and TLAPS knows nothing about what `\o` and `ToString` return.
- The violations.

### Defects seen while modelling, without a run of their own

The model reaches these states, but no kept run asserts their absence. The
runs were spent on the deeper questions above.

- **`configs.go:618`**: `eggo template` with an explicitly empty loadbalancer list panics on `lbs[0]`. `TemplatePanics` reaches this state.
- **`configs.go:379`**: a package the user lists twice for a role is appended twice. `noDupPkgs` is never updated in the loop.
- **`binary.go:45`**: `New` drops the error of `initConnections`, so a driver is returned with nodes left unconnected. `ConnectFails` reaches this state.
- **`types.go:225`**: `CreateBootstrapToken` dereferences a nil TTL before checking it. `DerefNilTTL` reaches this state.

## Not modelled yet, and the plan

1. **Namespaces**, for the `mbs.Items[0]` check.
2. **Object incarnations**, for the adoption of an old `<c>-create-job` (`part_001:611`). A leak property would cover objects created but not yet referenced.
3. **`getRequireCerts`** (`part_000`) as a union over role bits. The certificate copy itself is SSH I/O.

Left out for good:

- **The CLI** (`cmd/eggo.go`): flag parsing, logging and version printing.
- **The path getters** `GetConfigDir`/`GetCertDir`/`GetManifestDir`: pure string functions with no state.
- **`GenerateBootstrapToken`**: random token generation.
- **In `configs.go`**: `loadDeployConfig`, `init` and `getEggoDir` (file I/O), and the `setIfStrConfigNotEmpty`/`setStrStrMap` copies of scalar fields that no property reads.

The `types.go` in the repository declares `HostConfig.Packages` as a map, while
`configs.go` uses a slice of named packages. The model follows `configs.go`,
the code whose behaviour is checked.
