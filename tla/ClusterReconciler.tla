--------------------------- MODULE ClusterReconciler ---------------------------
(***************************************************************************)
(* The eggops ClusterReconciler (src/unnamed/part_001): the controller     *)
(* that drives a Cluster record from "declared" to "provisioned" and back  *)
(* to "torn down" by creating and deleting store objects.                  *)
(*                                                                         *)
(* One step of Reconcile(c) is one pass of the Go function Reconcile for   *)
(* cluster c, from the Get of the Cluster to the deferred Update.  The     *)
(* controller is registered with the default options (SetupWithManager),   *)
(* so MaxConcurrentReconciles = 1: passes never overlap and each is an     *)
(* atomic step here.  What does interleave with them is everyone else:    *)
(* the user creating and deleting Cluster records, the eggo jobs running   *)
(* to completion, an operator deleting a job, the secret and the volume    *)
(* claim becoming ready, and the informer cache catching up with the store.*)
(*                                                                         *)
(* Objects are named deterministically from the cluster name in the code   *)
(* (machinebind-<c>, <c>-create-job, <c>-delete-job, the cmd-config       *)
(* ConfigMap), so every store object is indexed by its cluster, and a      *)
(* status reference is a Boolean: set or nil.                              *)
(*                                                                         *)
(* A pass that returns an error, or that returns after a failed Get, and   *)
(* changes nothing in the store is a stuttering step and is not written    *)
(* as an action; each action's comment names the error paths it omits.     *)
(***************************************************************************)
EXTENDS Integers, FiniteSets

CONSTANTS
    Clusters,          \* names of Cluster records
    Machines,          \* Machine records of the cluster namespace
    MasterMatch,       \* MasterMatch[c]: machines whose labels match c's MasterRequire features
    Require,           \* Require[c][r]: RequireMachineConfig.Number of role r for cluster c
    JobMayFail,        \* the eggo job may end with condition JobFailed
    ExternalJobDelete, \* someone other than the controller may delete the create job
    StaleCache,        \* reads of MachineBindings come from an informer cache that may lag
    Absent             \* no object of this name in the store

\* The four usages of prepareMachineBinding, in the order it fills them.
Roles == {"master", "worker", "etcd", "lb"}

ASSUME ConstantsAssumption ==
    /\ IsFiniteSet(Machines)
    /\ MasterMatch \in [Clusters -> SUBSET Machines]
    /\ Require \in [Clusters -> [Roles -> Int]]
    /\ JobMayFail \in BOOLEAN
    /\ ExternalJobDelete \in BOOLEAN
    /\ StaleCache \in BOOLEAN
    /\ Absent \notin Clusters

VARIABLES
    cluster,      \* cluster[c]: the Cluster object, or Absent
    mbStore,      \* mbStore[c]: the MachineBinding machinebind-<c> in the API server
    mbCache,      \* mbCache[c]: the same object as the controller's cache shows it
    cm,           \* cm[c]: the cmd-config ConfigMap of c exists
    createJob,    \* createJob[c]: the Job <c>-create-job ("absent" or its condition)
    deleteJob,    \* deleteJob[c]: the Job <c>-delete-job
    secretValid,  \* secretValid[c]: the machine login secret exists and is well formed
    pvcBound      \* pvcBound[c]: the package PersistentVolumeClaim is bound

vars == <<cluster, mbStore, mbCache, cm, createJob, deleteJob, secretValid, pvcBound>>
storeVars == <<mbStore, mbCache, cm, createJob, deleteJob>>
envVars == <<secretValid, pvcBound>>

-----------------------------------------------------------------------------
(* Types *)

\* Cluster.Status: the references reconcileCreate fills in, and HasCluster.
StatusRec == [mbRef: BOOLEAN, secretRef: BOOLEAN, pvcRef: BOOLEAN,
              configRef: BOOLEAN, jobRef: BOOLEAN, hasCluster: BOOLEAN]

\* A Cluster object: the finalizer, the DeletionTimestamp and the status.
ClusterObj == [finalizer: BOOLEAN, deleting: BOOLEAN, status: StatusRec]

\* A MachineBinding: the machines of each usage and whether
\* updateMachineBindingStatus marked them "success".
Binding == [use: [Roles -> SUBSET Machines], success: BOOLEAN]

\* A Job as jobIsFinished sees it, or "absent".
JobState == {"absent", "running", "complete", "failed"}

\* Absent stands for no object: it is neither a Cluster nor a binding.
ASSUME AbsentAssumption == Absent \notin ClusterObj \cup Binding

NoStatus == [mbRef |-> FALSE, secretRef |-> FALSE, pvcRef |-> FALSE,
             configRef |-> FALSE, jobRef |-> FALSE, hasCluster |-> FALSE]

NewCluster == [finalizer |-> FALSE, deleting |-> FALSE, status |-> NoStatus]

TypeOK ==
    /\ cluster \in [Clusters -> ClusterObj \cup {Absent}]
    /\ mbStore \in [Clusters -> Binding \cup {Absent}]
    /\ mbCache \in [Clusters -> Binding \cup {Absent}]
    /\ cm \in [Clusters -> BOOLEAN]
    /\ createJob \in [Clusters -> JobState]
    /\ deleteJob \in [Clusters -> JobState]
    /\ secretValid \in [Clusters -> BOOLEAN]
    /\ pvcBound \in [Clusters -> BOOLEAN]

-----------------------------------------------------------------------------
(* Machine allocation: labelSelectMachines, filterMachines,               *)
(* prepareMachineBinding.                                                  *)

\* The machines a binding holds, whatever their usage.
BoundMachines(b) == UNION {b.use[r] : r \in Roles}

\* The machines filterMachines skips: those some MachineBinding in the
\* controller's cache lists.
BoundInCache == UNION {BoundMachines(mbCache[d]) : d \in {d \in Clusters : mbCache[d] # Absent}}

\* The orders in which the List of labelSelectMachines may return the
\* machines of S: the cache lists objects in no fixed order.
Orders(S) == {s \in [1..Cardinality(S) -> S] : \A m \in S : \E i \in 1..Cardinality(S) : s[i] = m}

\* foundCnt when the loop of filterMachines reaches position i of ms,
\* scanning the machines of pool in the order of ms.
FoundBefore(ms, pool, bound, i) ==
    Cardinality({j \in 1..(i - 1) : ms[j] \in pool \ bound})

\* Faulty variants of filterMachines, each a plausible slip in that code,
\* kept to show that the properties below detect it.
\* (a) The "machine already used" skip is missing: bound machines are taken.
FilterMachinesNoSkip(ms, pool, number, bound) ==
    LET picked == {ms[i] : i \in {i \in DOMAIN ms :
                       ms[i] \in pool /\ FoundBefore(ms, pool, {}, i) < number}}
    IN  IF number <= 0
          THEN [ok |-> TRUE, result |-> {}, unused |-> pool]
          ELSE [ok |-> Cardinality(pool) >= number /\ Cardinality(picked) = number,
                result |-> picked, unused |-> pool \ picked]

\* (b) The final foundCnt != requiredNum check is missing: too few free
\* machines still count as success.
FilterMachinesNoCountCheck(ms, pool, number, bound) ==
    LET picked == {ms[i] : i \in {i \in DOMAIN ms :
                       ms[i] \in pool \ bound /\ FoundBefore(ms, pool, bound, i) < number}}
    IN  IF number <= 0
          THEN [ok |-> TRUE, result |-> {}, unused |-> pool]
          ELSE [ok |-> Cardinality(pool) >= number,
                result |-> picked, unused |-> pool \ picked]

\* filterMachines: scan pool in the order of ms, skip bound machines, take
\* the first number free ones; the rest (skipped or not reached) are unused.
FilterMachines(ms, pool, number, bound) ==
    LET picked == {ms[i] : i \in {i \in DOMAIN ms :
                       ms[i] \in pool \ bound /\ FoundBefore(ms, pool, bound, i) < number}}
    IN  IF number <= 0
          THEN [ok |-> TRUE, result |-> {}, unused |-> pool]
          ELSE [ok |-> Cardinality(pool) >= number /\ Cardinality(picked) = number,
                result |-> picked, unused |-> pool \ picked]

\* prepareMachineBinding: the machines listed with the master features are
\* filtered for master, what is left for worker, then etcd, then loadbalance.
PrepareMachineBinding(c, ms) ==
    LET bound  == BoundInCache
        master == FilterMachines(ms, MasterMatch[c], Require[c]["master"], bound)
        worker == FilterMachines(ms, master.unused, Require[c]["worker"], bound)
        etcd   == FilterMachines(ms, worker.unused, Require[c]["etcd"], bound)
        lb     == FilterMachines(ms, etcd.unused, Require[c]["lb"], bound)
    IN  [ok |-> master.ok /\ worker.ok /\ etcd.ok /\ lb.ok,
         binding |-> [use |-> [master |-> master.result, worker |-> worker.result,
                               etcd |-> etcd.result, lb |-> lb.result],
                      success |-> FALSE]]

\* A write of machinebind-<c> to the API server; a fresh cache sees it at once.
WriteBinding(c, b) ==
    /\ mbStore' = [mbStore EXCEPT ![c] = b]
    /\ mbCache' = IF StaleCache THEN mbCache ELSE [mbCache EXCEPT ![c] = b]

\* Faulty variant of jobIsFinished that only looks for JobFailed.
JobIsFinishedFailedOnly(js) == js = "failed"

\* jobIsFinished: a JobComplete or JobFailed condition ends the job.
JobIsFinished(js) == js \in {"complete", "failed"}

-----------------------------------------------------------------------------
(* Reconcile, creation path: Reconcile, reconcile, reconcileCreate.        *)

St(c) == cluster[c].status

SetStatus(c, s) == cluster' = [cluster EXCEPT ![c].status = s]

\* The cluster exists and has no DeletionTimestamp.
Live(c) == cluster[c] # Absent /\ ~cluster[c].deleting

\* Reconcile registers the finalizer and returns; the deferred Update saves it.
AddFinalizer(c) ==
    /\ Live(c)
    /\ ~cluster[c].finalizer
    /\ cluster' = [cluster EXCEPT ![c].finalizer = TRUE]
    /\ UNCHANGED <<storeVars, envVars>>

\* reconcile calls reconcileCreate while IsCreated() is false.
Creating(c) == Live(c) /\ cluster[c].finalizer /\ ~St(c).hasCluster

\* Step 1, binding found by name in the cache: MachineBindingRef is set.
RecordBinding(c) ==
    /\ Creating(c)
    /\ ~St(c).mbRef
    /\ mbCache[c] # Absent
    /\ SetStatus(c, [St(c) EXCEPT !.mbRef = TRUE])
    /\ UNCHANGED <<storeVars, envVars>>

\* Step 1, binding not found: prepareMachineBinding allocates and creates
\* it; the reference is recorded by the next pass.  Omitted: too few
\* machines for a role, and a Create that fails because the object already
\* exists in the API server though the cache does not show it.
AllocateMachines(c) ==
    /\ Creating(c)
    /\ ~St(c).mbRef
    /\ mbCache[c] = Absent
    /\ mbStore[c] = Absent
    /\ \E ms \in Orders(MasterMatch[c]) :
          LET a == PrepareMachineBinding(c, ms)
          IN  /\ a.ok
              /\ WriteBinding(c, a.binding)
    /\ UNCHANGED <<cluster, cm, createJob, deleteJob, envVars>>

\* Step 2, prepareSecret succeeds.  Omitted: a missing secret, a foreign
\* namespace, a wrong type or missing keys (error, requeue after 30s).
ValidateSecret(c) ==
    /\ Creating(c)
    /\ St(c).mbRef /\ ~St(c).secretRef
    /\ secretValid[c]
    /\ SetStatus(c, [St(c) EXCEPT !.secretRef = TRUE])
    /\ UNCHANGED <<storeVars, envVars>>

\* Step 3, preparePVCRef succeeds.  Omitted: a missing or unbound claim.
ValidatePVC(c) ==
    /\ Creating(c)
    /\ St(c).mbRef /\ St(c).secretRef /\ ~St(c).pvcRef
    /\ pvcBound[c]
    /\ SetStatus(c, [St(c) EXCEPT !.pvcRef = TRUE])
    /\ UNCHANGED <<storeVars, envVars>>

\* Step 4, prepareEggoConfig gets the binding and the secret by reference.
ConfigStage(c) ==
    /\ Creating(c)
    /\ St(c).mbRef /\ St(c).secretRef /\ St(c).pvcRef /\ ~St(c).configRef
    /\ mbCache[c] # Absent
    /\ secretValid[c]

\* Step 4, ConfigMap not found: create it and requeue after 2s.
CreateConfigMap(c) ==
    /\ ConfigStage(c)
    /\ ~cm[c]
    /\ cm' = [cm EXCEPT ![c] = TRUE]
    /\ UNCHANGED <<cluster, mbStore, mbCache, createJob, deleteJob, envVars>>

\* Step 4, ConfigMap found: ConfigRef is set.
RecordConfigMap(c) ==
    /\ ConfigStage(c)
    /\ cm[c]
    /\ SetStatus(c, [St(c) EXCEPT !.configRef = TRUE])
    /\ UNCHANGED <<storeVars, envVars>>

\* Step 5, prepareCreateClusterJob, while JobRef is nil.
JobStage(c) ==
    /\ Creating(c)
    /\ St(c).mbRef /\ St(c).secretRef /\ St(c).pvcRef /\ St(c).configRef
    /\ ~St(c).jobRef

\* Step 5, <c>-create-job found: JobRef is set, whatever job that is.
RecordCreateJob(c) ==
    /\ JobStage(c)
    /\ createJob[c] # "absent"
    /\ SetStatus(c, [St(c) EXCEPT !.jobRef = TRUE])
    /\ UNCHANGED <<storeVars, envVars>>

\* Step 5, job not found: create the deploy job.  Omitted: the secret or
\* the claim cannot be read any more.
CreateClusterJob(c) ==
    /\ JobStage(c)
    /\ createJob[c] = "absent"
    /\ secretValid[c] /\ pvcBound[c]
    /\ createJob' = [createJob EXCEPT ![c] = "running"]
    /\ UNCHANGED <<cluster, mbStore, mbCache, cm, deleteJob, envVars>>

\* Step 6, checkAndLogClusterJob on a failed job: the job is deleted and,
\* in memory, a JobHistory entry appended and JobRef cleared; but the
\* function returns the job's error, so reconcile returns before
\* Status().Update and Reconcile skips the deferred Update: the status
\* change is lost.  Omitted: a job still running, or not found.
DiscardFailedJob(c) ==
    /\ Creating(c)
    /\ St(c).jobRef
    /\ createJob[c] = "failed"
    /\ createJob' = [createJob EXCEPT ![c] = "absent"]
    /\ UNCHANGED <<cluster, mbStore, mbCache, cm, deleteJob, envVars>>

\* Steps 6 and 7, the job completed: updateMachineBindingStatus marks the
\* binding (as read from the cache) "success", then HasCluster is set.
\* The Update carries the cached resourceVersion, so it succeeds only when
\* the cache holds the stored version.  Omitted: that Update failing.
FinishCreate(c) ==
    /\ Creating(c)
    /\ St(c).jobRef
    /\ JobIsFinished(createJob[c]) /\ createJob[c] # "failed"
    /\ mbCache[c] # Absent
    /\ mbCache[c] = mbStore[c]
    /\ WriteBinding(c, [mbCache[c] EXCEPT !.success = TRUE])
    /\ SetStatus(c, [St(c) EXCEPT !.hasCluster = TRUE])
    /\ UNCHANGED <<cm, createJob, deleteJob, envVars>>

-----------------------------------------------------------------------------
(* Reconcile, deletion path: reconcileDelete and prepareDeleteClusterJob.  *)
(* reconcileDelete returns a nil error on every path, so Reconcile always  *)
(* removes the finalizer after it, and the deferred Update lets the API    *)
(* server remove the object: every deletion pass ends with the cluster     *)
(* gone, whichever step it stopped at.                                     *)

\* Steps 3-5 of reconcileDelete: delete the binding and requeue, else
\* delete the ConfigMap and requeue, else clear the references and save
\* the status.  Bindings are read through the cache.
TeardownRefs(c, s) ==
    IF s.mbRef /\ mbCache[c] # Absent
      THEN WriteBinding(c, Absent) /\ UNCHANGED cm
    ELSE IF s.configRef /\ cm[c]
      THEN cm' = [cm EXCEPT ![c] = FALSE] /\ UNCHANGED <<mbStore, mbCache>>
    ELSE UNCHANGED <<mbStore, mbCache, cm>>

ReconcileDelete(c) ==
    /\ cluster[c] # Absent
    /\ cluster[c].deleting /\ cluster[c].finalizer
    /\ LET s == St(c) IN
       CASE s.jobRef /\ createJob[c] # "absent" ->
              \* Step 1: delete the deploy job, requeue after 5s.
              /\ createJob' = [createJob EXCEPT ![c] = "absent"]
              /\ UNCHANGED <<mbStore, mbCache, cm, deleteJob>>
         [] s.hasCluster /\ deleteJob[c] = "absent" ->
              \* Step 2: no cleanup job yet: create one if the secret
              \* and the claim can be read, requeue after 5s.
              /\ deleteJob' = [deleteJob EXCEPT ![c] =
                                  IF secretValid[c] /\ pvcBound[c] THEN "running" ELSE "absent"]
              /\ UNCHANGED <<mbStore, mbCache, cm, createJob>>
         [] s.hasCluster /\ ~JobIsFinished(deleteJob[c]) ->
              \* Step 2: cleanup job running, requeue after 5s.
              UNCHANGED storeVars
         [] s.hasCluster /\ deleteJob[c] = "failed" ->
              \* Step 2: cleanup job failed: delete it, requeue after 1s.
              /\ deleteJob' = [deleteJob EXCEPT ![c] = "absent"]
              /\ UNCHANGED <<mbStore, mbCache, cm, createJob>>
         [] OTHER ->
              \* A completed cleanup job is deleted and HasCluster cleared;
              \* the pass goes on to steps 3-5.
              /\ deleteJob' = IF s.hasCluster
                                THEN [deleteJob EXCEPT ![c] = "absent"] ELSE deleteJob
              /\ TeardownRefs(c, s)
              /\ UNCHANGED createJob
    /\ cluster' = [cluster EXCEPT ![c] = Absent]
    /\ UNCHANGED envVars

\* Every pass of Reconcile for cluster c that changes something.
Reconcile(c) ==
    \/ AddFinalizer(c)
    \/ RecordBinding(c) \/ AllocateMachines(c)
    \/ ValidateSecret(c) \/ ValidatePVC(c)
    \/ CreateConfigMap(c) \/ RecordConfigMap(c)
    \/ RecordCreateJob(c) \/ CreateClusterJob(c)
    \/ DiscardFailedJob(c) \/ FinishCreate(c)
    \/ ReconcileDelete(c)

-----------------------------------------------------------------------------
(* The environment *)

\* A user creates the Cluster record (again, after an earlier one is gone).
UserCreate(c) ==
    /\ cluster[c] = Absent
    /\ cluster' = [cluster EXCEPT ![c] = NewCluster]
    /\ UNCHANGED <<storeVars, envVars>>

\* A user deletes the Cluster record: with our finalizer it gets a
\* DeletionTimestamp, without it the API server removes it at once.
UserDelete(c) ==
    /\ Live(c)
    /\ cluster' = [cluster EXCEPT ![c] =
                      IF cluster[c].finalizer THEN [cluster[c] EXCEPT !.deleting = TRUE]
                                              ELSE Absent]
    /\ UNCHANGED <<storeVars, envVars>>

\* The eggo deploy or cleanup job runs to a terminal condition.
JobEnds(c) ==
    \E end \in IF JobMayFail THEN {"complete", "failed"} ELSE {"complete"} :
       \/ /\ createJob[c] = "running"
          /\ createJob' = [createJob EXCEPT ![c] = end]
          /\ UNCHANGED deleteJob
       \/ /\ deleteJob[c] = "running"
          /\ deleteJob' = [deleteJob EXCEPT ![c] = end]
          /\ UNCHANGED createJob
    /\ UNCHANGED <<cluster, mbStore, mbCache, cm, envVars>>

\* An operator deletes the deploy job behind the controller's back.
JobRemovedExternally(c) ==
    /\ ExternalJobDelete
    /\ createJob[c] # "absent"
    /\ createJob' = [createJob EXCEPT ![c] = "absent"]
    /\ UNCHANGED <<cluster, mbStore, mbCache, cm, deleteJob, envVars>>

\* The login secret is created or fixed; the claim gets bound.
SecretReady(c) ==
    /\ ~secretValid[c]
    /\ secretValid' = [secretValid EXCEPT ![c] = TRUE]
    /\ UNCHANGED <<cluster, storeVars, pvcBound>>

PVCReady(c) ==
    /\ ~pvcBound[c]
    /\ pvcBound' = [pvcBound EXCEPT ![c] = TRUE]
    /\ UNCHANGED <<cluster, storeVars, secretValid>>

\* The informer delivers the latest version of machinebind-<c>.
CacheSync(c) ==
    /\ mbCache[c] # mbStore[c]
    /\ mbCache' = [mbCache EXCEPT ![c] = mbStore[c]]
    /\ UNCHANGED <<cluster, mbStore, cm, createJob, deleteJob, envVars>>

Environment(c) ==
    \/ UserCreate(c) \/ UserDelete(c)
    \/ JobEnds(c) \/ JobRemovedExternally(c)
    \/ SecretReady(c) \/ PVCReady(c)
    \/ CacheSync(c)

-----------------------------------------------------------------------------

Init ==
    /\ cluster = [c \in Clusters |-> Absent]
    /\ mbStore = [c \in Clusters |-> Absent]
    /\ mbCache = [c \in Clusters |-> Absent]
    /\ cm = [c \in Clusters |-> FALSE]
    /\ createJob = [c \in Clusters |-> "absent"]
    /\ deleteJob = [c \in Clusters |-> "absent"]
    /\ secretValid \in [Clusters -> BOOLEAN]
    /\ pvcBound \in [Clusters -> BOOLEAN]

Next == \E c \in Clusters : Reconcile(c) \/ Environment(c)

\* The controller re-runs a cluster's Reconcile after every requeue, error
\* and watch event, the job backend runs every job to its end, and the
\* informer delivers every update.  Users and operators act when they like.
Fairness ==
    \A c \in Clusters :
        /\ WF_vars(Reconcile(c))
        /\ WF_vars(JobEnds(c))
        /\ WF_vars(CacheSync(c))

Spec == Init /\ [][Next]_vars

FairSpec == Spec /\ Fairness

-----------------------------------------------------------------------------
(* Properties *)

\* No double allocation (filterMachines' skip of bound machines, the only
\* exclusion the controller has): two MachineBindings in the API server
\* never hold the same machine.
NoDoubleAllocation ==
    \A c1, c2 \in Clusters :
        (c1 # c2 /\ mbStore[c1] # Absent /\ mbStore[c2] # Absent)
            => BoundMachines(mbStore[c1]) \cap BoundMachines(mbStore[c2]) = {}

\* Binding b holds exactly the number of machines each usage of cluster c
\* requires (none for Number <= 0), and no machine under two usages.
MeetsRequirements(c, b) ==
    /\ \A r \in Roles :
          Cardinality(b.use[r]) = IF Require[c][r] <= 0 THEN 0 ELSE Require[c][r]
    /\ \A r1, r2 \in Roles : r1 # r2 => b.use[r1] \cap b.use[r2] = {}

\* Every MachineBinding that prepareMachineBinding commits (and that
\* updateMachineBindingStatus later rewrites) meets its cluster's
\* requirements: the per-usage count check and the chaining of unused
\* machines from one usage to the next in filterMachines.
BindingMeetsRequirements ==
    \A c \in Clusters : mbStore[c] # Absent => MeetsRequirements(c, mbStore[c])

\* The inductive form of BindingMeetsRequirements: bindings in the cache
\* meet their requirements too, since updateMachineBindingStatus writes
\* back the binding it read from the cache.
ReqInv ==
    /\ TypeOK
    /\ BindingMeetsRequirements
    /\ \A c \in Clusters : mbCache[c] # Absent => MeetsRequirements(c, mbCache[c])

\* Provisioning completes (reconcileCreate steps 2-7): once a live
\* cluster has recorded a MachineBinding that exists, and its secret and
\* claim are ready, it ends up with HasCluster unless it is deleted first.
ProvisioningCompletes ==
    \A c \in Clusters :
        (Live(c) /\ St(c).mbRef /\ mbStore[c] # Absent /\ secretValid[c] /\ pvcBound[c])
            ~> (cluster[c] = Absent \/ cluster[c].deleting \/ St(c).hasCluster)

\* Status references are re-fetched, never stale (spec, section 5): the
\* MachineBindingRef of a live cluster names a binding in the API server.
BindingRefResolves ==
    \A c \in Clusters : (Live(c) /\ St(c).mbRef) => mbStore[c] # Absent

\* A failed deploy job is retried (spec, Scenario C): after the job of a
\* live cluster fails, checkAndLogClusterJob clears JobRef and the next
\* pass creates a new deploy job.
FailedJobRetried ==
    \A c \in Clusters :
        (Live(c) /\ createJob[c] = "failed")
            ~> (cluster[c] = Absent \/ cluster[c].deleting \/ createJob[c] = "running")

\* The finalizer is held until teardown is done (spec, 4.2 and the
\* pre-delete hook): the Reconcile pass that lets the API server remove a
\* cluster leaves no deploy job, binding or ConfigMap its status refers to,
\* and no deployed cluster without a completed cleanup job.
FinalizerHeldUntilTeardown ==
    [][\A c \in Clusters :
         (cluster[c] # Absent /\ cluster[c].finalizer /\ cluster'[c] = Absent)
            => /\ St(c).jobRef => createJob'[c] = "absent"
               /\ St(c).mbRef => mbStore'[c] = Absent
               /\ St(c).configRef => ~cm'[c]
               /\ St(c).hasCluster => deleteJob[c] = "complete"]_vars

-----------------------------------------------------------------------------
(* Refinement of the machine allocation promise *)

\* The refinement mapping: a machine belongs to the cluster whose binding
\* in the API server lists it, and is free when no binding does.
OwnerOf ==
    [m \in Machines |->
        IF \E c \in Clusters : mbStore[c] # Absent /\ m \in BoundMachines(mbStore[c])
          THEN CHOOSE c \in Clusters : mbStore[c] # Absent /\ m \in BoundMachines(mbStore[c])
          ELSE Absent]

Alloc == INSTANCE MachineAllocation WITH owner <- OwnerOf, Free <- Absent

\* The controller implements the allocation promise: prepareMachineBinding
\* takes only free machines and only for a cluster with no binding,
\* updateMachineBindingStatus keeps a binding's machines, and teardown
\* releases a cluster's machines all at once.
AllocationRefinement == Alloc!Spec

=============================================================================
