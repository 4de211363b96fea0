---------------------- MODULE ClusterReconciler_proofs ----------------------
(***************************************************************************)
(* Machine-checked proofs of the safety invariants of ClusterReconciler,  *)
(* for every set of clusters and machines, every label match and every    *)
(* requirement.                                                            *)
(***************************************************************************)
EXTENDS ClusterReconciler, FiniteSetTheorems, TLAPS

-----------------------------------------------------------------------------
(* filterMachines and prepareMachineBinding *)

\* What filterMachines returns: free machines of the pool, the rest of the
\* pool as unused, nothing for Number <= 0, and exactly Number machines
\* whenever it reports success.
LEMMA FilterMachinesFacts ==
    ASSUME NEW ms, NEW pool, NEW number \in Int, NEW bound,
           NEW f, f = FilterMachines(ms, pool, number, bound)
    PROVE  /\ f.result \subseteq pool \ bound
           /\ f.unused = pool \ f.result
           /\ number <= 0 => f.result = {}
           /\ (number > 0 /\ f.ok) => Cardinality(f.result) = number
<1> DEFINE picked == {ms[i] : i \in {i \in DOMAIN ms :
                          ms[i] \in pool \ bound /\ FoundBefore(ms, pool, bound, i) < number}}
<1>1. picked \subseteq pool \ bound
  <2> SUFFICES ASSUME NEW x \in picked PROVE x \in pool \ bound
    OBVIOUS
  <2>1. PICK i \in DOMAIN ms : ms[i] \in pool \ bound /\ x = ms[i]
    BY DEF picked
  <2> QED
    BY <2>1
<1>2. CASE number <= 0
  BY <1>2 DEF FilterMachines
<1>3. CASE ~(number <= 0)
  BY <1>1, <1>3 DEF FilterMachines, picked
<1> QED
  BY <1>2, <1>3

\* A role's count check: no machines for Number <= 0, otherwise exactly
\* Number when filterMachines reports success.
LEMMA RoleCount ==
    ASSUME NEW n \in Int, NEW S, NEW ok,
           n <= 0 => S = {},
           (n > 0 /\ ok) => Cardinality(S) = n,
           ok
    PROVE  Cardinality(S) = IF n <= 0 THEN 0 ELSE n
BY FS_EmptySet

\* What prepareMachineBinding builds: a well-typed binding that holds no
\* machine bound in the cache and, when it succeeds, meets the cluster's
\* requirements.
LEMMA PrepareMachineBindingFacts ==
    ASSUME NEW c \in Clusters, NEW ms, NEW a, a = PrepareMachineBinding(c, ms)
    PROVE  /\ a.binding \in Binding
           /\ BoundMachines(a.binding) \cap BoundInCache = {}
           /\ a.ok => MeetsRequirements(c, a.binding)
<1>1. /\ MasterMatch[c] \subseteq Machines
      /\ \A r \in Roles : Require[c][r] \in Int
  BY ConstantsAssumption
<1>2. PICK mr : mr = FilterMachines(ms, MasterMatch[c], Require[c]["master"], BoundInCache)
  OBVIOUS
<1>3. PICK wr : wr = FilterMachines(ms, mr.unused, Require[c]["worker"], BoundInCache)
  OBVIOUS
<1>4. PICK er : er = FilterMachines(ms, wr.unused, Require[c]["etcd"], BoundInCache)
  OBVIOUS
<1>5. PICK lr : lr = FilterMachines(ms, er.unused, Require[c]["lb"], BoundInCache)
  OBVIOUS
<1>6. /\ a.ok = (mr.ok /\ wr.ok /\ er.ok /\ lr.ok)
      /\ a.binding = [use |-> [master |-> mr.result, worker |-> wr.result,
                               etcd |-> er.result, lb |-> lr.result],
                      success |-> FALSE]
  BY <1>2, <1>3, <1>4, <1>5 DEF PrepareMachineBinding
<1>7. /\ mr.result \subseteq MasterMatch[c] \ BoundInCache
      /\ mr.unused = MasterMatch[c] \ mr.result
      /\ Require[c]["master"] <= 0 => mr.result = {}
      /\ (Require[c]["master"] > 0 /\ mr.ok) => Cardinality(mr.result) = Require[c]["master"]
  <2>1. Require[c]["master"] \in Int
    BY <1>1 DEF Roles
  <2>2. PICK pool : pool = MasterMatch[c]
    OBVIOUS
  <2>3. PICK bound : bound = BoundInCache
    OBVIOUS
  <2>4. /\ mr.result \subseteq pool \ bound
        /\ mr.unused = pool \ mr.result
        /\ Require[c]["master"] <= 0 => mr.result = {}
        /\ (Require[c]["master"] > 0 /\ mr.ok) => Cardinality(mr.result) = Require[c]["master"]
    BY <2>1, <2>2, <2>3, <1>2, FilterMachinesFacts
  <2> QED
    BY <2>2, <2>3, <2>4
<1>8. /\ wr.result \subseteq mr.unused \ BoundInCache
      /\ wr.unused = mr.unused \ wr.result
      /\ Require[c]["worker"] <= 0 => wr.result = {}
      /\ (Require[c]["worker"] > 0 /\ wr.ok) => Cardinality(wr.result) = Require[c]["worker"]
  BY <1>1, <1>3, FilterMachinesFacts DEF Roles
<1>9. /\ er.result \subseteq wr.unused \ BoundInCache
      /\ er.unused = wr.unused \ er.result
      /\ Require[c]["etcd"] <= 0 => er.result = {}
      /\ (Require[c]["etcd"] > 0 /\ er.ok) => Cardinality(er.result) = Require[c]["etcd"]
  BY <1>1, <1>4, FilterMachinesFacts DEF Roles
<1>10. /\ lr.result \subseteq er.unused \ BoundInCache
       /\ Require[c]["lb"] <= 0 => lr.result = {}
       /\ (Require[c]["lb"] > 0 /\ lr.ok) => Cardinality(lr.result) = Require[c]["lb"]
  BY <1>1, <1>5, FilterMachinesFacts DEF Roles
<1>11. Cardinality({}) = 0
  BY FS_EmptySet
<1>12. a.binding \in Binding
  BY <1>1, <1>6, <1>7, <1>8, <1>9, <1>10 DEF Binding, Roles
<1>13. BoundMachines(a.binding) \cap BoundInCache = {}
  BY <1>6, <1>7, <1>8, <1>9, <1>10 DEF BoundMachines, Roles
<1>14. a.ok => MeetsRequirements(c, a.binding)
  <2> SUFFICES ASSUME a.ok PROVE MeetsRequirements(c, a.binding)
    OBVIOUS
  <2>1. mr.ok /\ wr.ok /\ er.ok /\ lr.ok
    BY <1>6
  <2>2. \A r \in Roles :
          Cardinality(a.binding.use[r]) = IF Require[c][r] <= 0 THEN 0 ELSE Require[c][r]
    <3>1. \A r \in Roles : Require[c][r] \in Int
      BY <1>1
    <3>0. /\ a.binding.use["master"] = mr.result
          /\ a.binding.use["worker"] = wr.result
          /\ a.binding.use["etcd"] = er.result
          /\ a.binding.use["lb"] = lr.result
      BY <1>6
    <3>2. Cardinality(a.binding.use["master"]) =
            IF Require[c]["master"] <= 0 THEN 0 ELSE Require[c]["master"]
      <4>1. Require[c]["master"] \in Int
        BY <3>1 DEF Roles
      <4>2. Cardinality(mr.result) = IF Require[c]["master"] <= 0 THEN 0 ELSE Require[c]["master"]
        BY <4>1, <1>7, <2>1, RoleCount
      <4> QED
        BY <4>2, <3>0
    <3>3. Cardinality(a.binding.use["worker"]) =
            IF Require[c]["worker"] <= 0 THEN 0 ELSE Require[c]["worker"]
      <4>1. Require[c]["worker"] \in Int
        BY <3>1 DEF Roles
      <4>2. Cardinality(wr.result) = IF Require[c]["worker"] <= 0 THEN 0 ELSE Require[c]["worker"]
        BY <4>1, <1>8, <2>1, RoleCount
      <4> QED
        BY <4>2, <3>0
    <3>4. Cardinality(a.binding.use["etcd"]) =
            IF Require[c]["etcd"] <= 0 THEN 0 ELSE Require[c]["etcd"]
      <4>1. Require[c]["etcd"] \in Int
        BY <3>1 DEF Roles
      <4>2. Cardinality(er.result) = IF Require[c]["etcd"] <= 0 THEN 0 ELSE Require[c]["etcd"]
        BY <4>1, <1>9, <2>1, RoleCount
      <4> QED
        BY <4>2, <3>0
    <3>5. Cardinality(a.binding.use["lb"]) =
            IF Require[c]["lb"] <= 0 THEN 0 ELSE Require[c]["lb"]
      <4>1. Require[c]["lb"] \in Int
        BY <3>1 DEF Roles
      <4>2. Cardinality(lr.result) = IF Require[c]["lb"] <= 0 THEN 0 ELSE Require[c]["lb"]
        BY <4>1, <1>10, <2>1, RoleCount
      <4> QED
        BY <4>2, <3>0
    <3> QED
      BY <3>2, <3>3, <3>4, <3>5 DEF Roles
  <2>3. \A r1, r2 \in Roles : r1 # r2 => a.binding.use[r1] \cap a.binding.use[r2] = {}
    BY <1>6, <1>7, <1>8, <1>9, <1>10 DEF Roles
  <2> QED
    BY <2>2, <2>3 DEF MeetsRequirements
<1> QED
  BY <1>12, <1>13, <1>14

-----------------------------------------------------------------------------
(* Type correctness *)

LEMMA TypeInit == Init => TypeOK
BY DEF Init, TypeOK, JobState

\* An existing Cluster object is a record with a well-typed status.
LEMMA ClusterObjType ==
    ASSUME TypeOK, NEW c \in Clusters, cluster[c] # Absent
    PROVE  cluster[c] \in ClusterObj /\ St(c) \in StatusRec
BY DEF TypeOK, ClusterObj, St

\* Saving a well-typed status into an existing Cluster object.
LEMMA SetStatusType ==
    ASSUME TypeOK, NEW c \in Clusters, cluster[c] # Absent, NEW s \in StatusRec
    PROVE  [cluster EXCEPT ![c].status = s] \in [Clusters -> ClusterObj \cup {Absent}]
<1>1. cluster[c] \in ClusterObj
  BY ClusterObjType
<1>2. [cluster[c] EXCEPT !.status = s] \in ClusterObj
  BY <1>1 DEF ClusterObj
<1>3. [cluster EXCEPT ![c].status = s] = [cluster EXCEPT ![c] = [cluster[c] EXCEPT !.status = s]]
  OBVIOUS
<1> QED
  BY <1>2, <1>3 DEF TypeOK

\* The status actions of reconcileCreate set one reference of a status.
LEMMA StatusStepType ==
    ASSUME TypeOK, NEW c \in Clusters, cluster[c] # Absent,
           NEW s \in StatusRec,
           cluster' = [cluster EXCEPT ![c].status = s],
           UNCHANGED <<storeVars, envVars>>
    PROVE  TypeOK'
BY SetStatusType DEF TypeOK, storeVars, envVars

\* The binding written back by updateMachineBindingStatus is well typed.
LEMMA SuccessBindingType ==
    ASSUME NEW b \in Binding
    PROVE  [b EXCEPT !.success = TRUE] \in Binding
BY DEF Binding

\* Every pass of Reconcile keeps the store and the status well typed.
LEMMA ReconcileType ==
    ASSUME TypeOK, NEW c \in Clusters, Reconcile(c)
    PROVE  TypeOK'
<1> USE DEF TypeOK, St, SetStatus, Live, Creating, ConfigStage, JobStage,
            ClusterObj, StatusRec, JobState, WriteBinding, storeVars, envVars
<1>1. CASE AddFinalizer(c)
  BY <1>1 DEF AddFinalizer
<1>2. CASE RecordBinding(c)
  <2>1. cluster[c] # Absent /\ [St(c) EXCEPT !.mbRef = TRUE] \in StatusRec
    BY <1>2, ClusterObjType DEF RecordBinding
  <2> QED
    BY <1>2, <2>1, StatusStepType DEF RecordBinding
<1>3. CASE AllocateMachines(c)
  <2>1. PICK ms \in Orders(MasterMatch[c]) :
          /\ PrepareMachineBinding(c, ms).ok
          /\ WriteBinding(c, PrepareMachineBinding(c, ms).binding)
    BY <1>3 DEF AllocateMachines
  <2>2. PICK a : a = PrepareMachineBinding(c, ms)
    OBVIOUS
  <2>3. a.binding \in Binding
    BY <2>2, PrepareMachineBindingFacts
  <2> QED
    BY <1>3, <2>1, <2>2, <2>3 DEF AllocateMachines
<1>4. CASE ValidateSecret(c)
  <2>1. cluster[c] # Absent /\ [St(c) EXCEPT !.secretRef = TRUE] \in StatusRec
    BY <1>4, ClusterObjType DEF ValidateSecret
  <2> QED
    BY <1>4, <2>1, StatusStepType DEF ValidateSecret
<1>5. CASE ValidatePVC(c)
  <2>1. cluster[c] # Absent /\ [St(c) EXCEPT !.pvcRef = TRUE] \in StatusRec
    BY <1>5, ClusterObjType DEF ValidatePVC
  <2> QED
    BY <1>5, <2>1, StatusStepType DEF ValidatePVC
<1>6. CASE CreateConfigMap(c)
  BY <1>6 DEF CreateConfigMap
<1>7. CASE RecordConfigMap(c)
  <2>1. cluster[c] # Absent /\ [St(c) EXCEPT !.configRef = TRUE] \in StatusRec
    BY <1>7, ClusterObjType DEF RecordConfigMap
  <2> QED
    BY <1>7, <2>1, StatusStepType DEF RecordConfigMap
<1>8. CASE RecordCreateJob(c)
  <2>1. cluster[c] # Absent /\ [St(c) EXCEPT !.jobRef = TRUE] \in StatusRec
    BY <1>8, ClusterObjType DEF RecordCreateJob
  <2> QED
    BY <1>8, <2>1, StatusStepType DEF RecordCreateJob
<1>9. CASE CreateClusterJob(c)
  BY <1>9 DEF CreateClusterJob
<1>10. CASE DiscardFailedJob(c)
  BY <1>10 DEF DiscardFailedJob
<1>11. CASE FinishCreate(c)
  <2>1. [mbCache[c] EXCEPT !.success = TRUE] \in Binding
    BY <1>11, SuccessBindingType DEF FinishCreate
  <2>2. cluster[c] # Absent /\ [St(c) EXCEPT !.hasCluster = TRUE] \in StatusRec
    BY <1>11, ClusterObjType DEF FinishCreate
  <2>3. cluster' \in [Clusters -> ClusterObj \cup {Absent}]
    BY <1>11, <2>2, SetStatusType DEF FinishCreate
  <2> QED
    BY <1>11, <2>1, <2>3 DEF FinishCreate
<1>12. CASE ReconcileDelete(c)
  BY <1>12 DEF ReconcileDelete, TeardownRefs
<1> QED
  BY <1>1, <1>2, <1>3, <1>4, <1>5, <1>6, <1>7, <1>8, <1>9, <1>10, <1>11, <1>12
     DEF Reconcile

\* Every step of users, jobs, operators and the informer keeps it too.
LEMMA EnvironmentType ==
    ASSUME TypeOK, NEW c \in Clusters, Environment(c)
    PROVE  TypeOK'
<1> USE DEF TypeOK, Live, ClusterObj, StatusRec, JobState, storeVars, envVars
<1>1. CASE UserCreate(c)
  BY <1>1 DEF UserCreate, NewCluster, NoStatus
<1>2. CASE UserDelete(c)
  <2>1. cluster[c] \in ClusterObj
    BY <1>2, ClusterObjType DEF UserDelete
  <2>2. (IF cluster[c].finalizer THEN [cluster[c] EXCEPT !.deleting = TRUE] ELSE Absent)
          \in ClusterObj \cup {Absent}
    BY <2>1
  <2> QED
    BY <1>2, <2>2 DEF UserDelete
<1>3. CASE JobEnds(c)
  BY <1>3, ConstantsAssumption DEF JobEnds
<1>4. CASE JobRemovedExternally(c)
  BY <1>4 DEF JobRemovedExternally
<1>5. CASE SecretReady(c) \/ PVCReady(c)
  BY <1>5 DEF SecretReady, PVCReady
<1>6. CASE CacheSync(c)
  BY <1>6 DEF CacheSync
<1> QED
  BY <1>1, <1>2, <1>3, <1>4, <1>5, <1>6 DEF Environment

LEMMA TypeStep == TypeOK /\ [Next]_vars => TypeOK'
<1> SUFFICES ASSUME TypeOK, [Next]_vars PROVE TypeOK'
  OBVIOUS
<1>1. CASE UNCHANGED vars
  BY <1>1 DEF vars, TypeOK
<1> QED
  BY <1>1, ReconcileType, EnvironmentType DEF Next

\* Type correctness of the reconciler: every reachable state keeps the
\* Cluster objects, the MachineBindings and the jobs well formed.
THEOREM TypeCorrect == Spec => []TypeOK
BY TypeInit, TypeStep, PTL DEF Spec

-----------------------------------------------------------------------------
(* How each action changes the MachineBindings *)

\* The actions that leave the MachineBindings, store and cache, alone.
BindingsUnchanged(c) ==
    \/ AddFinalizer(c) \/ RecordBinding(c) \/ ValidateSecret(c) \/ ValidatePVC(c)
    \/ CreateConfigMap(c) \/ RecordConfigMap(c) \/ RecordCreateJob(c)
    \/ CreateClusterJob(c) \/ DiscardFailedJob(c)
    \/ UserCreate(c) \/ UserDelete(c) \/ JobEnds(c) \/ JobRemovedExternally(c)
    \/ SecretReady(c) \/ PVCReady(c)

LEMMA BindingsUnchangedStep ==
    ASSUME NEW c \in Clusters, BindingsUnchanged(c)
    PROVE  mbStore' = mbStore /\ mbCache' = mbCache
BY DEF BindingsUnchanged, AddFinalizer, RecordBinding, ValidateSecret, ValidatePVC,
       CreateConfigMap, RecordConfigMap, RecordCreateJob, CreateClusterJob,
       DiscardFailedJob, UserCreate, UserDelete, JobEnds, JobRemovedExternally,
       SecretReady, PVCReady, SetStatus, storeVars, envVars

\* A deletion pass only ever deletes machinebind-<c>, and the cache sees
\* the deletion at once when it does not lag.
LEMMA ReconcileDeleteBindings ==
    ASSUME NEW c \in Clusters, ReconcileDelete(c)
    PROVE  \/ UNCHANGED <<mbStore, mbCache>>
           \/ WriteBinding(c, Absent)
<1>1. \/ UNCHANGED <<mbStore, mbCache>>
      \/ TeardownRefs(c, St(c))
  BY DEF ReconcileDelete, storeVars
<1>2. TeardownRefs(c, St(c)) =>
        \/ UNCHANGED <<mbStore, mbCache>>
        \/ WriteBinding(c, Absent)
  BY DEF TeardownRefs
<1> QED
  BY <1>1, <1>2

-----------------------------------------------------------------------------
(* Every committed binding meets its requirements *)

\* Marking a binding "success" keeps its usages.
LEMMA SuccessKeepsRequirements ==
    ASSUME NEW c \in Clusters, NEW b \in Binding, MeetsRequirements(c, b)
    PROVE  MeetsRequirements(c, [b EXCEPT !.success = TRUE])
BY DEF Binding, MeetsRequirements

\* Each binding of the store or the cache meets its requirements.
Good(f) == \A c \in Clusters : f[c] # Absent => MeetsRequirements(c, f[c])

LEMMA ReqInvInit == Init => ReqInv
BY TypeInit DEF Init, ReqInv, BindingMeetsRequirements

LEMMA ReqInvStep == ReqInv /\ [Next]_vars => ReqInv'
<1> SUFFICES ASSUME ReqInv, [Next]_vars PROVE ReqInv'
  OBVIOUS
<1>1. TypeOK'
  BY TypeStep DEF ReqInv
<1>2. Good(mbStore) /\ Good(mbCache)
  BY DEF ReqInv, BindingMeetsRequirements, Good
<1> SUFFICES Good(mbStore') /\ Good(mbCache')
  BY <1>1 DEF ReqInv, BindingMeetsRequirements, Good
<1>3. CASE UNCHANGED vars
  BY <1>2, <1>3 DEF vars, Good
<1>4. ASSUME NEW c \in Clusters, BindingsUnchanged(c)
      PROVE  Good(mbStore') /\ Good(mbCache')
  BY <1>2, <1>4, BindingsUnchangedStep DEF Good
<1>5. ASSUME NEW c \in Clusters, AllocateMachines(c)
      PROVE  Good(mbStore') /\ Good(mbCache')
  <2>1. PICK ms \in Orders(MasterMatch[c]) :
          /\ PrepareMachineBinding(c, ms).ok
          /\ WriteBinding(c, PrepareMachineBinding(c, ms).binding)
    BY <1>5 DEF AllocateMachines
  <2>2. PICK a : a = PrepareMachineBinding(c, ms)
    OBVIOUS
  <2>3. MeetsRequirements(c, a.binding)
    BY <2>1, <2>2, PrepareMachineBindingFacts
  <2> QED
    BY <1>2, <2>1, <2>2, <2>3 DEF WriteBinding, Good, ReqInv, TypeOK
<1>6. ASSUME NEW c \in Clusters, FinishCreate(c)
      PROVE  Good(mbStore') /\ Good(mbCache')
  <2>1. mbCache[c] \in Binding /\ MeetsRequirements(c, mbCache[c])
    BY <1>2, <1>6 DEF FinishCreate, Good, ReqInv, TypeOK
  <2>2. MeetsRequirements(c, [mbCache[c] EXCEPT !.success = TRUE])
    BY <2>1, SuccessKeepsRequirements
  <2> QED
    BY <1>2, <1>6, <2>2 DEF FinishCreate, WriteBinding, Good, ReqInv, TypeOK
<1>7. ASSUME NEW c \in Clusters, ReconcileDelete(c)
      PROVE  Good(mbStore') /\ Good(mbCache')
  BY <1>2, <1>7, ReconcileDeleteBindings DEF WriteBinding, Good, ReqInv, TypeOK
<1>8. ASSUME NEW c \in Clusters, CacheSync(c)
      PROVE  Good(mbStore') /\ Good(mbCache')
  BY <1>2, <1>8 DEF CacheSync, Good, ReqInv, TypeOK
<1> QED
  BY <1>3, <1>4, <1>5, <1>6, <1>7, <1>8
     DEF Next, Reconcile, Environment, BindingsUnchanged

\* Every MachineBinding in the API server holds exactly the machines each
\* usage requires, none twice (filterMachines' count check and the
\* chaining of unused machines in prepareMachineBinding), however stale
\* the cache, for every set of machines and every requirement.
THEOREM BindingsMeetRequirements == Spec => []BindingMeetsRequirements
<1>1. ReqInv => BindingMeetsRequirements
  BY DEF ReqInv
<1> QED
  BY ReqInvInit, ReqInvStep, <1>1, PTL DEF Spec

\* The reconciler's inductive requirement invariant holds in every state:
\* bindings in the store and in the informer cache both meet their
\* cluster's requirements (updateMachineBindingStatus writes back what it
\* read from the cache).
THEOREM ReqInvHolds == Spec => []ReqInv
BY ReqInvInit, ReqInvStep, PTL DEF Spec

=============================================================================
