-------------------------- MODULE ClusterResources --------------------------
(***************************************************************************)
(* The objects ensureAllResources keeps around the StatefulSets of one      *)
(* NdbCluster name: PodDisruptionBudget, management NetworkPolicy, operator *)
(* password Secret, governing Service, ServiceAccount and a StatefulSet     *)
(* with its PersistentVolumeClaims.  The resource of that name is deleted   *)
(* and created again, so the objects of one incarnation (uid) meet the      *)
(* reconciliation of the next; the caches lag, users edit the policy, the   *)
(* operator restarts.  The content of the StatefulSet and changes of the    *)
(* spec belong to NdbReconciler: here every resource is at generation 1.    *)
(***************************************************************************)
EXTENDS Integers, Sequences

CONSTANTS
    Objects,      \* which of pdb, secret, svc, sa and pvc an instance has; the others are skipped
    MaxDeletions, \* bound: how often the NdbCluster resource is deleted
    Legacy,       \* whether a cluster that opted out may exist at first (a set of BOOLEAN)
    Edits,        \* what a user may make of the policy: [owned, spec, label]
    MaxDisturbances, \* bound: edits of the policy, failures, restarts and relists together
    MaxLag        \* bound: events the NdbCluster handlers are behind

Labels == {"own", "other", "none"}

ASSUME ClusterResourcesAssumption ==
    /\ MaxDeletions \in Nat /\ MaxDisturbances \in Nat /\ MaxLag \in Nat \ {0}
    /\ Objects \subseteq {"pdb", "secret", "svc", "sa", "pvc"}
    /\ Legacy \subseteq BOOLEAN
    /\ Edits \subseteq [owned : BOOLEAN, spec : BOOLEAN, label : Labels]

VARIABLES
    cluster,     \* the NdbCluster resource; uid 0 if there is none
    ncCache,     \* the NdbCluster in the informer's cache
    events,      \* what the handlers have not been told of that cache
    owner,       \* uid of the owner of each plain object, 0 if there is no such object
    cached,      \* the same in the caches
    np, npCache,     \* the management NetworkPolicy; version 0 if there is none
    sts, stsCache,   \* uid of the owner of the StatefulSet, or 0
    stsDeleted,  \* a deletion of the StatefulSet has not reached the informer
    pvc,         \* uid of the incarnation whose pods created the volume claims, or 0
    queued,      \* the key of the NdbCluster is in the workqueue
    worker,      \* the sync in progress: its step, copy of the resource and policy read
    isolated,    \* history: incarnations that had opted out or whose policy has been created
    lastUid, disturbances  \* counters for the bounds

apiVars   == <<cluster, owner, np, sts, stsDeleted, pvc>>
cacheVars == <<ncCache, cached, npCache, stsCache>>
counters  == <<lastUid, disturbances>>
vars == <<apiVars, cacheVars, events, queued, worker, isolated, counters>>

NoCluster == [uid |-> 0, expected |-> FALSE, processed |-> FALSE]
NoPolicy  == [owner |-> 0, version |-> 0, spec |-> FALSE, label |-> "none"]
Idle      == [step |-> "idle", uid |-> 0, expected |-> FALSE, seen |-> NoPolicy]

\* resourceVersions are only compared for equality, and at most three copies of
\* the policy exist: a write takes one that none of them has.
Versions == 0..4
FreshVersion ==
    CHOOSE v \in Versions : v \notin {0, np.version, npCache.version, worker.seen.version}

\* The objects that have no state but their owner.  Secrets are not cached.
Plain  == Objects \ {"pvc"}
Cached == Plain \ {"secret"}

\* The claims of this incarnation, if the instance has volumes.
Claims(u) == IF "pvc" \in Objects THEN u ELSE 0

\* Legacy clusters were created before the operator had policies, and opted out.
Init ==
    /\ \E legacy \in Legacy :
         LET u == IF legacy THEN 1 ELSE 0 IN
         /\ cluster = [uid |-> u, expected |-> FALSE, processed |-> legacy]
         /\ owner = [k \in Plain |-> u]
         /\ isolated = {u} \ {0}
         /\ sts = u /\ pvc = Claims(u) /\ lastUid = u /\ queued = legacy
    /\ ncCache = cluster /\ cached = [k \in Cached |-> owner[k]]
    /\ stsCache = sts
    /\ np = NoPolicy /\ npCache = NoPolicy
    /\ stsDeleted = FALSE /\ events = <<>> /\ worker = Idle
    /\ disturbances = 0

-----------------------------------------------------------------------------
(* Users, behind the admission webhook *)

Disturbance == disturbances < MaxDisturbances /\ disturbances' = disturbances + 1

\* A new resource is forced to expect the policy.
CreateCluster ==
    /\ cluster.uid = 0 /\ lastUid <= MaxDeletions
    /\ lastUid' = lastUid + 1
    /\ cluster' = [uid |-> lastUid + 1, expected |-> TRUE, processed |-> FALSE]
    /\ UNCHANGED <<owner, np, sts, stsDeleted, pvc, cacheVars, events, queued, worker,
                   isolated, disturbances>>

\* The annotation may be turned on; an update that turns it off is refused.
EnablePolicy ==
    /\ cluster.uid # 0 /\ ~cluster.expected
    /\ cluster' = [cluster EXCEPT !.expected = TRUE]
    /\ UNCHANGED <<owner, np, sts, stsDeleted, pvc, cacheVars, events, queued, worker,
                   isolated, counters>>

DeleteCluster ==
    /\ cluster.uid # 0 /\ lastUid <= MaxDeletions
    /\ cluster' = NoCluster
    /\ UNCHANGED <<owner, np, sts, stsDeleted, pvc, cacheVars, events, queued, worker,
                   isolated, counters>>

EditPolicy ==
    /\ np.version # 0 /\ Disturbance
    /\ \E e \in Edits :
         np' = [owner |-> IF e.owned THEN np.owner ELSE 0, version |-> FreshVersion,
                spec |-> e.spec, label |-> e.label]
    /\ UNCHANGED <<cluster, owner, sts, stsDeleted, pvc, cacheVars, events, queued, worker,
                   isolated, lastUid>>

DeletePolicy ==
    /\ np.version # 0 /\ Disturbance
    /\ np' = NoPolicy
    /\ UNCHANGED <<cluster, owner, sts, stsDeleted, pvc, cacheVars, events, queued, worker,
                   isolated, lastUid>>

-----------------------------------------------------------------------------
(* Kubernetes: garbage collection, the StatefulSet's pods, the other watches *)

\* An object whose owner no longer exists is deleted.
Gone(u) == u # 0 /\ u # cluster.uid

Collect(k) ==
    /\ Gone(owner[k])
    /\ owner' = [owner EXCEPT ![k] = 0]
    /\ UNCHANGED <<cluster, np, sts, stsDeleted, pvc, cacheVars, events, queued, worker,
                   isolated, counters>>

CollectPolicy ==
    /\ Gone(np.owner)
    /\ np' = NoPolicy
    /\ UNCHANGED <<cluster, owner, sts, stsDeleted, pvc, cacheVars, events, queued, worker,
                   isolated, counters>>

CollectSts ==
    /\ Gone(sts)
    /\ sts' = 0 /\ stsDeleted' = TRUE
    /\ UNCHANGED <<cluster, owner, np, pvc, cacheVars, events, queued, worker,
                   isolated, counters>>

Observe(k) ==
    /\ cached[k] # owner[k]
    /\ cached' = [cached EXCEPT ![k] = owner[k]]
    /\ UNCHANGED <<apiVars, ncCache, npCache, stsCache, events, queued, worker,
                   isolated, counters>>

-----------------------------------------------------------------------------
(* Event handlers *)

\* getOwningNdbClusterName: the controller reference before the label.
getOwningNdbClusterName(p) == IF p.owner # 0 THEN "own" ELSE p.label

\* extractAndEnqueueNdbCluster for an object whose cluster has one of these names.
Enqueue(names) == queued' = (queued \/ ("own" \in names /\ ncCache.uid # 0))

HasClusterLabel(p) == p.label # "none"

\* The clusters the handlers of NetworkPolicies enqueue.  An object that loses the
\* cluster label is deleted to them; one that gets it is added, which has no handler.
PolicyEventOwners(old, new) ==
    IF ~HasClusterLabel(old) THEN {}
    ELSE IF ~HasClusterLabel(new) THEN {getOwningNdbClusterName(old)}
    ELSE IF [old EXCEPT !.version = new.version] = new THEN {}
    ELSE {getOwningNdbClusterName(old), getOwningNdbClusterName(new)}

\* A policy that is deleted and created again between two events is an update.
ObservePolicy ==
    /\ npCache # np
    /\ npCache' = np
    /\ Enqueue(PolicyEventOwners(npCache, np))
    /\ UNCHANGED <<apiVars, ncCache, cached, stsCache, events, worker,
                   isolated, counters>>

\* Mutant: a deletion enqueues nothing.
ObserveStsSilently ==
    /\ stsCache # sts \/ stsDeleted
    /\ stsCache' = sts /\ stsDeleted' = FALSE
    /\ Enqueue(IF sts # 0 THEN {"own"} ELSE {})
    /\ UNCHANGED <<cluster, owner, np, sts, pvc, ncCache, cached, npCache, events,
                   worker, isolated, counters>>

\* A StatefulSet is added silently; that its pods are ready, and deletions, enqueue.
ObserveSts ==
    /\ stsCache # sts \/ stsDeleted
    /\ stsCache' = sts /\ stsDeleted' = FALSE
    /\ Enqueue({"own"})
    /\ UNCHANGED <<cluster, owner, np, sts, pvc, ncCache, cached, npCache, events,
                   worker, isolated, counters>>

\* What the handlers of NdbClusters are told.  Another resourceVersion alone is taken
\* for a change of the status, of which nothing follows, and so is another uid.
Notify(old, new, deletion) ==
    events' = CASE old.uid = 0                    -> Append(events, "added")
                [] new.uid = 0                    -> Append(events, deletion)
                [] old.expected # new.expected    -> Append(events, "annotated")
                [] OTHER                          -> events

\* The watch tells every change in order, so a resource that was created again
\* is first seen to be deleted.
ObserveCluster ==
    /\ ncCache # cluster /\ Len(events) < MaxLag
    /\ ncCache' = IF Gone(ncCache.uid) THEN NoCluster ELSE cluster
    /\ Notify(ncCache, ncCache', "deleted")
    /\ UNCHANGED <<apiVars, cached, npCache, stsCache, queued, worker, isolated, counters>>

\* A relist compares the cache with what there is now: a resource that is gone is
\* passed on as DeletedFinalStateUnknown, one that was replaced is an update.
RelistClusters ==
    /\ Gone(ncCache.uid) /\ Len(events) < MaxLag /\ Disturbance
    /\ ncCache' = cluster
    /\ Notify(ncCache, cluster, "tombstone")
    /\ UNCHANGED <<apiVars, cached, npCache, stsCache, queued, worker, isolated, lastUid>>

\* The operator starts again: full caches, an Add for every NdbCluster.
Restarted ==
    /\ ncCache' = cluster /\ cached' = [k \in Cached |-> owner[k]]
    /\ npCache' = np /\ stsCache' = sts
    /\ events' = <<>> /\ queued' = (cluster.uid # 0) /\ worker' = Idle
    /\ stsDeleted' = FALSE
    /\ UNCHANGED <<cluster, owner, np, sts, pvc, isolated>>

Told(event) == events # <<>> /\ Head(events) = event

\* AddFunc and UpdateFunc of NdbClusters.
ClusterChanged ==
    /\ Told("added") \/ Told("annotated")
    /\ events' = Tail(events) /\ queued' = TRUE
    /\ UNCHANGED <<apiVars, cacheVars, worker, isolated, counters>>

\* DeleteFunc deletes the volume claims by their name, if the cache has them yet.
ClusterDeleted ==
    /\ Told("deleted")
    /\ events' = Tail(events)
    /\ pvc' \in {0, pvc}
    /\ UNCHANGED <<cluster, owner, np, sts, stsDeleted, cacheVars, queued, worker,
                   isolated, counters>>

\* DeleteFunc does not expect a tombstone: the type assertion panics.
TombstonePanics == Told("tombstone") /\ Restarted /\ UNCHANGED counters

OperatorRestarts ==
    /\ Disturbance /\ Restarted
    /\ UNCHANGED lastUid

\* Every resync period, for a resource whose generation is processed.
Resync ==
    /\ ncCache.uid # 0 /\ ncCache.processed /\ ~queued
    /\ queued' = TRUE
    /\ UNCHANGED <<apiVars, cacheVars, events, worker, isolated, counters>>

-----------------------------------------------------------------------------
(* The sync: ensureAllResources *)

Or(k, next) == IF k \in Plain THEN k ELSE next

\* The order of ensureAllResources.  The policy also has the steps "get" and "patch";
\* what follows "sts" is only for a StatefulSet that has to be created.
FirstStep == Or("pdb", "np")
After ==
    [pdb |-> "np", np |-> Or("secret", "sts"), secret |-> "sts",
     sts |-> Or("svc", Or("sa", "create")), svc |-> Or("sa", "create"), sa |-> "create"]

At(step) == worker.step = step
Goto(step) == worker' = [worker EXCEPT !.step = step, !.seen = NoPolicy]

\* An error: the key is added again after a delay.
Fails == worker' = Idle /\ queued' = TRUE

\* The sync ends and counts on a later event.
Stops == worker' = Idle /\ UNCHANGED queued

\* Mutant: the lister's NotFound is not looked at.
StartSyncAnyway ==
    /\ At("idle") /\ queued
    /\ queued' = FALSE
    /\ worker' = [step |-> FirstStep, uid |-> ncCache.uid, expected |-> TRUE, seen |-> NoPolicy]
    /\ UNCHANGED <<apiVars, cacheVars, events, isolated, counters>>

\* A worker takes the key; a resource that is gone is not synced.
StartSync ==
    /\ At("idle") /\ queued
    /\ queued' = FALSE
    /\ worker' = IF ncCache.uid = 0 THEN Idle
                 ELSE [step |-> FirstStep, uid |-> ncCache.uid, expected |-> ncCache.expected,
                       seen |-> NoPolicy]
    /\ UNCHANGED <<apiVars, cacheVars, events, isolated, counters>>

\* Any call to the API server may fail.
CallFails ==
    /\ ~At("idle") /\ Disturbance /\ Fails
    /\ UNCHANGED <<apiVars, cacheVars, events, isolated, lastUid>>

\* Create: AlreadyExists is taken for an outdated cache, whoever owns the object.
\* For the secret it is an error, which takes another creator between Get and
\* Create: one of the failures of CallFails.
CreatePlain(k) == owner' = [owner EXCEPT ![k] = IF @ = 0 THEN worker.uid ELSE @]

\* EnsurePodDisruptionBudget, ensureService and ensureServiceAccount.  The lister
\* reads the cache in memory: NotFound is its only error.
EnsureCached(k) ==
    \/ cached[k] = worker.uid /\ Goto(After[k]) /\ UNCHANGED <<owner, queued>>
    \/ cached[k] \notin {0, worker.uid} /\ Fails /\ UNCHANGED owner
    \/ cached[k] = 0 /\ CreatePlain(k) /\ Goto(After[k]) /\ UNCHANGED queued

\* EnsureNDBOperatorPassword asks the API server, and not for the owner.
EnsureSecret == CreatePlain("secret") /\ Goto(After["secret"]) /\ UNCHANGED queued

EnsurePlain(k) ==
    /\ At(k)
    /\ IF k \in Cached THEN EnsureCached(k) ELSE EnsureSecret
    /\ UNCHANGED <<cluster, np, sts, stsDeleted, pvc, cacheVars, events, isolated, counters>>

\* What NewManagementNetworkPolicy builds, as the API server stores it.
NewManagementNetworkPolicy ==
    [owner |-> worker.uid, version |-> FreshVersion, spec |-> TRUE, label |-> "own"]

isOwnedByNdbCluster(p) == p.owner = worker.uid

\* A policy that was found goes to the patch, unless it is someone else's.
Found(p) ==
    IF isOwnedByNdbCluster(p)
    THEN worker' = [worker EXCEPT !.step = "patch", !.seen = p] /\ UNCHANGED queued
    ELSE Fails

CreatePolicy ==
    /\ np.version = 0
    /\ np' = NewManagementNetworkPolicy
    /\ isolated' = isolated \cup {worker.uid}
    /\ Goto(After["np"]) /\ UNCHANGED queued

EnsureManagementNetworkPolicy ==
    /\ At("np")
    /\ \/ /\ ~worker.expected
          /\ Goto(After["np"]) /\ UNCHANGED <<np, isolated, queued>>
       \/ /\ worker.expected /\ npCache.version # 0
          /\ Found(npCache) /\ UNCHANGED <<np, isolated>>
       \/ worker.expected /\ npCache.version = 0 /\ CreatePolicy
       \/ /\ worker.expected /\ npCache.version = 0 /\ np.version # 0
          /\ Goto("get") /\ UNCHANGED <<np, isolated, queued>>
    /\ UNCHANGED <<cluster, owner, sts, stsDeleted, pvc, cacheVars, events,
                   counters>>

\* Mutant: AlreadyExists is ignored here as well.
AnyPolicyWillDo ==
    /\ At("get") /\ Goto(After["np"])
    /\ UNCHANGED <<apiVars, cacheVars, events, queued, isolated, counters>>

\* The Get after AlreadyExists.
GetPolicy ==
    /\ At("get")
    /\ IF np.version = 0 THEN Fails ELSE Found(np)
    /\ UNCHANGED <<apiVars, cacheVars, events, isolated, counters>>

\* Mutant: only the spec is compared.
SpecDiffers(p) == ~p.spec

networkPolicyNeedsPatch(p) == ~p.spec \/ p.label # "own"

\* Mutant: the patch names no resourceVersion.
PatchesAny == np.version # 0

\* The API server refuses a patch of any other version than the one read.
PatchAccepted == np.version = worker.seen.version

PatchManagementNetworkPolicy ==
    /\ At("patch")
    /\ \/ /\ ~networkPolicyNeedsPatch(worker.seen)
          /\ Goto(After["np"]) /\ UNCHANGED <<np, queued>>
       \/ /\ networkPolicyNeedsPatch(worker.seen) /\ PatchAccepted
          /\ np' = NewManagementNetworkPolicy
          /\ Goto(After["np"]) /\ UNCHANGED queued
       \/ /\ networkPolicyNeedsPatch(worker.seen) /\ ~PatchAccepted
          /\ Fails /\ UNCHANGED np
    /\ UNCHANGED <<cluster, owner, sts, stsDeleted, pvc, cacheVars, events, isolated,
                   counters>>

\* The rest of the sync, which NdbReconciler models, succeeds and updates the status.
Processed ==
    cluster' = IF cluster.uid = worker.uid THEN [cluster EXCEPT !.processed = TRUE] ELSE cluster

\* GetStatefulSet: a StatefulSet that exists needs no Service and no ServiceAccount.
GetStatefulSet ==
    /\ At("sts")
    /\ \/ stsCache = worker.uid /\ Processed /\ Stops
       \/ stsCache \notin {0, worker.uid} /\ Fails /\ UNCHANGED cluster
       \/ stsCache = 0 /\ Goto(After["sts"]) /\ UNCHANGED <<cluster, queued>>
    /\ UNCHANGED <<owner, np, sts, stsDeleted, pvc, cacheVars, events, isolated, counters>>

\* createStatefulSet: after AlreadyExists too an event will come.  The pods claim their
\* volumes by name, so the ones an earlier incarnation left are used again.
CreateStatefulSet ==
    /\ At("create") /\ Stops
    /\ sts' = IF sts = 0 THEN worker.uid ELSE sts
    /\ pvc' = IF sts = 0 /\ pvc = 0 THEN Claims(worker.uid) ELSE pvc
    /\ UNCHANGED <<cluster, owner, np, stsDeleted, cacheVars, events, isolated, counters>>

SyncStep ==
    \/ StartSync
    \/ \E k \in Plain : EnsurePlain(k)
    \/ EnsureManagementNetworkPolicy \/ GetPolicy \/ PatchManagementNetworkPolicy
    \/ GetStatefulSet \/ CreateStatefulSet

ObserveAny ==
    \/ \E k \in Cached : Observe(k)
    \/ ObservePolicy \/ ObserveSts \/ ObserveCluster

HandleCluster == ClusterChanged \/ ClusterDeleted \/ TombstonePanics

CollectAny == (\E k \in Plain : Collect(k)) \/ CollectPolicy \/ CollectSts

Next ==
    \/ CreateCluster \/ EnablePolicy \/ DeleteCluster \/ EditPolicy \/ DeletePolicy
    \/ CollectAny \/ ObserveAny
    \/ RelistClusters \/ HandleCluster \/ OperatorRestarts \/ Resync
    \/ CallFails \/ SyncStep

Spec == Init /\ [][Next]_vars

\* Workers, watches, handlers and the garbage collector go on; users and faults owe nothing.
EventSpec ==
    /\ Spec
    /\ WF_vars(SyncStep) /\ WF_vars(HandleCluster)
    /\ \A k \in Cached : WF_vars(Observe(k))
    /\ WF_vars(ObservePolicy) /\ WF_vars(ObserveSts) /\ WF_vars(ObserveCluster)
    /\ \A k \in Plain : WF_vars(Collect(k))
    /\ WF_vars(CollectPolicy) /\ WF_vars(CollectSts)

\* The informer factory resyncs NdbClusters every 30 seconds.
FairSpec == EventSpec /\ WF_vars(Resync)

-----------------------------------------------------------------------------
(* Properties *)

Uids     == 0..(MaxDeletions + 1)
Clusters == [uid : Uids, expected : BOOLEAN, processed : BOOLEAN]
Policies == [owner : Uids, version : Versions, spec : BOOLEAN, label : Labels]
Steps == {"idle", "pdb", "np", "get", "patch", "secret", "sts", "svc", "sa", "create"}

\* Every variable has its type, the events are within the lag and every sync is
\* one of an NdbCluster that was in the cache.
TypeOK ==
    /\ cluster \in Clusters /\ ncCache \in Clusters
    /\ events \in Seq({"added", "annotated", "deleted", "tombstone"})
    /\ Len(events) <= MaxLag
    /\ owner \in [Plain -> Uids] /\ cached \in [Cached -> Uids]
    /\ np \in Policies /\ npCache \in Policies
    /\ sts \in Uids /\ stsCache \in Uids /\ stsDeleted \in BOOLEAN
    /\ pvc \in Uids
    /\ queued \in BOOLEAN
    /\ worker \in [step : Steps, uid : Uids, expected : BOOLEAN, seen : Policies]
    /\ worker.step = "idle" \/ worker.uid # 0
    /\ isolated \subseteq Uids
    /\ lastUid \in Uids
    /\ disturbances \in 0..MaxDisturbances

\* ensureAllResources establishes the isolation of the management nodes before it
\* creates a Service or a StatefulSet: an incarnation that owns one of these has had a
\* policy of its own in the API server (or opted out), although the names are those of
\* the last incarnation, whose policy may be in the caches or in the way.
IsolatedFirst ==
    {owner[k] : k \in Plain \cap {"svc"}} \cup {sts} \subseteq isolated \cup {0}

\* PatchManagementNetworkPolicy overwrites what users made of the policy only if it
\* has read it, and never the policy of another incarnation.
NoConcurrentEditLost ==
    [][worker.step = "patch" /\ worker'.step = After["np"] /\ np' # np
         => np = worker.seen /\ np.owner = worker.uid]_vars

\* A policy that users took from the cluster: isOwnedByNdbCluster refuses it.
Disowned == np.version # 0 /\ np.owner = 0

PolicyInForce == np.owner = cluster.uid /\ np.spec /\ np.label = "own"

\* Once users leave it alone, the policy of a cluster that expects one is there and
\* has the operator's spec and labels, whatever was edited, deleted or collected before:
\* the handlers of policies start the syncs that repair it.  They need the resync as
\* well: a policy that is created and edited between two events is only added.
DriftRepaired ==
    <>[](cluster.uid # 0 /\ cluster.expected /\ ~Disowned => PolicyInForce)

\* A cluster that is created under the name of a deleted one gets its own StatefulSet,
\* whatever the last one left behind: syncs that meet leftovers are started again.
Recreated ==
    <>[](cluster.uid # 0 /\ ~Disowned => sts = cluster.uid)

-----------------------------------------------------------------------------
(* Properties that do not hold *)

\* A StatefulSet keeps its governing Service (a comment of patchService: a missing
\* one is "not possible unless it has been deleted manually").
GoverningServiceKept ==
    <>[](cluster.uid # 0 /\ sts = cluster.uid => owner["svc"] = cluster.uid)

\* DeleteFunc never deletes volume claims that the pods of the next incarnation use.
OwnVolumesKept ==
    [][pvc # 0 /\ pvc' = 0 => cluster.uid = 0 \/ sts # cluster.uid]_vars

\* A new cluster does not start with the data of the deleted one.
VolumesFresh == "pvc" \in Objects /\ sts # 0 /\ sts = cluster.uid => pvc = sts

\* When an NdbCluster is deleted its volume claims are deleted as well.
VolumesDeleted == <>[](cluster.uid = 0 => pvc = 0)
=============================================================================
