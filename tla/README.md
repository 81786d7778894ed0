# TLA+ specifications of the MySQL NDB Operator

The operator reconciles `NdbCluster` resources: it turns the spec a user writes
into a ConfigMap and three StatefulSets (management nodes, data nodes, MySQL
Servers), rolls every change out without losing the cluster's availability, and
reports in `status.processedGeneration` which generation has been applied. It
does so through informer caches of different ages, with a workqueue, with calls
that fail, and with a process that may be killed at any moment. The modules here
model that control flow; TLC checks it on small instances and TLAPS proves the
parts that matter most for every value of the constants.

    tlc -workers 2 -config updates.cfg MCNdbReconciler    # a run
    tlapm NdbReconcilerProofs.tla                         # a proof

Paths below are relative to the repository; `SC` is
`pkg/controllers/sync_context.go`, `CT` is `pkg/controllers/controller.go`.

## 1. Inventory

| Component | State it keeps | Operations | Hard behaviour |
|---|---|---|---|
| Reconciliation (`syncHandler`, `sync`, SC, CT) | none of its own: a `SyncContext` per sync, everything else in the API server | read caches, ensure resources, reconcile StatefulSets, patch the ConfigMap, update the status | stale copies; a crash between any two steps; a sync that stops and counts on a later event |
| StatefulSet control (`statefulset_control.go`, `ndbmtd_…`, `mysqld_…`) | StatefulSets and their annotations (generation, add-node, root user) | create, two-way merge patch, scale down, online add of data nodes, root user | patches computed from old objects; non-idempotent SQL; multi-step online add |
| ConfigMap control (`configmap_controller.go`, `resources/configmap.go`) | the ConfigMap: generation, `DataNodeInitialRestart` | create, patch | it is the operator's memory of the generation being applied |
| Cluster status (`ndbcluster_status.go`) | `NdbClusterStatus` | calculate, update with retry on conflict | overwriting a newer status; a failure is not retried |
| Informers and event handlers (CT) | caches of NdbClusters, ConfigMaps, StatefulSets, pods, NetworkPolicies | filter events, enqueue keys, resync | filtered events are wakeups; relists merge events |
| Rolling restart of data nodes (`ensureDataNodePodVersion`, SC) | none: the pods and the management server's view of them | GetStatus, compare versions, delete pods | check-then-act over two sources of different age |
| Workqueue and workers (CT, client-go) | queue, dirty, processing, delayed keys | Add, Get, Done, AddRateLimited, ShutDown | two workers, events during a sync, shutdown |
| Admission webhook (`pkg/webhook`, `validation.go`) | none | mutate, validate, refuse updates while one is in progress | decides from a status that may be old |
| Management client (`pkg/mgmapi`) | a TCP connection, what is left unread in it | GetStatus, TryReserveNodeId, CreateNodeGroup, values of the binary configuration | replies that are cut, that come after the deadline, or that answer another command; a view of the nodes that is old when used |
| MySQL client (`pkg/mysqlclient`) | a connection | create, rename and alter the root user, reorganise tables | not transactional with the annotations |
| Config summary and generators (`pkg/ndbconfig`) | the parsed ConfigMap | generate config.ini and my.cnf, versions, node ids | whether to regenerate is decided by counts; each config depends on the last one |
| NetworkPolicy controller | a NetworkPolicy | create, check the owner, repair drift | users edit what is read, compared and patched in three steps; the policy of a deleted cluster may be in the way |
| Services, PodDisruptionBudgets, secrets, service accounts, volume claims | one object each, by name | create if absent, delete with the cluster | `AlreadyExists` from a stale cache; objects of an earlier cluster of the same name |
| Webhook server, certificates | key pair | serve, patch webhook configuration | I/O |
| Pod initializer (`cmd/ndb-pod-initializer`) | files in the pod | wait for DNS, wait until the failure of the last node is handled, reserve and write node ids | computes node ids on its own that config.ini must agree with; waits on servers that go away |
| Generated clients, deep copies, listers | – | – | generated |

How they interact: a user changes an NdbCluster through the webhook; the API
server's watches update the caches and call the handlers; a handler adds the
key to the workqueue; a worker takes it and runs `syncHandler`, which reads the
caches and writes objects; the StatefulSet controller and the kubelets (external)
act on those; their status changes come back as events. A sync never blocks for
pods: it returns and relies on an event to be started again. So a lost or
filtered event is a stuck cluster, and a stale read is the normal case.

What makes each component correct:

- *Reconciliation.* A generation is declared processed only when the ConfigMap
  and all StatefulSets carry it, were rolled out at it, and everything it asks
  for beyond pods (node groups, root user, no `--initial`) is done; every
  accepted update is eventually processed.
- *StatefulSet and ConfigMap control.* No patch goes back to an older generation;
  a new config is adopted only after the previous one is rolled out.
- *Rolling restart.* One data node per node group at a time, one after another, and it
  ends.
- *Config.* A generation's ConfigMap has what its spec asks for, although it is
  made from the last one; node ids are distinct, are those the pods claim, and stay
  with their data nodes; a version names one content.
- *Cluster resources.* An NdbCluster gets a Service or StatefulSet only after its
  management nodes are isolated; a policy that users changed is repaired, but never
  over an edit that was not read; a cluster created under the name of a deleted one gets
  its own objects, whatever the last one left behind.
- *Management client, pod initializer.* What is read is exact, or an error is
  returned; node groups are made complete and seen complete; a pod goes on only once
  its node ids are granted; it does go on.
- *Workqueue.* Syncs of one NdbCluster never overlap; no event and no failure is
  forgotten; all of them are eventually served.

The hazards these properties are aimed at are listed, each at its line, in
`PROJECT.json`.

## 2. Modules

| Module | What it is |
|---|---|
| `NdbReconciler` | one NdbCluster: API server objects, caches, handlers, `sync` step by step |
| `MCNdbReconciler` | its instances: sets of spec changes |
| `NdbReconcilerProofs` | type correctness and the flow of generations |
| `NdbReconcilerSafety` | what else a processed generation promises, proved |
| `NdbReconcilerScaling` | the number of management and data nodes through an online add; refinement of the contract; proved |
| `UpdateContract` | what users may assume of an update, without caches, syncs and failures |
| `DataNodeRollout` | `ensureDataNodePodVersion` call by call, with the pods |
| `DataNodeRolloutProofs` | order of the restarts and type correctness proved |
| `WorkQueue` | client-go's queue as the operator uses it, with its workers and `Run` |
| `ReconcileRequests` | what the queue promises: pending and running requests |
| `WorkQueueProofs` | exclusion, no lost event, refinement |
| `ClusterConfig` | admission, config.ini and my.cnf, the ConfigMap's content, node ids |
| `MCClusterConfig`, `ClusterConfigProofs` | instances: sets of specs; node ids, contents and versions proved |
| `ClusterResources` | one name: NdbClusters that come and go, the objects around the StatefulSets, handlers, users |
| `MCClusterResources`, `ClusterResourcesProofs` | edits of a policy; isolation and drift repair proved |
| `MgmClient` | the management client's connection and commands, and the five programs that use it |
| `ConfigReader`, `ClusterStatus` | the two algorithms it uses: values of the binary configuration, nodes by node group |
| `MCMgmClient`, `MgmClientProofs` | clusters and configurations; every safety property but the memory request proved |

They compose by abstraction. `NdbReconciler` implements `UpdateContract`, which keeps of it the
generations of the NdbCluster, the ConfigMap, the StatefulSets, their rollouts and the status,
and says in which order an update reaches them; its `OldReports` is `NdbReconciler`'s
`StaleStatus`, where a sync may begin with an old status and write an old report. `NdbReconciler` has one key, a Boolean `dirty`
and one `pc`: that is `ReconcileRequests` for that key, which `WorkQueue` is shown
to implement. `NdbReconciler`'s action `EnsureDataNodePodVersion` is one run of
the loop that `DataNodeRollout` models call by call, and its `outdated` counts
the rounds of restarts (one node per group each) that are left. `ClusterConfig`
is what `NdbReconciler` abstracts to the generation of the ConfigMap: both have
`PatchConfigMap` with the same guards, there with the steps around it, here with
the data it writes. `ClusterResources` has the steps of `ensureAllResources` that
`NdbReconciler` leaves out, and the deletions; its StatefulSet is there or not.
`MgmClient` is what is behind two actions of `NdbReconciler`, `CreateNodeGroups` and
`EnsureDataNodePodVersion`: a failure there is any of the ways here in which a
command can fail. It claims the node ids that `ClusterConfig` says a pod has.

### NdbReconciler

Data is abstracted to generations. `specs[g]` is what generation `g` asks for:
a version of each pod template (the version of config.ini is an annotation of
all three, so a change of config.ini is a change of all three), number of node
groups and servers, TDE secret, root host, and which workloads fail with it.
A StatefulSet is its annotations (`gen`, `add`, `root`, `host`), what its spec
was made from (`from`: the NdbCluster generation of the template, `gen`: the
config's, `init`: `--initial` in the command, `reps`) and its status
(`seen`: observedGeneration is current, `up`: all pods ready, `stat`: replicas
in the status, `outdated`). `spec` is `metadata.generation`.

Each call that changes an object outside the operator ends an action, so that
another actor, a failure or a crash may come before the next one: `SyncBegin`
(`processNextWorkItem`, the reads of the caches), `EnsureConfigMap`,
`PatchConfigMapOnError`, `EnsureManagementServerStatefulSet`,
`EnsureDataNodeStatefulSet`, `DeletePodOnStsUpdate`,
`ValidateMySQLServerStatefulSet`, `HandleScaleDown`, the three
`Reconcile…StatefulSet`, `EnsureDataNodePodVersion`, `StartNewDataNodes`,
`CreateNodeGroups`, `ReorgNdbTables`, `RemoveAddNodeAnnotation`,
`ReconcileRootUser`, `PatchRootAnnotations`, `FinishSync` and
`UpdateNdbClusterStatus`. `StepFails`, `CreateNodeGroupFails` and
`StatusUpdateFails` are the error paths, `OperatorRestart` a crash.
`Deliver…`, `Resync` and `RelistStatefulSets` are the informers with the
handlers' filters; `ObserveStatefulSet`, `PodsBecomeReady` and `PodDisrupted` are
the StatefulSet controller and the kubelet (external). `UpdateSpec` is a user's
update, let through by `validateUpdate`.

Abstractions, and why they lose nothing the properties see:

- A cache jumps to the present of its watch; the states in between are states
  the sync could have read earlier. Caches of different kinds are independent.
- `updateNdbClusterStatus` retries on conflict with the latest object and the
  status it calculated before: whatever happened in between, the result is that
  status on the latest object, so the action writes it at once.
- Two-way merge patches send the difference between the cached copy and the
  wanted object: `Merge` takes a field from the wanted object where it differs
  from the copy, and otherwise keeps what the API server has.
- Services, PodDisruptionBudgets, service accounts, secrets and the NetworkPolicy are
  in `ClusterResources`: no later step of a sync reads them, and a failure of one is a
  `StepFails` of the step after it.
- Scaling the MySQL Servers to 0 does not happen: the mutating webhook sets at
  least one.
- A cluster with one replica cannot be updated (`IsValidSpecUpdate`), so
  `Redundancy` is 2 in every instance.

### DataNodeRollout

`pod[n]` has a revision and a phase (`up`, `terminating`, `gone`, `starting`,
`crashed`); a terminating pod is still connected to the management server.
`BeginCheck` is the call with a cached StatefulSet, `GetStatus` the query of the
management server (all data nodes connected, or stop), `EnsurePodVersion` one
look at the pod cache with the delete it may lead to, `Continue` the end of the
loop. Nothing is excluded around the checks, as the code excludes nothing: the pod cache
may be behind when they read it, pods may be replaced between `GetStatus` and the last
check, and after a SyncError a new template may come while pods restart. So the comment at
SC:187, "only one data node per group will be affected", does not hold (`availability`). What
holds is the order: a node is restarted only after all those of a lower index, in every
group, got the latest template.

### WorkQueue

Every operation of the queue holds its lock, so it is one step. `event` and
`synced` number the events of a key and the last one a successful sync has read:
`Sync` reads at its start. The delaying queue and the rate limiter are a set,
`waiting`, from which a key may be added at any time. `ShutDown` is the deferred
call of `Run`; `returned` says that `Run` is done.

### ClusterConfig

A spec is a record of what the config is made from: data nodes, MySQL Servers with
the number they may grow to and the size of their connection pools, free API slots,
parameters of the two default sections, TDE secret and my.cnf. `mutate`,
`hasValidSpec` and `IsValidSpecUpdate` are the webhook. A ConfigMap has a generation,
config.ini (a version, the default sections, and a set of nodes with id, type,
ordinal of the pod that the hostname names, and whether `NodeGroup=65536` is there),
my.cnf, the TDE secret and the initial restart request. Parsing is modelled by what it
yields: sections by name, with the comment on top of my.cnf as a section `header`.

`CreateConfigMap`, `StartSync` (a sync summarises the cached ConfigMap),
`PatchConfigMap` (which reads the cache once more for the copy that it patches, so
that the summary may be older), `DeliverConfigMap`, `CreateNodeGroups` and `UpdateSpec`
are the actions. `NodeIdPool` is what the pod initializer of each pod claims, computed
from the pod's name and environment as `writeNodeIDToFile` does. `MayOverlap` is TRUE
where a SyncError lets the webhook admit an update before the last one is processed.

### ClusterResources

One name, under which an NdbCluster is created, deleted and created again; `uid` tells
the incarnations apart. `owner[k]` is the uid that owns the plain object `k`
(`Objects` selects the PodDisruptionBudget, the password Secret, the governing Service,
the ServiceAccount), `np` the management NetworkPolicy (owner, resourceVersion, whether
its rules are the operator's, whose name is in its label), `sts` and `pvc` the
StatefulSet and the incarnation that filled its volume claims. Each has a cache of
its own. A sync takes one step per object, in the order of `ensureAllResources`:
`EnsurePlain`, `EnsureManagementNetworkPolicy`, `GetPolicy` and
`PatchManagementNetworkPolicy`, `GetStatefulSet`, `CreateStatefulSet`; `CallFails` is any
error, `OperatorRestarts` a crash.

`Collect…` is the garbage collector (external), which follows the deletion of the owner
at any distance. `Observe…` are the caches with the handlers; the handlers of
NdbClusters are told of the changes of their cache later, in order (`events`,
`ClusterChanged`, `ClusterDeleted`), because DeleteFunc deletes volume claims then,
by name. `RelistClusters` is a broken watch: a deletion becomes a tombstone, which
DeleteFunc does not expect (`TombstonePanics`), and a deletion with a new creation
becomes an update. `Resync` is the informers' 30 seconds
(`cmd/ndb-operator/main.go:107`).

Abstractions: every NdbCluster is at generation 1, since updates are
`NdbReconciler`'s; resourceVersions are compared for equality only, so a write takes
any that no copy has; the rules of a policy are right or not.

### MgmClient, ConfigReader, ClusterStatus

One program runs: the pod initializer of a data node or of a MySQL Server, the operator's
`createNodeGroups` or `ensureDataNodePodVersion`, or the computation of the data nodes'
memory request. `todo` is the list of commands that it executes next, `requests` those that
are sent and not answered, `wire` the lines that are sent and not read. A reply is a
header, details, and an empty line; `Answer` writes it, `MgmdCrash` cuts it anywhere,
`ReadTimesOut` leaves it for the next command, `ReadReply` takes what the code takes:
lines up to the empty one, or whatever there is once the connection is closed. The
scanner may read ahead and lose what it has read (`ReadUpTo`, and `LeftAfterReply` on an
error, where it has read ahead nothing or all that has come). `LookupPod` is the wait for
the DNS, whose replicas learn of the pod one by one (`DnsUpdated`); `FailureHandled` and
`NodeIdFreed` the handling of the failure of the node that had the id.

`ConfigReader` reads words: the header with its lengths, the sections in their order,
entries of three types, the defaults and the node's own section, as
`config_reader.go` does; `Lookup` is the reference that it is compared with, which searches
the configuration from which `Pack` made the words. Words have 31 bits, because
TLC's integers have, and base64 is left out. Amounts of memory are in MiB with words
that wrap at 2^12, which is 4 GiB. A node has two lines in a status, its type and the rest
in one.

## 3. Runs

| Run | Instance | Shows |
|---|---|---|
| `updates` | 3 generations, each change any of 9 kinds, status copies stale too, no faults | processed generations are those of every template, rolled out, inducted, with their management and data nodes, and clean; configs are adopted in order; the contract is kept, with old reports |
| `faults` | 2 generations, one failed call, one crash, one failed status update, one broken watch, at any step | the same, and the number of MySQL Servers, survive faults (`SafeUnderFaults`); patches never go back; the contract is kept, and no report taken back |
| `recovery` | 2 generations; node groups added, servers removed, TDE secret, root host or the management nodes' template changed, the first of which may be erroneous; one pod of any workload unready and one crash, at any moment, fair | every update is processed, and the one that repairs the management nodes |
| `data_node_repair` | 2 generations, the data nodes' template may be erroneous, fair | **violated**: if the first one is, an update cannot repair it |
| `rollout` | 2 groups of 2, 2 revisions, one fault, fair | data nodes are restarted index by index; every revision reaches every node |
| `availability` | 2 groups of 2, 3 revisions, no fault | **violated**: two data nodes of a group are restarted at a time |
| `queue` | 2 keys, 2 workers, 3 events each, 2 errors, shutdown, fair | exclusion, no lost event, every event served, refinement of `ReconcileRequests` |
| `config` | 4 generations of 74 valid specs, not overlapping, stale summaries and caches | what is asked for is in the ConfigMap; pods have node ids in it; ids are distinct and stay; versions name contents |
| `server_slots` | 2 generations: 4 MySQL Servers with one connection each, or 2 with 2 | **violated**: config.ini keeps the hosts of the 4 servers |
| `management` | all 5 programs, 2 management servers, up to 7 clusters and 8 configurations, 2 crashes and 1 late reply, fair | statuses are exact or errors, node groups complete, ids granted, memory as configured; programs end |
| `resources` | 2 incarnations, the first possibly one that opted out of policies, with Secret and Service, one edit, failure, restart or relist, fair | isolation first, drift repaired, no edit lost, a new cluster gets its own StatefulSet |
| `governing_service` | the same without disturbances, Service only | **violated**: a recreated cluster loses its governing Service and it is not created again |

The properties, by definition name:

- `ProcessedIsApplied` (proved, and in no run, since where no spec is erroneous
  `ProcessedWasRolledOut` says more), `ProcessedMatchesSpec`, `ProcessedWasRolledOut`:
  what `processedGeneration` promises, in growing strength; `ProcessedNodes` and
  `ProcessedServers`: the numbers of pods (the second one fails among three generations, see
  `stale_patch` below, and is checked as a part of `SafeUnderFaults` only). `rolled` is a history of complete rollouts that does not use the
  code's own test for them, so that a wrong test is seen. `SafeUnderFaults` is all of
  them, with the next line's, in the instance with faults.
- `NodesInducted`, `RootCanConnect`, `InitialFlagCleared`: the online add, the
  root user and the restart with `--initial` are complete by then. The last one
  matters beyond bookkeeping: a data node that crashes with `--initial` in its
  command comes back empty.
- `ConfigAdoptedFirst`, `NeverBackwards`: action properties on patches.
- `ImplementsContract`: every step of the reconciliation is one of `UpdateContract`, or not
  seen there. An update is accepted when the last one is reported; the ConfigMap adopts it
  when every workload has completed the last one; the management nodes get it first, then the data
  nodes, then the MySQL Servers, each when those before it are rolled out; it is reported when
  all are, never before. If syncs begin with the last status, reports are never taken back;
  otherwise an old one may come again, but only one of an update that all completed.
- `EveryUpdateProcessed`, `RolloutCompletes`, `EveryEventSynced`: liveness.
- `RestartedInOrder`, and `OneNodePerGroup` (violated); `OneWorkerPerKey`,
  `NoEventLost`, `ImplementsRequests`.
- `ConfigApplied`, `PodsHaveNodeIds`, `DistinctNodeIds`, `NewNodesMarked`: what is
  in a generation's ConfigMap. The ids that a pod computes are those of nodes of its
  type there and, but for MySQL Servers, of its host; `PodsFindTheirNodeIds` (violated) says the
  latter of MySQL Servers too; `DataNodesKeepIds`, `VersionNamesConfig`: from one
  ConfigMap to the next. A data node finds its data by its id and host, and pods are
  restarted only if the version in their annotation changes.
- `StatusExact`, `MemoryRequestExact`: what the management client returns is what is
  there, whatever was cut, late or laid out differently. `NodeGroupsComplete`: the rolling
  restart sees whole node groups; `NewNodesGrouped`: no node group is made of too few
  nodes, none is left out; `NodeIdsGranted`: a pod starts only with ids that were granted
  (after a late reply this fails for MySQL Servers, see `late_reply` below);
  `ProgramEnds`: unless its management server is gone.
- `IsolatedFirst`: who owns a Service or a StatefulSet has had a policy of its own, or
  opted out; `NoConcurrentEditLost`: a repair overwrites only what it has read, of its own
  cluster; `DriftRepaired`, `Recreated`: in the end the policy is the operator's, and the
  StatefulSet that of the present incarnation. `Recreated` holds even if a relist shows a
  deletion and a creation as one update that starts no sync: the events of the leftovers,
  when they are collected, start one.

### Bounds

Three generations let an update overtake the copies of the one before it and of the one
before that (a copy two generations old is possible only then). Two are enough where a
single fault meets a single update; `updates` covers overlaps. Two restart rounds tell
"some outdated" from "all". One fault of each kind, at any step, with the others, is in
`faults`; liveness runs have finitely many faults because with infinitely many nothing
is ever processed. `recovery`, with two generations, has the repair of a first start
only. Only its management nodes may be erroneous: with an erroneous MySQL Server
template, an update that adds data nodes is stuck where `data_node_repair` is. Two nodes
per group in `rollout` are two rounds of restarts, two groups let the same index be in
different states; the order for more is proved. Two workers, two keys and three events
per key let an event arrive before, during and after the sync of the one before. The
specs of `config` combine two or three values of every field, among them some that the
webhook completes or refuses, and the pair of `server_slots`, with the same product of
`max` and `pool`; four generations let a field be set, changed and removed. None sets
the parameter that TDE implies (`tde_override.cfg`) or management parameters
(`management_config.cfg`), because there the properties fail. `management` has clusters
in which node groups are partly connected, not connected, new, or new and one and a
half, so that every branch of the grouping is taken; two crashes let both servers be
gone at a time or one of them twice; the configurations have the node's id before or
after its values, own values or defaults for 32-bit and 64-bit parameters. `resources`
needs two incarnations for leftovers and one disturbance at any step; handlers one event
behind are enough there, two are needed for `volume_loss`. `updates` leaves out two of
the 11 kinds of changes that `faults` has, each of which is part of another one.

### Fairness

Weak fairness on the worker's steps (goroutines run; every call has a timeout and
ends), on the deliveries (a watch that stays connected delivers), on the resync
timer, and on the StatefulSet controller and kubelet (pods whose template is not
erroneous become ready). Users, faults and new revisions are under no obligation.
In `ClusterResources` the same, with the garbage collector; in `MgmClient` the client,
the servers' answers and restarts, the handling of node failures, and the expiry of the
DNS caches, but no crash and no timeout. In `WorkQueue`, workers, delayed adds and syncs
are fair, per worker and per key.
`StaleStatus` is FALSE in the liveness runs: with TRUE a cluster can get
stuck (`stale_status.cfg` below). No run uses symmetry.

`CHECK_DEADLOCK FALSE` is said only where the system may stop: an erroneous spec
that no further generation repairs (`recovery`, `data_node_repair`), a rollout, a
queue, a config, a cluster's resources or a management client with nothing left to do
within the bounds.

### Further counterexamples

These instances were met while modelling and TLC refutes the property in each;
they are kept for whoever changes that code.

| cfg | Property | What happens |
|---|---|---|
| `root_host` | `OnlyRootHost` | a new MySQL Server template drops the rootHost annotation, so a new rootHost creates a user instead of renaming the old one, which remains (`mysqld_statefulset_controller.go:229`) |
| `root_back` | `RootCanConnect` | a root host is changed and changed back: a sync whose StatefulSet is two generations old finds the new host in its annotation already and runs no SQL (`mysqld_statefulset_controller.go:243`) |
| `shutdown` | `RunWaitsForWorkers` | `Run` does not wait for the workers, as its comment says it does (CT:463) |
| `tde_override` | `ConfigApplied` | a user's own `EncryptedFileSystem` is counted twice: removing it is missed (`config_summary.go:125`) |
| `my_cnf` | `CnfVersionNamesChange` | the parsed my.cnf has a section `header` that the spec's has not, so every update makes a new version of it (`config_summary.go:216`) |
| `node_id_range` | `NodeIdsInRange` | the limit of 256 nodes does not count connections, nor that ids start at 148 (`validation.go:108`) |
| `overlap` | `NewNodesMarked` | an update admitted after a SyncError drops `NodeGroup=65536` from data nodes that are in no node group yet (`config_generators.go:103`) |
| `stale_patch` | `ProcessedServers` | a patch from a stale StatefulSet omits replicas that `HandleScaleDown`, reading an old config, had put back (`statefulset_control.go:177`) |
| `stale_status` | `EveryUpdateProcessed` | a sync from an old status takes `processedGeneration` back (SC:649), and resyncs then skip the resource (CT:182) |
| `relist` | `EveryUpdateProcessed` | a StatefulSet that a relist adds already ready wakes nobody (no AddFunc, CT:243) |
| `status_failure` | `EveryUpdateProcessed` | a failed status update is not retried (CT:626, which has a TODO about it) |
| `error_success` | `ProcessedWasRolledOut` | after a SyncError, MySQL Servers still being replaced pass as complete (`mysqld_statefulset_controller.go:172`) |
| `disconnected` | `NodesInducted` | a new data node that is disconnected when node groups are created is taken for inducted (`ndbmtd_statefulset_controller.go:71`) |
| `management_config` | `ManagementConfigApplied` | the management nodes' default section is read under another name than it is written, so removed parameters stay (`config_summary.go:99`) |
| `pod_names` | `PodNamesResolve` | the pod with ordinal 10 looks up a name that does not exist (`cmd/ndb-pod-initializer/main.go:108`) |
| `stranded` | `InitializerEnds` | a pod initializer that waits for a node id never connects again after its management server restarted (`main.go:203`) |
| `late_reply` | `NodeIdsGrantedDespiteTimeouts` | the reply to one reservation, late, is read as the reply to the next one (`mgmapi.go:234`) |
| `group_gap` | `NodeGroupsComplete` | node groups are indexed by position: with ids 0 and 2 one is left out (`clusterstatus.go:189`); the operator itself never makes a gap |
| `redo_buffer` | `MemoryRequestExact` | RedoBuffer times NoOfFragmentLogParts wraps at 4 GiB (`ndbmtd_statefulset.go:203`) |
| `old_volumes` | `VolumesFresh` | a cluster created again at once starts on the volumes of the deleted one |
| `volume_loss` | `OwnVolumesKept` | DeleteFunc, two events late, deletes the volume claims of the new cluster (CT:203) |
| `volumes_left` | `VolumesDeleted` | the volume claims stay if the deletion arrives as a tombstone, on which DeleteFunc panics (CT:198), or is missed during a restart |

## 4. Proofs

All leaves are checked by tlapm. Nothing is assumed but the named `ASSUME`s on
constants, which TLC evaluates in every run, and the hypotheses that a theorem states.
Those are about constants too: they exclude what the code does not handle, and a
counterexample of section 3 shows what happens without them.

| Hypothesis | Theorems | Without it |
|---|---|---|
| `NewHosts`: no update brings an earlier root host back | `RootConnects` | `root_back` |
| `MayFail = {}`: no spec is erroneous | `ProcessedAfterRollout`, `ConfigAfterRollout`, `FlagClearedInTime`, all of `NdbReconcilerScaling` | `error_success`; with `MaxGen = 4` also for `ConfigAdoptedFirst`; `recovery` with `ImplementsContract` in place of its property; for `FlagClearedInTime` and `NodesWhenProcessed` see below |
| `~MayOverlap`: updates come one after another | the last four of `ClusterConfigProofs` | `overlap` |
| `NoOverride`: no spec sets `EncryptedFileSystem` itself | `SpecApplied` | `tde_override` |
| `NoGaps`: node groups are numbered 0, 1, … | `NodeGroupsWhole` | `group_gap` |
| `GroupsReadable`: the reader finds the node groups in the configuration | the theorems about statuses and node groups | TLC evaluates it |

**NdbReconcilerProofs.** `TypeCorrect`, `AppliedBeforeProcessed` (`ProcessedIsApplied`)
and `GenerationsOnlyAdvance` (`NeverBackwards`), for any number of generations,
any set of changes, any faults, stale statuses and erroneous specs included.
`ProcessedIsApplied` is not inductive: what a sync writes in its last step depends
on what it read in its first. `IndInv` adds three kinds of facts. *Flow*:
generations flow one way, from the NdbCluster to its cache, to the ConfigMap, to
its cache, to the StatefulSets, and each is at most the one it came from. *Copies*:
no cached or copied object is ahead of its original. *Progress*: a sync past a
reconcile step has left that StatefulSet with the generation of its config, so that
a sync that reaches its end with success declares a generation everything
has. `Invariance` proves it with one step per action; originals only grow, so copies
stay behind by monotonicity, and each patch writes a generation at least as new.

**NdbReconcilerSafety.** Five more properties of a processed generation, each with an
invariant of its own on top of `IndInv`, for any number of generations, any changes, any
failed calls, crashes, lost status updates and relists, and stale statuses. The proofs of
steps go through one lemma, `Writes`: what a step may leave in a StatefulSet and in the
copies of it (`Views`), so that the invariants need not look at every action.

- `ProcessedIsCurrent` (`ProcessedMatchesSpec`). `Origins`: a template is made from an
  NdbCluster that is not older than its config, and no newer than the one the sync at hand
  works from (`Level`); `Level` only grows.
- `RootConnects` (`RootCanConnect`). `RootInv`: annotations of the root user, in whatever
  copy, are not ahead of `Level`, and if they are level with it the user it asks for exists.
  This compares hosts, and is why they must not come back: an old copy that names the host
  wanted now is taken for the result of this update.
- `ProcessedAfterRollout` (`ProcessedWasRolledOut`), `ConfigAfterRollout`
  (`ConfigAdoptedFirst`). Without erroneous specs the webhook admits an update only when the
  last one is processed, so that `RollInv` can say that every workload was rolled out at the
  generation before (`Rollouts`), that a copy which shows a rollout tells of one, although
  it may be older than the StatefulSet, because a copy with the metadata.generation of the
  present is of pods that are the present ones (`Revisions`), and what a sync past each
  check has seen (`RolloutFlow`, `DataNodesRolled`). After a SyncError both properties
  can fail.
- `FlagClearedInTime` (`InitialFlagCleared`). The restart with `--initial` goes through three
  objects, the ConfigMap, the StatefulSet and the ConfigMap again, with copies of each.
  `FlagInv`: whoever has the flag is of the current generation, which changes the TDE
  secret (`FlagsCurrent`); the flag is handed from one to the next and never back
  (`Handover`); success and a processed generation are told only when it is gone
  everywhere (`FlagFlow`). It builds on `RollInv`, hence the hypothesis: without it TLC has
  found no counterexample among three generations, and there is no proof.

**NdbReconcilerScaling.** What is asked for beyond versions: numbers. All of it is without
erroneous specs, and for any number of generations, any changes, failed calls, crashes, lost
status updates, relists, disrupted pods and stale statuses. `Base` is what the two modules
above have established.

- `NodesWhenProcessed` (`ProcessedNodes`). There is one management node throughout
  (`OneManagementNode`). For data nodes, an online add has five steps over several
  syncs: annotation, new pods, node groups, tables, no annotation. What makes it safe is that
  the annotation is removed last and never comes back, although a sync decides by a copy.
  `CopyInv`: the metadata.generation names the template and the replicas (`SpecDetermines`),
  copies have no more data nodes than the StatefulSet (`CopiesBehind`), and a sync that is past
  a step has seen what that step waits for (`SyncKnows`). `GrowInv`: the annotation is there
  until the new data nodes are started, in every copy that could be patched, and where it is
  gone the copies show it (`Annotated`); a copy with the annotation of an *earlier* add is
  complete before the next config exists, and out of the cache before the data nodes get that
  config (`Leftover`), which is why the management nodes must come first; new data nodes
  are started only when the old ones have the new config (`OldNodesFirst`); what a status
  claims has been started (`Floors`). Like `FlagClearedInTime` it rests on `RollInv`, hence
  the hypothesis.
- `UpdatesKeepContract` (`ImplementsContract`), the refinement. The state of `UpdateContract` is
  read from `nc`, `cm`, `sf` and `rolled`. A step changes one of these objects (`OneObject`), and
  is a request or a report (`ClusterStep`), an adoption (`ConfigStep`), or a deployment to or a
  completion of one workload (`WorkloadStep`). Most of what these need is in `RollInv`:
  rollouts are one generation behind the user at most, so that whatever grows has
  reached the last generation before. If `StaleStatus` is TRUE, that is all: a status that is
  written claims what was rolled out (`ReportedIsRolledOut`). If it is FALSE, the contract says
  more, that reports are not taken back and data nodes wait for the management nodes, which
  the first start of a cluster does not ask for when it patches. `StatusInv`: with the
  last status, a cluster that has processed anything is not taken for one that is starting, and
  data nodes are made only after the management nodes were completed once.

The same is not proved of the other numbers. That of the MySQL Servers can be wrong
(`stale_patch`), and new data nodes without node groups can be taken for inducted
(`disconnected`), also where nothing disrupts a pod: a sync with an old copy of the
StatefulSet may restart a data node for its version while the cache still shows all
of them ready, and the next sync makes node groups while that one is away.

**DataNodeRolloutProofs.** `RestartsInOrder` (`RestartedInOrder`) and `RolloutTypeCorrect`,
for every number of groups, nodes, revisions and faults, without a hypothesis. `RolloutInv`:
during the checks the desired revision is the latest, and no copy or pod is newer than what it
was made from (`KnownTemplates`), so that a pod whose cached revision is the desired one has it;
the indexes that the loops have left behind, and the groups before the present one unless pods
of this index are being restarted, are up to date (`Passed`), and a pod never goes back to an
older template. `RestartStep` reads the order off `Passed` at the moment of the delete.

**WorkQueueProofs.** `ExclusiveSync` (`OneWorkerPerKey`), `EventsRemembered`
(`NoEventLost`) and `QueueRefinement` (`ImplementsRequests`), for any sets of keys and
workers; `QueueKeysConsistent` (the queue and its sets agree) and `QueueTypeCorrect`.
`QueueInv`: the queue lists `dirty \ processing`, each key once; `processing`
is what the workers hold, each key by one worker; an unread event has its key in
`dirty`, in `waiting` or with a worker that will read it. The refinement maps pending to
`dirty \cup waiting` and syncing to `processing`.

**ClusterConfigProofs.** `NodeIdsDistinct` (`DistinctNodeIds`), `DataNodeIdsKept`
(`DataNodesKeepIds`) and `ConfigTypeCorrect` (`TypeOK`), for every set of specs that the
CRD's schema admits, any number of updates, overlapping or not, and copies of any age. The
five kinds of nodes have ids in five disjoint ranges (`NodeIdRanges`), which rests on the
schema's limit of 144 data nodes. `PatchedConfig`: whatever the copies, a patch leaves
config.ini alone or brings the one generated from the current spec. `NodeIdInv` adds that
every data node of config.ini has the id of its ordinal, below the spec's number of data
nodes, which updates cannot reduce; so the next config.ini has it again. `TypeInv` adds
that the cached ConfigMap is not ahead of the real one, so that a version is at most
the generation it comes with, and that nodes can be counted.

If updates come one after another there is more: `NewDataNodesMarked` (`NewNodesMarked`),
`SpecApplied` (`ConfigApplied`), `PodIdsFound` (`PodsHaveNodeIds`) and `VersionTellsConfig`
(`VersionNamesConfig`). The code regenerates config.ini when counts of the last one differ from
those of the spec. `UnneededHolds` proves that where they do not, the sections are those that
the spec asks for: two sets of parameters of which one is in the other are the same if
they have as many elements (`SameByCount`), once the operator's own are counted out
(`OperatorParamsCounted`). `ContentInv` carries that over the copies: there are two
generations at a time (`OneBehind`), copies of one have one config.ini (`SameConfig`), which
is what the spec of that generation asks for (`Contents`), and what a patch from the
sync's copy gives once more (`Derived`), so that a patch repeated from a stale copy changes
nothing.

**ClusterResourcesProofs.** `TypeCorrect`, `IsolationFirst` (`IsolatedFirst`) and
`DriftRepairSafe` (`NoConcurrentEditLost`), for any number of deletions, disturbances and
edits, and any lag. `IsolatedFirst` alone is not inductive, because the sync that creates a
Service has dealt with the policy steps before. `IsolationInv` adds that a policy's owner is
isolated (`OwnersIsolated`, with the caches), that an NdbCluster that does not expect a policy
has opted out (`OptedOut`, with the cached and copied ones), and that a sync past the policy
step works for an isolated incarnation (`SyncIsolated`). `DriftRepairSafe` rests on
`CopiesAgree`: copies of the policy with the same resourceVersion are the same policy, so
that a patch which is accepted is one of what was read.

**MgmClientProofs.** The invariants of `MgmClient` but `MemoryRequestExact`, for any clusters, pools and
configurations, any number of management servers, crashes and late replies.

- `StatusIsExact` (`StatusExact`). `ConvInv`, the conversation: until something goes wrong, what
  is on the wire is a part of the reply to the command at hand (`Exchange`), so that a
  connection is used again only if nothing is left to be read; what has been read of the status is
  true of the data nodes as far as it goes (`Truthful`), and complete once the number of nodes
  is right; only `createNodeGroups` changes node groups, and not before it has
  its status (`ClusterFound`).
- `PodsHaveTheirIds` (`NodeIdsGranted`). `GrantInv`: a line that grants an id is about one that was
  granted (`WireTrue`); every id of the pool is granted or still to be asked for (`PoolClaimed`),
  as long as no reply was late, which is the hypothesis in the property itself
  (`late_reply`). A data node does not need it: it asks for one id only (`OwnAsked`).
- `NodeGroupsMade` (`NewNodesGrouped`). The commands are about disjoint sets of `Redundancy` nodes,
  all of them still without a node group (`GroupsToCreate`); those that no command is about
  are too few for another one (`FewLeft`), because the sets are consecutive parts of a
  sorted list of all (`DivBounds`, `InBlock`).
- `NodeGroupsWhole` (`NodeGroupsComplete`). The lists by position are the node groups, because their
  ids are the first numbers (`Grouped`); that is where `NoGaps` is needed.
- `MgmTypeCorrect` (`TypeOK`).

What the recursive `ReadValue` finds in the words of a configuration is induction over data. It
enters as `GroupsReadable`; that it holds is an `ASSUME` of `MCMgmClient`, which TLC evaluates
for every cluster of the instance.

**Only model-checked.** Liveness, since fairness and ENABLED are out of the prover's reach:
`EveryUpdateProcessed`, `RolloutCompletes`, `EveryEventSynced`, `ProgramEnds`, `DriftRepaired`,
`Recreated`. What the recursive functions of `ConfigReader` compute, and with it
`MemoryRequestExact`. `NodesInducted` and `SafeUnderFaults` as a whole, which includes it and
`ProcessedServers`. Everything that is violated.

## 5. Not modelled

- Contents of pods, Services, labels and certificates, and the text of config.ini and my.cnf:
  formatting. Events are recorded for users only.
- The webhook server, its certificates and the webhook configuration: I/O and
  cryptography around admission functions that are modelled.
- Management client: connecting to a given node id, StopNodes, GetConfigVersion,
  GetMgmdArbitrationRank and IsHealthy, which the operator never calls; lines cut in
  the middle, which are lines that do not match.
- Resources: a change of a Service's type (`patchService`), the deletion of the Service
  and StatefulSet when the MySQL Servers are scaled to 0 (the mutating webhook sets at least
  one), the root password Secret, an operator that does not know its namespace. A
  PodDisruptionBudget's `minAvailable` is computed once and never patched; the model has
  the object without it.
- Validation of names, resources and load balancers: one rule per field, no state.
- A pod template that is changed and changed back: a template is compared by the generation
  that it was made from, so that the code's comparison of contents, which then finds no
  difference to a copy two updates old, has one here.
- A read ahead that ends in the middle of a reply when the command fails: the scanner has
  read nothing or all of what has come after the reply. If it ended in between, a pod
  initializer would read each later reply from the middle on.
- Generated code, end-to-end tests and vendored code other than the queue.

## 6. Plan

Done, in this order because each is the next one's context: `NdbReconciler` (the
core), its proofs; `DataNodeRollout`; `WorkQueue` and `ReconcileRequests`;
`ClusterConfig`; `MgmClient` with `ConfigReader` and `ClusterStatus`; `ClusterResources`
with deletion and policy drift; the proofs of the safety properties, `ProcessedNodes` late,
since it rests on the others; `UpdateContract` and its refinement last, because it rests on
most of them.

What could come next:

1. Proofs for erroneous specs: what remains true after a SyncError, where the checks of
   rollouts are relaxed.
2. Status conditions, and transient pod errors during an online add (a new template drops the
   annotation that induction depends on).
3. The PodDisruptionBudget's content against the number of data nodes.
