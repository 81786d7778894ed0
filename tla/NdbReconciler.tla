--------------------------- MODULE NdbReconciler ---------------------------
(***************************************************************************)
(* The reconciliation of one NdbCluster resource: the API server's objects, *)
(* the informer caches the operator reads them through, the workqueue item, *)
(* the event handlers, and syncHandler/sync run step by step by a worker.  *)
(*                                                                         *)
(* A NdbCluster generation stands for the spec it carries: specs[g].  The  *)
(* ConfigMap, the StatefulSets and the status hold generations, and the    *)
(* content they had when they were written is looked up in specs.          *)
(***************************************************************************)
EXTENDS Integers, FiniteSets

CONSTANTS
    MaxGen,             \* bound: generations the user can reach
    Changes,            \* kinds of spec change one update may make: a set of sets of kinds
    Redundancy,         \* data nodes per node group: rounds of a rolling restart
    StaleStatus,        \* TRUE iff a sync may read a status older than the last one written
    MayFail,            \* workloads whose spec may be erroneous: its new pods fail
    MaxDisruptions,     \* bound: pods that become unready by themselves
    MaxErrors,          \* bound: API, management server or SQL calls that fail
    MaxRestarts,        \* bound: crashes of the operator
    MaxStatusFailures,  \* bound: UpdateStatus calls that fail for good
    MaxRelists          \* bound: broken StatefulSet watches, followed by a relist

Workloads == {"mgmd", "ndbmtd", "mysqld"}
Kinds     == Workloads \cup {"addnode", "scaleup", "scaledown", "tde", "roothost", "oldhost"}
Faults    == {"disruption", "error", "restart", "status", "relist"}

MaxFaults ==
    [f \in Faults |->
        CASE f = "disruption" -> MaxDisruptions
          [] f = "error"      -> MaxErrors
          [] f = "restart"    -> MaxRestarts
          [] f = "status"     -> MaxStatusFailures
          [] f = "relist"     -> MaxRelists]

ASSUME ConstantsAssumption ==
    /\ MaxGen \in Nat \ {0}
    /\ Changes \in SUBSET (SUBSET Kinds)
    /\ Redundancy \in Nat \ {0}
    /\ StaleStatus \in BOOLEAN
    /\ MayFail \subseteq Workloads
    /\ \A f \in Faults : MaxFaults[f] \in Nat

VARIABLES
    nc,      \* NdbCluster: generation and status
    specs,   \* content of each generation of the NdbCluster
    cm,      \* ConfigMap: generation of its config and DataNodeInitialRestart
    sf,      \* StatefulSets, with the pods they run
    ndb,     \* the MySQL Cluster: node groups, groups its tables use, root users' hosts
    ncCache, cmCache, sfCache, errCache,  \* the informer caches
    events,  \* objects with an undelivered event that enqueues the NdbCluster
    dirty,   \* the workqueue holds the NdbCluster's key
    pc,      \* where the worker is in syncHandler; "idle" when none is
    sc,      \* the worker's SyncContext
    rolled,  \* history: highest generation each StatefulSet was rolled out at
    faults   \* faults that happened, per kind

cluster == <<nc, specs, cm, sf, ndb, rolled>>
caches  == <<ncCache, cmCache, sfCache, errCache, events>>
vars    == <<cluster, caches, dirty, pc, sc, faults>>

Gens == 1..MaxGen

Steps == {"config", "errorpatch", "mgmd", "ndbmtd", "mysqld", "scaledown",
          "rmgmd", "deletepod", "rdata", "podver", "rmysqld", "addnode",
          "nodegroups", "reorg", "added", "root", "rootpatch", "cmpatch", "status"}

-----------------------------------------------------------------------------
(* Objects *)

\* What a generation of the NdbCluster spec asks for, as far as the operator
\* tells generations apart: versions of the three pod templates (config
\* version included), data node groups, MySQL Servers, TDE secret, root host,
\* and the workloads whose pods cannot become ready with it.
FirstSpec == [ver |-> [w \in Workloads |-> 1], nodes |-> 1, servers |-> 2, tde |-> 1,
              host |-> 1, bad |-> {}]

NoStatus == [proc |-> 0, reason |-> "None", of |-> 0, ready |-> {}]

\* A StatefulSet that does not exist has spec = 0 (metadata.generation).
\* gen, add, root (generation) and host (0: absent) are annotations; gen, from, init and reps determine the
\* spec; seen, up, stat and outdated are its status; bad says that some of
\* its pods cannot become ready.
NoSfset == [spec |-> 0, gen |-> 0, from |-> 0, init |-> FALSE, add |-> FALSE,
            root |-> 0, host |-> 0, reps |-> 0, seen |-> FALSE, up |-> FALSE,
            stat |-> 0, outdated |-> 0, bad |-> FALSE]

NoConfigMap == [gen |-> 0, init |-> FALSE]

NoSync == [nc |-> [gen |-> 0, status |-> NoStatus], cs |-> NoConfigMap,
           sf |-> [w \in Workloads |-> NoSfset], success |-> FALSE]

Exists(s) == s.spec # 0

statefulsetReady(s) == s.up /\ s.seen

\* Mutant: the observed generation is not compared.  The status of a new spec
\* still counts every pod as updated.
UpdateCompleteUnobserved(s) == s.up /\ (s.seen => s.outdated = 0) /\ s.stat = s.reps

statefulsetUpdateComplete(s) == s.up /\ s.seen /\ s.outdated = 0 /\ s.stat = s.reps

workloadHasConfigGeneration(s, g) == s.gen = g

\* Mutant: the flag is not found in the command.
InitialFlagMissed(s) == FALSE

isInitialFlagSet(s) == s.init

\* Mutant: a root user that exists is taken for the wanted one.
RootUserCreated(s, g) == s.root # 0

\* reconcileRootUser: the root user is the one of the config's generation.
RootUserUpToDate(s, g) == s.root = g

HasSyncError(n) == n.status.reason = "SyncError"

\* isStatefulsetUpdated for completeOrReady = Complete and = Ready
UpdatedComplete(s, g) ==
    ~Exists(s) \/ ~workloadHasConfigGeneration(s, g) \/ statefulsetUpdateComplete(s)

UpdatedReady(s, g) ==
    ~Exists(s) \/ ~workloadHasConfigGeneration(s, g) \/ statefulsetReady(s)

\* Some pod of the cluster is failing (retrievePodErrors is not empty).
PodErrors == \E w \in Workloads : Exists(sf[w]) /\ sf[w].bad /\ ~sf[w].up

Status(s) == <<s.seen, s.up, s.stat, s.outdated>>

-----------------------------------------------------------------------------
(* Patching a StatefulSet *)

Replicas(w, csGen, ncGen) ==
    CASE w = "mgmd"   -> 1
      [] w = "ndbmtd" -> specs[csGen].nodes
      [] w = "mysqld" -> specs[ncGen].servers

\* NewStatefulSet(cs, nc): the template comes from the NdbCluster's spec and
\* from the config versions in the config summary.
NewStatefulSet(w, cs, n) ==
    [NoSfset EXCEPT !.gen = cs.gen, !.from = n.gen, !.reps = Replicas(w, cs.gen, n.gen),
                    !.init = (w = "ndbmtd" /\ cs.init)]

Template(w, s) == <<specs[s.from].ver[w], specs[s.gen].ver[w], s.init>>

\* Mutant: the annotation that starts the new nodes later is not set.
UpdatedWithoutAnnotation(w, old, cs, n) ==
    [NewStatefulSet(w, cs, n) EXCEPT !.reps = IF w = "ndbmtd" THEN old.reps ELSE @]

\* ReconcileStatefulSet: new data nodes get into the config first, and are
\* not started yet.
UpdatedStatefulSet(w, old, cs, n) ==
    LET new == NewStatefulSet(w, cs, n)
    IN IF w = "ndbmtd" /\ old.reps < new.reps
       THEN [new EXCEPT !.reps = old.reps, !.add = TRUE]
       ELSE new

\* Pods made from the template fail.
Erroneous(w, s) == w \in specs[s.from].bad \cup specs[s.gen].bad

\* Mutant: the object is replaced, not patched.
Replace(api, old, new) == new

Merge(api, old, new) == IF new # old THEN new ELSE api

\* The two-way merge patch from old, the cached object, to new, applied by
\* the API server to the current object.  Only a change of the spec makes a
\* new metadata.generation.  The code compares the contents of old and new, the
\* model the generations they were made from: where a later generation asks for
\* the same pods again (A, B, A) and the cache is two generations behind, which
\* takes a SyncError, the code's patch leaves the template B in place.
Patched(w, old, new) ==
    LET cur == sf[w]
        m   == [cur EXCEPT !.gen  = Merge(@, old.gen, new.gen),
                           !.from = Merge(@, old.from, new.from),
                           !.init = Merge(@, old.init, new.init),
                           !.add  = Merge(@, old.add, new.add),
                           !.root = Merge(@, old.root, new.root),
                           !.host = Merge(@, old.host, new.host),
                           !.reps = Merge(@, old.reps, new.reps)]
        retemplated == Template(w, m) # Template(w, cur)
    IN IF retemplated \/ m.reps # cur.reps
       THEN [m EXCEPT !.spec = @ + 1, !.seen = FALSE,
                      !.outdated = IF retemplated THEN Redundancy ELSE @]
       ELSE m

\* All the pods are ready and have the latest template.
RolledOut(s) == s.up /\ s.seen /\ s.outdated = 0 /\ s.stat = s.reps

\* History: a StatefulSet is rolled out at its generation once its pods are, or
\* were with the same spec.
RecordRollout ==
    rolled' = [w \in Workloads |->
                IF \/ Exists(sf'[w]) /\ RolledOut(sf'[w])
                   \/ Exists(sf'[w]) /\ sf'[w].spec = sf[w].spec /\ rolled[w] = sf[w].gen
                THEN sf'[w].gen ELSE rolled[w]]

\* patchStatefulSet: continue at next if the API server's generation is the
\* cached one, else stop the sync (and go to stop).
PatchStatefulSet(w, old, new, next, stop) ==
    /\ Exists(sf[w])
    /\ sf' = [sf EXCEPT ![w] = Patched(w, old, new)]
    /\ RecordRollout
    /\ pc' = IF sf'[w].spec = old.spec THEN next ELSE stop

\* createStatefulSet: a StatefulSet the cache does not show yet is left alone.
CreateStatefulSet(w) ==
    /\ sf' = IF Exists(sf[w]) THEN sf
             ELSE [sf EXCEPT ![w] = [NewStatefulSet(w, sc.cs, sc.nc) EXCEPT !.spec = 1]]
    /\ UNCHANGED rolled

-----------------------------------------------------------------------------
(* The worker: syncHandler and sync *)

Goto(step) == pc' = step

Fault(f) ==
    /\ faults[f] < MaxFaults[f]
    /\ faults' = [faults EXCEPT ![f] = @ + 1]

\* processNextWorkItem takes the key, syncHandler copies the cached NdbCluster.
SyncBegin ==
    /\ pc = "idle" /\ dirty
    /\ StaleStatus \/ ncCache.status = nc.status
    /\ dirty' = FALSE
    /\ sc' = [NoSync EXCEPT !.nc = ncCache]
    /\ Goto("config")
    /\ UNCHANGED <<cluster, caches, faults>>

\* The sync returns an error: the key is queued again, no status update.
FailSync ==
    /\ pc' = "idle" /\ sc' = NoSync /\ dirty' = TRUE

\* EnsureConfigMap; Create fails if the cache has not seen the ConfigMap yet.
EnsureConfigMap ==
    /\ pc = "config"
    /\ LET next == IF HasSyncError(sc.nc) THEN "errorpatch" ELSE "mgmd"
           new  == [gen |-> sc.nc.gen, init |-> FALSE]
       IN \/ /\ cmCache # NoConfigMap
             /\ sc' = [sc EXCEPT !.cs = cmCache]
             /\ Goto(next)
             /\ UNCHANGED <<cm, dirty>>
          \/ /\ cmCache = NoConfigMap /\ cm = NoConfigMap
             /\ cm' = new
             /\ sc' = [sc EXCEPT !.cs = new]
             /\ Goto(next)
             /\ UNCHANGED dirty
          \/ /\ cmCache = NoConfigMap /\ cm # NoConfigMap
             /\ FailSync
             /\ UNCHANGED cm
    /\ UNCHANGED <<nc, specs, sf, ndb, rolled, caches, faults>>

\* Mutant: the generation is counted, not copied from the NdbCluster.
GenerationCounted(old) == [gen |-> old.gen + 1, init |-> FALSE]

\* GetUpdatedConfigMap: the same generation is only patched to drop the
\* initial restart request; a new one sets it if the TDE secret changes.
GetUpdatedConfigMap(old) ==
    IF sc.cs.gen = sc.nc.gen
    THEN [old EXCEPT !.init = FALSE]
    ELSE [gen |-> sc.nc.gen,
          init |-> old.init \/ specs[sc.cs.gen].tde # specs[sc.nc.gen].tde]

\* PatchConfigMap, the patch computed from the cached ConfigMap.
PatchConfigMap ==
    LET new == GetUpdatedConfigMap(cmCache)
    IN /\ cm' = [gen  |-> Merge(cm.gen, cmCache.gen, new.gen),
                 init |-> Merge(cm.init, cmCache.init, new.init)]
       /\ events' = IF cm' # cm THEN events \cup {"cm"} ELSE events
       /\ Goto("status")
       /\ UNCHANGED <<nc, specs, sf, ndb, rolled,
                      ncCache, cmCache, sfCache, errCache, sc, dirty, faults>>

\* ensureAllResources patches the ConfigMap early if the last sync met an error.
PatchConfigMapOnError ==
    /\ pc = "errorpatch"
    /\ \/ /\ sc.cs.gen # sc.nc.gen
          /\ PatchConfigMap
       \/ /\ sc.cs.gen = sc.nc.gen
          /\ Goto("mgmd")
          /\ UNCHANGED <<cluster, caches, sc, dirty, faults>>

\* The management and data node StatefulSets are created if the cache does not
\* show them.  During the first start, an incomplete one is patched if the
\* config has a newer generation, and the sync stops in any case.
EnsureStatefulSet(w, next, stop) ==
    /\ pc = w
    /\ LET s == sfCache[w]
           starting == sc.nc.status.proc = 0 /\ ~statefulsetUpdateComplete(s)
           newer    == ~workloadHasConfigGeneration(s, sc.cs.gen)
       IN \/ /\ ~Exists(s)
             /\ CreateStatefulSet(w)
             /\ Goto("status")
             /\ UNCHANGED sc
          \/ /\ Exists(s)
             /\ sc' = [sc EXCEPT !.sf[w] = s]
             /\ IF starting /\ newer
                THEN PatchStatefulSet(w, s, UpdatedStatefulSet(w, s, sc.cs, sc.nc), "status", stop)
                ELSE /\ Goto(IF starting THEN "status" ELSE next)
                     /\ UNCHANGED <<sf, rolled>>
    /\ UNCHANGED <<nc, specs, cm, ndb, caches, dirty, faults>>

EnsureManagementServerStatefulSet == EnsureStatefulSet("mgmd", "ndbmtd", "deletepod")

EnsureDataNodeStatefulSet == EnsureStatefulSet("ndbmtd", "mysqld", "status")

\* deletePodOnStsUpdate: the pod comes back with the patched template, which
\* the StatefulSet controller's rollout covers; the sync stops.
DeletePodOnStsUpdate ==
    /\ pc = "deletepod"
    /\ Goto("status")
    /\ UNCHANGED <<cluster, caches, sc, dirty, faults>>

\* Mutant: the management nodes are not waited for.
ManagementNodesNotAwaited(c) ==
    UpdatedReady(c.sf["ndbmtd"], c.cs.gen) /\ UpdatedComplete(c.sf["mysqld"], c.cs.gen)

\* ensureWorkloadsReadiness, on the worker's copies of the StatefulSets.
ensureWorkloadsReadiness(c) ==
    /\ UpdatedComplete(c.sf["mgmd"], c.cs.gen)
    /\ UpdatedReady(c.sf["ndbmtd"], c.cs.gen)
    /\ UpdatedComplete(c.sf["mysqld"], c.cs.gen)

\* validateMySQLServerStatefulSet, the end of ensureAllResources and
\* ensureWorkloadsReadiness.
ValidateMySQLServerStatefulSet ==
    /\ pc = "mysqld"
    /\ LET s == sfCache["mysqld"]
           incomplete == Exists(s) /\ ~statefulsetUpdateComplete(s) /\ ~HasSyncError(sc.nc)
       IN /\ sc' = [sc EXCEPT !.sf["mysqld"] = s]
          /\ Goto(IF incomplete \/ ~ensureWorkloadsReadiness(sc') THEN "status" ELSE "scaledown")
    /\ UNCHANGED <<cluster, caches, dirty, faults>>

\* HandleScaleDown: MySQL Servers are stopped before the config shrinks.  Its
\* first test repeats ensureWorkloadsReadiness on the same copy, and its count
\* is never 0: the mutating webhook keeps at least one MySQL Server.
HandleScaleDown ==
    /\ pc = "scaledown"
    /\ LET s == sc.sf["mysqld"]
           count == specs[sc.cs.gen].servers
       IN IF ~Exists(s) \/ s.stat <= count
          THEN Goto("rmgmd") /\ UNCHANGED <<sf, rolled>>
          ELSE PatchStatefulSet("mysqld", s, [s EXCEPT !.reps = count], "rmgmd", "status")
    /\ UNCHANGED <<nc, specs, cm, ndb, caches, sc, dirty, faults>>

\* ReconcileStatefulSet of the management or data nodes; upToDate is the
\* test that leaves the StatefulSet alone.
ReconcileStatefulSet(w, upToDate, next, stop) ==
    LET s == sc.sf[w]
    IN IF upToDate
       THEN Goto(next) /\ UNCHANGED <<sf, rolled>>
       ELSE PatchStatefulSet(w, s, UpdatedStatefulSet(w, s, sc.cs, sc.nc), next, stop)

ReconcileManagementNodeStatefulSet ==
    /\ pc = "rmgmd"
    /\ ReconcileStatefulSet("mgmd",
            workloadHasConfigGeneration(sc.sf["mgmd"], sc.cs.gen), "rdata",
            IF HasSyncError(sc.nc) THEN "deletepod" ELSE "status")
    /\ UNCHANGED <<nc, specs, cm, ndb, caches, sc, dirty, faults>>

ReconcileDataNodeStatefulSet ==
    /\ pc = "rdata"
    /\ ReconcileStatefulSet("ndbmtd",
            /\ workloadHasConfigGeneration(sc.sf["ndbmtd"], sc.cs.gen)
            /\ ~(isInitialFlagSet(sc.sf["ndbmtd"]) /\ ~sc.cs.init),
            "podver", "status")
    /\ UNCHANGED <<nc, specs, cm, ndb, caches, sc, dirty, faults>>

\* Mutant: pods are compared with the StatefulSet's current revision, so that
\* those with the update revision are restarted.
UpdatedPodsRestarted ==
    /\ pc = "podver"
    /\ LET s == sc.sf["ndbmtd"]
       IN \/ /\ statefulsetUpdateComplete(s)
             /\ Goto("rmysqld")
             /\ UNCHANGED <<sf, sc, dirty, events>>
          \/ /\ ~statefulsetUpdateComplete(s) /\ ~sf["ndbmtd"].up
             /\ FailSync
             /\ UNCHANGED <<sf, events>>
          \/ /\ ~statefulsetUpdateComplete(s) /\ sf["ndbmtd"].up
             /\ sf' = [sf EXCEPT !["ndbmtd"].up = FALSE]
             /\ events' = events \cup {"ndbmtd"}
             /\ Goto("status")
             /\ UNCHANGED <<sc, dirty>>
    /\ UNCHANGED <<nc, specs, cm, ndb, rolled,
                   ncCache, cmCache, sfCache, errCache, faults>>

\* ensureDataNodePodVersion: one round of the rolling restart.  The management
\* server is asked for the live state of the data nodes; a pod is restarted
\* if it is outdated, or seems so to a stale copy of the StatefulSet.
EnsureDataNodePodVersion ==
    /\ pc = "podver"
    /\ LET s   == sc.sf["ndbmtd"]
           cur == sf["ndbmtd"]
       IN \/ /\ statefulsetUpdateComplete(s)
             /\ Goto("rmysqld")
             /\ UNCHANGED <<sf, sc, dirty, events>>
          \/ /\ ~statefulsetUpdateComplete(s) /\ ~cur.up
             /\ FailSync
             /\ UNCHANGED <<sf, events>>
          \/ /\ ~statefulsetUpdateComplete(s) /\ cur.up
             /\ cur.outdated > 0 \/ s.spec # cur.spec
             /\ sf' = [sf EXCEPT !["ndbmtd"].up = FALSE,
                                 !["ndbmtd"].bad = Erroneous("ndbmtd", cur),
                                 !["ndbmtd"].outdated = IF @ > 0 THEN @ - 1 ELSE 0]
             /\ events' = events \cup {"ndbmtd"}
             /\ Goto("status")
             /\ UNCHANGED <<sc, dirty>>
          \/ /\ ~statefulsetUpdateComplete(s) /\ cur.up
             /\ cur.outdated = 0
             /\ Goto("rmysqld")
             /\ UNCHANGED <<sf, sc, dirty, events>>
    /\ UNCHANGED <<nc, specs, cm, ndb, rolled,
                   ncCache, cmCache, sfCache, errCache, faults>>

\* mysqldStatefulSetController.ReconcileStatefulSet
ReconcileMySQLServerStatefulSet ==
    /\ pc = "rmysqld"
    /\ LET s == sc.sf["mysqld"]
       IN IF ~Exists(s)
          THEN CreateStatefulSet("mysqld") /\ Goto("status")
          ELSE ReconcileStatefulSet("mysqld",
                    workloadHasConfigGeneration(s, sc.cs.gen), "addnode", "status")
    /\ UNCHANGED <<nc, specs, cm, ndb, caches, sc, dirty, faults>>

\* handleAddNodeOnline and startNewDataNodes
StartNewDataNodes ==
    /\ pc = "addnode"
    /\ LET s == sc.sf["ndbmtd"]
           count == specs[sc.cs.gen].nodes
       IN IF ~s.add \/ s.reps = count
          THEN Goto(IF s.add THEN "nodegroups" ELSE "root") /\ UNCHANGED <<sf, rolled>>
          ELSE PatchStatefulSet("ndbmtd", s, [s EXCEPT !.reps = count], "nodegroups", "status")
    /\ UNCHANGED <<nc, specs, cm, ndb, caches, sc, dirty, faults>>

\* createNodeGroups.  The new nodes that are not connected are not in the
\* management server's list: groups are made of the others, one by one.
CreateNodeGroups ==
    /\ pc = "nodegroups"
    /\ LET s == sf["ndbmtd"]
       IN \E g \in ndb.groups..s.stat : /\ s.up => g = s.stat
                                        /\ ndb' = [ndb EXCEPT !.groups = g]
    /\ Goto("reorg")
    /\ UNCHANGED <<nc, specs, cm, sf, rolled, caches, sc, dirty, faults>>

\* The management server refuses one of the node groups.
CreateNodeGroupFails ==
    /\ pc = "nodegroups"
    /\ Fault("error")
    /\ \E g \in ndb.groups..sf["ndbmtd"].stat :
          g < sf["ndbmtd"].stat /\ ndb' = [ndb EXCEPT !.groups = g]
    /\ FailSync
    /\ UNCHANGED <<nc, specs, cm, sf, rolled, caches>>

\* SQL is sent to MySQL Server pod 0, which may be down if some pod is.
SQLFails ==
    /\ ~sf["mysqld"].up
    /\ FailSync
    /\ UNCHANGED ndb

SQLRuns(users, spread) ==
    /\ sf["mysqld"].up \/ sf["mysqld"].stat > 1
    /\ ndb' = [ndb EXCEPT !.roots = users, !.spread = spread]
    /\ UNCHANGED <<sc, dirty>>

\* reorgNdbTables: the tables are redistributed over all the node groups.
ReorgNdbTables ==
    /\ pc = "reorg"
    /\ \/ SQLFails
       \/ SQLRuns(ndb.roots, ndb.groups) /\ Goto("added")
    /\ UNCHANGED <<nc, specs, cm, sf, rolled, caches, faults>>

\* The end of handleAddNodeOnline: the annotation is removed.
RemoveAddNodeAnnotation ==
    /\ pc = "added"
    /\ LET s == sc.sf["ndbmtd"]
       IN PatchStatefulSet("ndbmtd", s, [s EXCEPT !.add = FALSE], "root", "status")
    /\ UNCHANGED <<nc, specs, cm, ndb, caches, sc, dirty, faults>>

\* reconcileRootUser: CREATE USER if the host annotation is missing, else
\* RENAME USER if the host changed, which fails unless the old user exists
\* and the new one does not.
ReconcileRootUser ==
    /\ pc = "root"
    /\ LET s    == sc.sf["mysqld"]
           host == specs[sc.nc.gen].host
       IN \/ /\ RootUserUpToDate(s, sc.cs.gen)
             /\ Goto("cmpatch") /\ UNCHANGED <<ndb, sc, dirty>>
          \/ /\ ~RootUserUpToDate(s, sc.cs.gen) /\ s.host = host
             /\ Goto("rootpatch") /\ UNCHANGED <<ndb, sc, dirty>>
          \/ /\ ~RootUserUpToDate(s, sc.cs.gen) /\ s.host # host
             /\ \/ SQLFails
                \/ /\ s.host = 0
                   /\ SQLRuns(ndb.roots \cup {host}, ndb.spread) /\ Goto("rootpatch")
                \/ /\ s.host \in ndb.roots /\ host \notin ndb.roots
                   /\ SQLRuns((ndb.roots \ {s.host}) \cup {host}, ndb.spread)
                   /\ Goto("rootpatch")
                \/ /\ s.host # 0 /\ (s.host \notin ndb.roots \/ host \in ndb.roots)
                   /\ FailSync /\ UNCHANGED ndb
    /\ UNCHANGED <<nc, specs, cm, sf, rolled, caches, faults>>

\* The end of reconcileRootUser: the annotations tell what was applied.
PatchRootAnnotations ==
    /\ pc = "rootpatch"
    /\ LET s == sc.sf["mysqld"]
       IN PatchStatefulSet("mysqld", s,
                [s EXCEPT !.root = sc.cs.gen, !.host = specs[sc.nc.gen].host],
                "cmpatch", "status")
    /\ UNCHANGED <<nc, specs, cm, ndb, caches, sc, dirty, faults>>

\* The end of sync: hand over the next generation, drop the initial restart
\* request, or declare success.
FinishSync ==
    /\ pc = "cmpatch"
    /\ \/ /\ sc.cs.gen # sc.nc.gen \/ isInitialFlagSet(sc.sf["ndbmtd"])
          /\ PatchConfigMap
       \/ /\ sc.cs.gen = sc.nc.gen /\ ~isInitialFlagSet(sc.sf["ndbmtd"])
          /\ sc' = [sc EXCEPT !.success = TRUE]
          /\ Goto("status")
          /\ UNCHANGED <<cluster, caches, dirty, faults>>

\* Mutant: the generation is taken from the latest object, not from the copy
\* the sync worked on.
StatusOfLatestGeneration ==
    [proc |-> IF sc.success THEN nc.gen ELSE sc.nc.status.proc, reason |-> "InProgress",
     of |-> nc.gen, ready |-> {}]

calculateNdbClusterStatus ==
    LET reason == CASE sc.success              -> "SyncSuccess"
                    [] ~sc.success /\ errCache  -> "SyncError"
                    [] ~sc.success /\ ~errCache -> "InProgress"
    IN [proc   |-> IF sc.success THEN sc.nc.gen ELSE sc.nc.status.proc,
        reason |-> reason,
        of     |-> IF reason = "SyncError" THEN 0 ELSE sc.nc.gen,
        ready  |-> {w \in Workloads : Exists(sc.sf[w]) /\ sc.sf[w].up}]

\* updateNdbClusterStatus: skipped if the cached status is the calculated one,
\* else the API server's status is overwritten; a conflict is retried on the
\* latest object and ends the same.
UpdateNdbClusterStatus ==
    /\ pc = "status"
    /\ nc' = IF calculateNdbClusterStatus = sc.nc.status THEN nc
             ELSE [nc EXCEPT !.status = calculateNdbClusterStatus]
    /\ pc' = "idle" /\ sc' = NoSync
    /\ UNCHANGED <<specs, cm, sf, ndb, rolled, caches, dirty, faults>>

\* The status update fails: syncHandler returns without an error.
StatusUpdateFails ==
    /\ pc = "status" /\ calculateNdbClusterStatus # sc.nc.status
    /\ Fault("status")
    /\ pc' = "idle" /\ sc' = NoSync
    /\ UNCHANGED <<cluster, caches, dirty>>

\* A call to the API server, the management server or a MySQL Server fails.
StepFails ==
    /\ pc \in Steps \ {"status"}
    /\ Fault("error")
    /\ FailSync
    /\ UNCHANGED <<cluster, caches>>

-----------------------------------------------------------------------------
(* The informers and their event handlers *)

DeliverNdbCluster ==
    /\ ncCache # nc
    /\ ncCache' = nc
    /\ dirty' = (dirty \/ ncCache.gen # nc.gen)
    /\ UNCHANGED <<cluster, cmCache, sfCache, errCache, events, pc, sc, faults>>

\* The periodic resync of the NdbCluster informer.
Resync ==
    /\ ncCache.gen = ncCache.status.proc
    /\ dirty' = TRUE
    /\ UNCHANGED <<cluster, caches, pc, sc, faults>>

DeliverConfigMap ==
    /\ cmCache # cm
    /\ cmCache' = cm
    /\ dirty' = (dirty \/ "cm" \in events)
    /\ events' = events \ {"cm"}
    /\ UNCHANGED <<cluster, ncCache, sfCache, errCache, pc, sc, faults>>

\* The StatefulSet watch: an event with a changed status enqueues.
DeliverStatefulSets ==
    /\ sfCache # sf \/ events \cap Workloads # {}
    /\ sfCache' = sf
    /\ dirty' = (dirty \/ events \cap Workloads # {})
    /\ events' = events \ Workloads
    /\ UNCHANGED <<cluster, ncCache, cmCache, errCache, pc, sc, faults>>

\* The watch broke and the informer lists the StatefulSets again: what was
\* added in between is only an Add event, which nobody handles.
RelistStatefulSets ==
    /\ sfCache # sf
    /\ Fault("relist")
    /\ sfCache' = sf
    /\ dirty' = (dirty \/ \E w \in Workloads :
                    Exists(sfCache[w]) /\ Status(sfCache[w]) # Status(sf[w]))
    /\ events' = events \ Workloads
    /\ UNCHANGED <<cluster, ncCache, cmCache, errCache, pc, sc>>

\* The pod watch: an update with changed errors enqueues.  Failing pods are
\* replaced, not mended, and the end of one is a Delete event, which nobody
\* handles.
DeliverPods ==
    /\ errCache # PodErrors
    /\ errCache' = PodErrors
    /\ dirty' = (dirty \/ PodErrors)
    /\ UNCHANGED <<cluster, ncCache, cmCache, sfCache, events, pc, sc, faults>>

\* The operator crashes and starts again: caches are listed anew and the Add
\* event of the NdbCluster queues it.
OperatorRestart ==
    /\ Fault("restart")
    /\ ncCache' = nc /\ cmCache' = cm /\ sfCache' = sf /\ errCache' = PodErrors
    /\ events' = {} /\ dirty' = TRUE /\ pc' = "idle" /\ sc' = NoSync
    /\ UNCHANGED cluster

-----------------------------------------------------------------------------
(* The user and Kubernetes *)

\* The spec an update of kind c makes of spec s, erroneous for the workloads
\* in b.  Data nodes are only ever added, which changes config.ini and with it
\* every template.  The root host is a new one, or the one before.
Changed(s, c, b) ==
    LET new == IF "addnode" \in c THEN Workloads ELSE c \cap Workloads
    IN
    [ver     |-> [w \in Workloads |-> IF w \in new THEN s.ver[w] + 1 ELSE s.ver[w]],
     bad     |-> (s.bad \ new) \cup (b \cap new),
     nodes   |-> IF "addnode" \in c THEN s.nodes + 2 ELSE s.nodes,
     servers |-> CASE "scaleup" \in c   -> s.servers + 1
                   [] "scaledown" \in c /\ "scaleup" \notin c /\ s.servers > 1 -> s.servers - 1
                   [] OTHER -> s.servers,
     tde     |-> IF "tde" \in c THEN s.tde + 1 ELSE s.tde,
     host    |-> CASE "roothost" \in c -> s.host + 1
                   [] "oldhost" \in c /\ "roothost" \notin c /\ s.host > 1 -> s.host - 1
                   [] OTHER -> s.host]

\* The admission webhook accepts an update only if the last one is applied or
\* met an error, and the data nodes can be restarted one by one.
validateUpdate == Redundancy > 1 /\ (nc.status.proc = nc.gen \/ HasSyncError(nc))

UpdateSpec ==
    /\ nc.gen < MaxGen
    /\ validateUpdate
    /\ nc' = [nc EXCEPT !.gen = @ + 1]
    /\ \E c \in Changes, b \in SUBSET MayFail :
          specs' = [specs EXCEPT ![nc.gen + 1] = Changed(specs[nc.gen], c, b)]
    /\ UNCHANGED <<cm, sf, ndb, rolled, caches, dirty, pc, sc, faults>>

\* The StatefulSet controller observes a new spec, and replaces the pods if
\* the template changed.  It leaves those of the data nodes to the operator
\* (OnDelete), failing ones included.
ObserveStatefulSet(w) ==
    /\ Exists(sf[w]) /\ ~sf[w].seen
    /\ LET s == sf[w]
           fail == IF w # "ndbmtd" THEN Erroneous(w, s)
                   ELSE (s.bad /\ ~s.up) \/ (Erroneous(w, s) /\ s.stat < s.reps)
       IN sf' = [sf EXCEPT ![w].seen = TRUE, ![w].bad = fail,
                           ![w].up = /\ s.up /\ s.stat = s.reps
                                     /\ w = "ndbmtd" \/ s.outdated = 0]
    /\ events' = events \cup {w}
    /\ RecordRollout
    /\ UNCHANGED <<nc, specs, cm, ndb, ncCache, cmCache, sfCache, errCache,
                   dirty, pc, sc, faults>>

\* All the pods become ready.  The controller has replaced the outdated pods,
\* except those of the data nodes, which the operator deletes (OnDelete).
PodsBecomeReady(w) ==
    /\ sf[w].seen /\ ~sf[w].up /\ ~sf[w].bad
    /\ sf' = [sf EXCEPT ![w].up = TRUE, ![w].stat = sf[w].reps,
                        ![w].outdated = IF w = "ndbmtd" THEN @ ELSE 0]
    /\ ndb' = IF w = "ndbmtd" /\ ndb.groups = 0
              THEN [ndb EXCEPT !.groups = sf[w].reps, !.spread = sf[w].reps] ELSE ndb
    /\ events' = events \cup {w}
    /\ RecordRollout
    /\ UNCHANGED <<nc, specs, cm, ncCache, cmCache, sfCache, errCache,
                   dirty, pc, sc, faults>>

\* A pod becomes unready by itself: a crash, an eviction, a failed probe.
PodDisrupted(w) ==
    /\ sf[w].seen /\ sf[w].up
    /\ Fault("disruption")
    /\ sf' = [sf EXCEPT ![w].up = FALSE]
    /\ events' = events \cup {w}
    /\ UNCHANGED <<nc, specs, cm, ndb, rolled, ncCache, cmCache, sfCache, errCache,
                   dirty, pc, sc>>

-----------------------------------------------------------------------------

Init ==
    /\ nc = [gen |-> 1, status |-> NoStatus]
    /\ \E b \in SUBSET MayFail : specs = [g \in Gens |-> [FirstSpec EXCEPT !.bad = b]]
    /\ cm = NoConfigMap
    /\ sf = [w \in Workloads |-> NoSfset]
    /\ ndb = [groups |-> 0, spread |-> 0, roots |-> {}]
    /\ rolled = [w \in Workloads |-> 0]
    /\ ncCache = nc /\ cmCache = cm /\ sfCache = sf /\ errCache = FALSE
    /\ events = {} /\ dirty = TRUE
    /\ pc = "idle" /\ sc = NoSync
    /\ faults = [f \in Faults |-> 0]

SyncStep ==
    \/ EnsureConfigMap
    \/ PatchConfigMapOnError
    \/ EnsureManagementServerStatefulSet
    \/ EnsureDataNodeStatefulSet
    \/ DeletePodOnStsUpdate
    \/ ValidateMySQLServerStatefulSet
    \/ HandleScaleDown
    \/ ReconcileManagementNodeStatefulSet
    \/ ReconcileDataNodeStatefulSet
    \/ EnsureDataNodePodVersion
    \/ ReconcileMySQLServerStatefulSet
    \/ StartNewDataNodes
    \/ CreateNodeGroups
    \/ ReorgNdbTables
    \/ RemoveAddNodeAnnotation
    \/ ReconcileRootUser
    \/ PatchRootAnnotations
    \/ FinishSync
    \/ UpdateNdbClusterStatus

Informers ==
    \/ DeliverNdbCluster
    \/ Resync
    \/ DeliverConfigMap
    \/ DeliverStatefulSets
    \/ DeliverPods

Kubernetes == \E w \in Workloads : ObserveStatefulSet(w) \/ PodsBecomeReady(w)

Next ==
    \/ SyncBegin
    \/ SyncStep
    \/ Informers
    \/ Kubernetes
    \/ UpdateSpec
    \/ StepFails
    \/ CreateNodeGroupFails
    \/ StatusUpdateFails
    \/ RelistStatefulSets
    \/ OperatorRestart
    \/ \E w \in Workloads : PodDisrupted(w)

\* Workers keep running, watches keep delivering and the StatefulSet
\* controller keeps working; users and faults are under no obligation.
Fairness ==
    /\ WF_vars(SyncBegin) /\ WF_vars(SyncStep)
    /\ WF_vars(DeliverNdbCluster) /\ WF_vars(Resync) /\ WF_vars(DeliverConfigMap)
    /\ WF_vars(DeliverStatefulSets) /\ WF_vars(DeliverPods)
    /\ \A w \in Workloads : WF_vars(ObserveStatefulSet(w)) /\ WF_vars(PodsBecomeReady(w))

Spec == Init /\ [][Next]_vars

FairSpec == Spec /\ Fairness

-----------------------------------------------------------------------------
(* Properties *)

SpecContent == [ver : [Workloads -> Nat], nodes : Nat, servers : Nat,
                tde : Nat, host : Nat, bad : SUBSET Workloads]
StatusType  == [proc : 0..MaxGen, reason : {"None", "SyncSuccess", "InProgress", "SyncError"},
                of : 0..MaxGen, ready : SUBSET Workloads]
NdbClusters == [gen : 0..MaxGen, status : StatusType]
ConfigMaps  == [gen : 0..MaxGen, init : BOOLEAN]
Sfsets      == [spec : Nat, gen : 0..MaxGen, from : 0..MaxGen, init : BOOLEAN,
                add : BOOLEAN, root : 0..MaxGen, host : Nat, reps : Nat, seen : BOOLEAN,
                up : BOOLEAN, stat : Nat, outdated : 0..Redundancy, bad : BOOLEAN]

\* Every variable has its type.
TypeOK ==
    /\ nc \in NdbClusters /\ ncCache \in NdbClusters
    /\ specs \in [Gens -> SpecContent]
    /\ cm \in ConfigMaps /\ cmCache \in ConfigMaps
    /\ sf \in [Workloads -> Sfsets] /\ sfCache \in [Workloads -> Sfsets]
    /\ ndb \in [groups : Nat, spread : Nat, roots : SUBSET Nat]
    /\ rolled \in [Workloads -> 0..MaxGen]
    /\ errCache \in BOOLEAN /\ dirty \in BOOLEAN
    /\ events \in SUBSET (Workloads \cup {"cm"})
    /\ pc \in Steps \cup {"idle"}
    /\ sc \in [nc : NdbClusters, cs : ConfigMaps, sf : [Workloads -> Sfsets], success : BOOLEAN]
    /\ faults \in [Faults -> Nat]

\* Status.ProcessedGeneration is only advanced to a generation that the
\* ConfigMap and every StatefulSet in the API server already carry, however
\* stale the caches were that the sync read (sync, updateNdbClusterStatus).
ProcessedIsApplied ==
    /\ nc.status.proc <= cm.gen
    /\ \A w \in Workloads : nc.status.proc <= sf[w].gen

\* When the current generation is processed, the ConfigMap and every
\* StatefulSet's template come from that generation, even if the patches were
\* computed from stale copies (sync, patchStatefulSet).
ProcessedMatchesSpec ==
    nc.status.proc = nc.gen =>
        /\ cm.gen = nc.gen
        /\ \A w \in Workloads : sf[w].gen = nc.gen /\ sf[w].from = nc.gen

\* ... and the management and data nodes are as many as the generation asks
\* for: the new data nodes, which get into the config first, are started
\* (ReconcileStatefulSet, startNewDataNodes).
ProcessedNodes ==
    nc.status.proc = nc.gen =>
        \A w \in {"mgmd", "ndbmtd"} : sf[w].reps = Replicas(w, nc.gen, nc.gen)

\* ... and so are the MySQL Servers (HandleScaleDown, ReconcileStatefulSet).
ProcessedServers ==
    nc.status.proc = nc.gen => sf["mysqld"].reps = Replicas("mysqld", nc.gen, nc.gen)

\* A processed generation is one that each StatefulSet was completely rolled out at, at some time
\* (ensureAllResources, ensureWorkloadsReadiness, ensureDataNodePodVersion).
ProcessedWasRolledOut == \A w \in Workloads : nc.status.proc <= rolled[w]

\* A processed generation has its data nodes inducted into node groups and
\* the tables spread over all of them (handleAddNodeOnline).
NodesInducted ==
    nc.status.proc > 0 => /\ ndb.groups >= specs[nc.status.proc].nodes
                          /\ ndb.spread >= specs[nc.status.proc].nodes

\* When the current generation is processed, root can connect from the
\* spec's rootHost.
RootCanConnect == nc.status.proc = nc.gen => specs[nc.gen].host \in ndb.roots

\* ... and "RootHost is the host or hosts from which the root user can
\* connect": from nowhere else.
OnlyRootHost == nc.status.proc = nc.gen => ndb.roots \subseteq {specs[nc.gen].host}

\* Once the current generation is processed, a data node that restarts keeps
\* its data: the --initial flag of a TDE change is gone from the template by
\* then (patchConfigMap, isInitialFlagSet).
InitialFlagCleared == nc.status.proc = nc.gen => ~sf["ndbmtd"].init

\* What a processed update promises survives a failed call, a crash of the
\* operator, a failed status update and a broken watch, each at any step: the
\* sync that makes up for them finds its way by the ConfigMap and the
\* annotations alone (syncHandler, sync).
SafeUnderFaults ==
    /\ ProcessedMatchesSpec
    /\ ProcessedNodes
    /\ ProcessedServers
    /\ ProcessedWasRolledOut
    /\ NodesInducted
    /\ RootCanConnect
    /\ InitialFlagCleared

\* The main principle of syncHandler: a new generation gets into the
\* ConfigMap only after the cluster was rolled out at the previous one, or
\* the sync met an error.
ConfigAdoptedFirst ==
    [][(cm.gen # 0 /\ cm'.gen # cm.gen) =>
            HasSyncError(sc.nc) \/ \A w \in Workloads : rolled[w] >= cm.gen]_vars

\* What users see of an update: the generations of the NdbCluster, of the
\* ConfigMap and of the StatefulSets, the rollouts, and the status.
Contract == INSTANCE UpdateContract
                WITH OldReports <- StaleStatus, requested <- nc.gen, adopted <- cm.gen,
                     deployed <- [w \in Workloads |-> sf[w].gen], completed <- rolled,
                     processed <- nc.status.proc

\* If no spec is erroneous, the reconciliation implements UpdateContract: syncs
\* that read copies of different ages, that stop anywhere and are repeated, let
\* updates look as if they were made one at a time and in order.  Syncs that
\* begin with an old status may report an old generation again, but only one
\* that all workloads have completed (syncHandler, sync).
ImplementsContract == Contract!Spec

\* No patch, computed from whatever cached object, takes the ConfigMap or a
\* StatefulSet back to an older generation.
NeverBackwards ==
    [][cm'.gen >= cm.gen /\ \A w \in Workloads : sf'[w].gen >= sf[w].gen]_vars

\* Every accepted update is eventually processed, unless it is erroneous or
\* the user replaces it: no wakeup is lost between the event filters, the
\* stale caches and the workqueue, and an error does not block its repair.
EveryUpdateProcessed ==
    \A g \in Gens : (nc.gen = g /\ specs[g].bad = {}) ~> (nc.status.proc >= g \/ nc.gen > g)
=============================================================================
