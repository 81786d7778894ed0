----------------------- MODULE ClusterResourcesProofs -----------------------
(***************************************************************************)
(* The management nodes of every incarnation of an NdbCluster are isolated  *)
(* before their Service or StatefulSet exists, and drift repair overwrites  *)
(* only what it has read, whatever users, the caches and the garbage        *)
(* collector do in between.                                                 *)
(***************************************************************************)
EXTENDS ClusterResources, TLAPS

\* A fresh resourceVersion exists: three copies cannot hold all four.
LEMMA FreshVersionExists ==
    ASSUME TypeOK
    PROVE  /\ FreshVersion \in 1..4
           /\ FreshVersion \notin {np.version, npCache.version, worker.seen.version}
  <1>1. \E v \in Versions : v \notin {0, np.version, npCache.version, worker.seen.version}
    <2>1. {1, 2, 3, 4} \subseteq Versions
      BY DEF Versions
    <2>2. \/ 1 \notin {np.version, npCache.version, worker.seen.version}
          \/ 2 \notin {np.version, npCache.version, worker.seen.version}
          \/ 3 \notin {np.version, npCache.version, worker.seen.version}
          \/ 4 \notin {np.version, npCache.version, worker.seen.version}
      OBVIOUS
    <2> QED BY <2>1, <2>2
  <1> QED BY <1>1 DEF FreshVersion, Versions

\* The steps of ensureAllResources lead to steps, and what follows the policy is
\* in its second part.
AfterPolicy == {"secret", "sts", "svc", "sa", "create"}

LEMMA OrderOfSteps ==
    /\ FirstStep \in {"pdb", "np"}
    /\ After["pdb"] = "np"
    /\ \A k \in {"np", "secret", "sts", "svc", "sa"} : After[k] \in AfterPolicy
  BY DEF FirstStep, After, Or, AfterPolicy

-----------------------------------------------------------------------------
(* Types *)

LEMMA TypeInit == Init => TypeOK
  <1> SUFFICES ASSUME Init PROVE TypeOK
    OBVIOUS
  <1> PICK legacy \in Legacy :
         LET u == IF legacy THEN 1 ELSE 0 IN
         /\ cluster = [uid |-> u, expected |-> FALSE, processed |-> legacy]
         /\ owner = [k \in Plain |-> u]
         /\ isolated = {u} \ {0}
         /\ sts = u /\ pvc = Claims(u) /\ lastUid = u /\ queued = legacy
    BY DEF Init
  <1> legacy \in BOOLEAN
    BY ClusterResourcesAssumption
  <1>1. 0 \in Uids /\ 1 \in Uids
    BY ClusterResourcesAssumption DEF Uids
  <1>2. NoPolicy \in Policies /\ Idle \in [step : Steps, uid : Uids, expected : BOOLEAN, seen : Policies]
    BY <1>1 DEF NoPolicy, Policies, Versions, Labels, Idle, Steps
  <1>3. cluster \in Clusters
    BY <1>1 DEF Clusters
  <1>4. owner \in [Plain -> Uids] /\ cached \in [Cached -> Uids]
    BY <1>1 DEF Init, Cached
  <1>5. events \in Seq({"added", "annotated", "deleted", "tombstone"}) /\ Len(events) <= MaxLag
    BY ClusterResourcesAssumption DEF Init
  <1>6. sts \in Uids /\ pvc \in Uids /\ lastUid \in Uids /\ isolated \subseteq Uids
    BY <1>1 DEF Claims
  <1>7. queued \in BOOLEAN /\ stsDeleted \in BOOLEAN
    BY DEF Init
  <1>8. /\ ncCache \in Clusters /\ stsCache \in Uids /\ np \in Policies /\ npCache \in Policies
        /\ worker = Idle
    BY <1>2, <1>3, <1>6 DEF Init
  <1>9. disturbances \in 0..MaxDisturbances
    BY ClusterResourcesAssumption DEF Init
  <1> QED BY <1>2, <1>3, <1>4, <1>5, <1>6, <1>7, <1>8, <1>9 DEF TypeOK, Idle

\* What users do.
LEMMA TypeUsers ==
    ASSUME TypeOK, CreateCluster \/ EnablePolicy \/ DeleteCluster \/ EditPolicy \/ DeletePolicy
    PROVE  TypeOK'
  <1> USE ClusterResourcesAssumption DEF TypeOK, apiVars, cacheVars, counters, Disturbance
  <1>0. 0 \in Uids
    BY DEF Uids
  <1>1. CASE CreateCluster
    BY <1>1 DEF CreateCluster, Clusters, Uids
  <1>2. CASE EnablePolicy
    BY <1>2 DEF EnablePolicy, Clusters
  <1>3. CASE DeleteCluster
    BY <1>0, <1>3 DEF DeleteCluster, NoCluster, Clusters
  <1>4. CASE EditPolicy
    <2> PICK e \in Edits :
           np' = [owner |-> IF e.owned THEN np.owner ELSE 0, version |-> FreshVersion,
                  spec |-> e.spec, label |-> e.label]
      BY <1>4 DEF EditPolicy
    <2>1. FreshVersion \in Versions
      BY FreshVersionExists DEF Versions
    <2>2. np' \in Policies
      BY <1>0, <2>1 DEF Policies
    <2> QED BY <1>4, <2>2 DEF EditPolicy
  <1>5. CASE DeletePolicy
    BY <1>0, <1>5 DEF DeletePolicy, NoPolicy, Policies, Versions, Labels
  <1> QED BY <1>1, <1>2, <1>3, <1>4, <1>5

\* What Kubernetes and the informers do.
LEMMA TypeEnvironment ==
    ASSUME TypeOK, CollectAny \/ ObserveAny \/ RelistClusters
    PROVE  TypeOK'
  <1> USE ClusterResourcesAssumption DEF TypeOK, apiVars, cacheVars, counters, Disturbance
  <1>0. 0 \in Uids /\ NoPolicy \in Policies /\ NoCluster \in Clusters
    BY DEF Uids, NoPolicy, Policies, Versions, Labels, NoCluster, Clusters
  <1> DEFINE Kinds == {"added", "annotated", "deleted", "tombstone"}
  <1>n. ASSUME NEW old, NEW new, NEW deletion \in {"deleted", "tombstone"},
               Len(events) < MaxLag, Notify(old, new, deletion)
        PROVE  events' \in Seq(Kinds) /\ Len(events)' <= MaxLag
    BY <1>n DEF Notify
  <1>1. CASE \E k \in Plain : Collect(k)
    BY <1>0, <1>1 DEF Collect
  <1>2. CASE CollectPolicy
    BY <1>0, <1>2 DEF CollectPolicy
  <1>3. CASE CollectSts
    BY <1>0, <1>3 DEF CollectSts
  <1>4. CASE \E k \in Cached : Observe(k)
    BY <1>4 DEF Observe, Cached
  <1>5. CASE ObservePolicy
    BY <1>5 DEF ObservePolicy, Enqueue
  <1>6. CASE ObserveSts
    BY <1>6 DEF ObserveSts, Enqueue
  <1>7. CASE ObserveCluster
    <2>1. ncCache' \in Clusters
      BY <1>0, <1>7 DEF ObserveCluster
    <2>2. events' \in Seq(Kinds) /\ Len(events)' <= MaxLag
      BY <1>7, <1>n DEF ObserveCluster
    <2> QED BY <1>7, <2>1, <2>2 DEF ObserveCluster
  <1>8. CASE RelistClusters
    <2>1. events' \in Seq(Kinds) /\ Len(events)' <= MaxLag
      BY <1>8, <1>n DEF RelistClusters
    <2> QED BY <1>8, <2>1 DEF RelistClusters
  <1> QED BY <1>1, <1>2, <1>3, <1>4, <1>5, <1>6, <1>7, <1>8 DEF CollectAny, ObserveAny

\* The operator restarts.
LEMMA TypeRestarted ==
    ASSUME TypeOK, Restarted, UNCHANGED lastUid, disturbances' \in 0..MaxDisturbances
    PROVE  TypeOK'
  <1>1. 0 \in Uids /\ Idle \in [step : Steps, uid : Uids, expected : BOOLEAN, seen : Policies]
    BY ClusterResourcesAssumption
    DEF Uids, Idle, NoPolicy, Policies, Versions, Labels, Steps
  <1>2. cached' \in [Cached -> Uids]
    BY DEF TypeOK, Restarted, Cached
  <1>3. events' \in Seq({"added", "annotated", "deleted", "tombstone"}) /\ Len(events)' <= MaxLag
    BY ClusterResourcesAssumption DEF Restarted
  <1> QED BY <1>1, <1>2, <1>3 DEF TypeOK, Restarted, Idle

\* The handlers of NdbClusters, the resync and the restarts.
LEMMA TypeHandlers ==
    ASSUME TypeOK, HandleCluster \/ OperatorRestarts \/ Resync
    PROVE  TypeOK'
  <1> USE ClusterResourcesAssumption DEF TypeOK, apiVars, cacheVars, counters, Disturbance
  <1>1. CASE ClusterChanged
    BY <1>1 DEF ClusterChanged, Told
  <1>2. CASE ClusterDeleted
    <2>1. 0 \in Uids
      BY DEF Uids
    <2> QED BY <1>2, <2>1 DEF ClusterDeleted, Told
  <1>3. CASE TombstonePanics
    BY <1>3, TypeRestarted DEF TombstonePanics
  <1>4. CASE OperatorRestarts
    BY <1>4, TypeRestarted DEF OperatorRestarts
  <1>5. CASE Resync
    BY <1>5 DEF Resync
  <1> QED BY <1>1, <1>2, <1>3, <1>4, <1>5 DEF HandleCluster

Workers == [step : Steps, uid : Uids, expected : BOOLEAN, seen : Policies]

\* The sync.
LEMMA TypeSync ==
    ASSUME TypeOK, CallFails \/ SyncStep
    PROVE  TypeOK'
  <1> USE ClusterResourcesAssumption DEF TypeOK, apiVars, cacheVars, counters, Disturbance
  <1>0. /\ 0 \in Uids /\ NoPolicy \in Policies /\ Idle \in Workers /\ Idle.step = "idle"
        /\ FreshVersion \in Versions
    BY FreshVersionExists DEF Uids, NoPolicy, Policies, Versions, Labels, Idle, Steps, Workers
  <1>1. ASSUME NEW step \in Steps, worker.uid # 0, Goto(step)
        PROVE  worker' \in Workers /\ worker'.uid # 0
    BY <1>0, <1>1 DEF Goto, Workers
  <1>2. ASSUME Fails PROVE worker' = Idle /\ queued' \in BOOLEAN
    BY <1>2 DEF Fails
  <1>3. AfterPolicy \cup {"pdb", "np", "get", "patch"} \subseteq Steps
    BY DEF AfterPolicy, Steps
  <1>4. ASSUME NEW k, CreatePlain(k) PROVE owner' \in [Plain -> Uids]
    BY <1>4 DEF CreatePlain, Workers
  <1>5. ASSUME NEW p \in Policies, worker.uid # 0, Found(p)
        PROVE  worker' \in Workers /\ (worker'.step = "idle" \/ worker'.uid # 0) /\ queued' \in BOOLEAN
    <2>1. CASE isOwnedByNdbCluster(p)
      BY <1>3, <1>5, <2>1 DEF Found, Workers
    <2>2. CASE ~isOwnedByNdbCluster(p)
      BY <1>0, <1>2, <1>5, <2>2 DEF Found
    <2> QED BY <2>1, <2>2
  <1>6. NewManagementNetworkPolicy \in Policies
    BY <1>0 DEF NewManagementNetworkPolicy, Policies, Labels, Workers
  <1>7. CASE CallFails
    BY <1>0, <1>2, <1>7 DEF CallFails, Workers
  <1>8. CASE StartSync
    <2>1. worker' \in Workers /\ (worker'.step = "idle" \/ worker'.uid # 0)
      BY <1>0, <1>3, <1>8, OrderOfSteps DEF StartSync, Workers, Clusters
    <2> QED BY <1>8, <2>1 DEF StartSync, Workers
  <1>9. ASSUME NEW k \in Plain, EnsurePlain(k) PROVE TypeOK'
    <2>1. worker.uid # 0 /\ After[k] \in Steps
      BY <1>3, <1>9, OrderOfSteps DEF EnsurePlain, At, Plain
    <2>2. /\ worker' \in Workers /\ (worker'.step = "idle" \/ worker'.uid # 0)
          /\ queued' \in BOOLEAN /\ owner' \in [Plain -> Uids]
      <3>1. CASE k \in Cached
        BY <1>0, <1>1, <1>2, <1>4, <1>9, <2>1, <3>1 DEF EnsurePlain, EnsureCached
      <3>2. CASE k \notin Cached
        <4>1. k = "secret"
          BY <3>2 DEF Cached
        <4> QED BY <1>1, <1>4, <1>9, <2>1, <3>2, <4>1 DEF EnsurePlain, EnsureSecret
      <3> QED BY <3>1, <3>2
    <2> QED BY <1>9, <2>2 DEF EnsurePlain, Workers
  <1>10. CASE EnsureManagementNetworkPolicy
    <2>1. worker.uid # 0 /\ After["np"] \in Steps /\ "get" \in Steps
      BY <1>3, <1>10, OrderOfSteps DEF EnsureManagementNetworkPolicy, At
    <2>2. /\ worker' \in Workers /\ (worker'.step = "idle" \/ worker'.uid # 0)
          /\ queued' \in BOOLEAN /\ np' \in Policies /\ isolated' \subseteq Uids
      BY <1>1, <1>5, <1>6, <1>10, <2>1 DEF EnsureManagementNetworkPolicy, CreatePolicy, Workers
    <2> QED BY <1>10, <2>2 DEF EnsureManagementNetworkPolicy, Workers
  <1>11. CASE GetPolicy
    <2>1. worker.uid # 0
      BY <1>11 DEF GetPolicy, At
    <2>2. /\ worker' \in Workers /\ (worker'.step = "idle" \/ worker'.uid # 0)
          /\ queued' \in BOOLEAN
      BY <1>0, <1>2, <1>5, <1>11, <2>1 DEF GetPolicy
    <2> QED BY <1>11, <2>2 DEF GetPolicy, Workers
  <1>12. CASE PatchManagementNetworkPolicy
    <2>1. worker.uid # 0 /\ After["np"] \in Steps
      BY <1>3, <1>12, OrderOfSteps DEF PatchManagementNetworkPolicy, At
    <2>2. /\ worker' \in Workers /\ (worker'.step = "idle" \/ worker'.uid # 0)
          /\ queued' \in BOOLEAN /\ np' \in Policies
      BY <1>0, <1>1, <1>2, <1>6, <1>12, <2>1 DEF PatchManagementNetworkPolicy
    <2> QED BY <1>12, <2>2 DEF PatchManagementNetworkPolicy, Workers
  <1>13. CASE GetStatefulSet
    <2>1. worker.uid # 0 /\ After["sts"] \in Steps
      BY <1>3, <1>13, OrderOfSteps DEF GetStatefulSet, At
    <2>2. /\ worker' \in Workers /\ (worker'.step = "idle" \/ worker'.uid # 0)
          /\ queued' \in BOOLEAN /\ cluster' \in Clusters
      BY <1>0, <1>1, <1>2, <1>13, <2>1 DEF GetStatefulSet, Stops, Processed, Clusters
    <2> QED BY <1>13, <2>2 DEF GetStatefulSet, Workers
  <1>14. CASE CreateStatefulSet
    BY <1>0, <1>14 DEF CreateStatefulSet, Stops, Claims, Workers
  <1> QED BY <1>7, <1>8, <1>9, <1>10, <1>11, <1>12, <1>13, <1>14 DEF SyncStep

LEMMA TypeStep == TypeOK /\ [Next]_vars => TypeOK'
  <1> SUFFICES ASSUME TypeOK, [Next]_vars PROVE TypeOK'
    OBVIOUS
  <1>1. CASE UNCHANGED vars
    BY <1>1 DEF vars, apiVars, cacheVars, counters, TypeOK
  <1>2. CASE Next
    BY <1>2, TypeUsers, TypeEnvironment, TypeHandlers, TypeSync DEF Next
  <1> QED BY <1>1, <1>2

\* Every variable keeps its type, and only NdbClusters from the cache are synced.
THEOREM TypeCorrect == Spec => []TypeOK
  BY TypeInit, TypeStep, PTL DEF Spec

-----------------------------------------------------------------------------
(* Isolation *)

\* Whoever owns a copy of the policy has been isolated by it.
OwnersIsolated ==
    /\ np.owner \in isolated \cup {0}
    /\ npCache.owner \in isolated \cup {0}
    /\ worker.seen.owner \in isolated \cup {0}

\* A resource that does not expect the policy had opted out.
OptedOut ==
    /\ cluster.expected \/ cluster.uid \in isolated \cup {0}
    /\ ncCache.expected \/ ncCache.uid \in isolated \cup {0}
    /\ worker.expected \/ worker.uid \in isolated \cup {0}

\* Past the policy, the incarnation that is being synced is isolated.
SyncIsolated ==
    /\ worker.step \in AfterPolicy => worker.uid \in isolated
    /\ worker.step = "patch" => worker.seen.owner = worker.uid

\* The inductive invariant.
IsolationInv == IsolatedFirst /\ OwnersIsolated /\ OptedOut /\ SyncIsolated

\* A step that changes nothing the invariant is about, save for fewer objects or owners.
LEMMA IsolationKept ==
    ASSUME IsolationInv,
           isolated \subseteq isolated',
           \A k \in Plain : owner'[k] \in {owner[k], 0},
           sts' \in {sts, 0},
           np'.owner \in {np.owner, 0},
           npCache'.owner \in {npCache.owner, np.owner, 0},
           cluster'.expected \/ cluster'.uid \in {0} \cup isolated,
           ncCache'.expected \/ ncCache'.uid \in {0} \cup isolated,
           worker' = worker \/ worker' = Idle
    PROVE  IsolationInv'
  <1>1. OwnersIsolated' /\ OptedOut' /\ SyncIsolated'
    <2>1. Idle.step \notin AfterPolicy \cup {"patch"} /\ Idle.uid = 0 /\ Idle.seen.owner = 0
      BY DEF Idle, NoPolicy, AfterPolicy
    <2> QED BY <2>1 DEF IsolationInv, OwnersIsolated, OptedOut, SyncIsolated
  <1>2. IsolatedFirst'
    BY DEF IsolationInv, IsolatedFirst
  <1> QED BY <1>1, <1>2 DEF IsolationInv

LEMMA IsolationInit == Init => IsolationInv
  <1> SUFFICES ASSUME Init PROVE IsolationInv
    OBVIOUS
  <1> PICK legacy \in Legacy :
         LET u == IF legacy THEN 1 ELSE 0 IN
         /\ cluster = [uid |-> u, expected |-> FALSE, processed |-> legacy]
         /\ owner = [k \in Plain |-> u]
         /\ isolated = {u} \ {0}
         /\ sts = u /\ pvc = Claims(u) /\ lastUid = u /\ queued = legacy
    BY DEF Init
  <1>1. IsolatedFirst
    BY DEF IsolatedFirst
  <1>2. OwnersIsolated /\ OptedOut /\ SyncIsolated
    BY DEF Init, OwnersIsolated, OptedOut, SyncIsolated, NoPolicy, Idle, AfterPolicy
  <1> QED BY <1>1, <1>2 DEF IsolationInv

\* Everything but the sync.
LEMMA IsolationEnvironment ==
    ASSUME TypeOK, IsolationInv,
           \/ CreateCluster \/ EnablePolicy \/ DeleteCluster \/ EditPolicy \/ DeletePolicy
           \/ CollectAny \/ ObserveAny \/ RelistClusters
           \/ HandleCluster \/ OperatorRestarts \/ Resync
           \/ CallFails \/ (StartSync /\ ncCache.uid = 0)
    PROVE  IsolationInv'
  <1> USE DEF apiVars, cacheVars, counters
  <1>0. OptedOut
    BY DEF IsolationInv
  <1>1. CASE CreateCluster
    BY <1>0, <1>1, IsolationKept DEF CreateCluster, OptedOut
  <1>2. CASE EnablePolicy
    BY <1>0, <1>2, IsolationKept DEF EnablePolicy, OptedOut, TypeOK, Clusters
  <1>3. CASE DeleteCluster
    BY <1>0, <1>3, IsolationKept DEF DeleteCluster, OptedOut, NoCluster
  <1>4. CASE EditPolicy
    BY <1>0, <1>4, IsolationKept DEF EditPolicy, OptedOut
  <1>5. CASE DeletePolicy
    BY <1>0, <1>5, IsolationKept DEF DeletePolicy, OptedOut, NoPolicy
  <1>6. CASE \E k \in Plain : Collect(k)
    BY <1>0, <1>6, IsolationKept DEF Collect, OptedOut, TypeOK
  <1>7. CASE CollectPolicy
    BY <1>0, <1>7, IsolationKept DEF CollectPolicy, OptedOut, NoPolicy
  <1>8. CASE CollectSts
    BY <1>0, <1>8, IsolationKept DEF CollectSts, OptedOut
  <1>9. CASE \E k \in Cached : Observe(k)
    BY <1>0, <1>9, IsolationKept DEF Observe, OptedOut
  <1>10. CASE ObservePolicy
    BY <1>0, <1>10, IsolationKept DEF ObservePolicy, OptedOut
  <1>11. CASE ObserveSts
    BY <1>0, <1>11, IsolationKept DEF ObserveSts, OptedOut
  <1>12. CASE ObserveCluster
    BY <1>0, <1>12, IsolationKept DEF ObserveCluster, OptedOut, NoCluster
  <1>13. CASE RelistClusters
    BY <1>0, <1>13, IsolationKept DEF RelistClusters, OptedOut
  <1>14. CASE ClusterChanged
    BY <1>0, <1>14, IsolationKept DEF ClusterChanged, OptedOut
  <1>15. CASE ClusterDeleted
    BY <1>0, <1>15, IsolationKept DEF ClusterDeleted, OptedOut
  <1>16. CASE Restarted
    BY <1>0, <1>16, IsolationKept DEF Restarted, OptedOut
  <1>17. CASE Resync
    BY <1>0, <1>17, IsolationKept DEF Resync, OptedOut
  <1>18. CASE CallFails
    BY <1>0, <1>18, IsolationKept DEF CallFails, Fails, OptedOut
  <1>19. CASE StartSync /\ ncCache.uid = 0
    BY <1>0, <1>19, IsolationKept DEF StartSync, OptedOut
  <1> QED
    BY <1>1, <1>2, <1>3, <1>4, <1>5, <1>6, <1>7, <1>8, <1>9, <1>10, <1>11, <1>12, <1>13, <1>14,
       <1>15, <1>16, <1>17, <1>18, <1>19
    DEF CollectAny, ObserveAny, HandleCluster, TombstonePanics, OperatorRestarts

LEMMA IsolationSync ==
    ASSUME TypeOK, IsolationInv, SyncStep
    PROVE  IsolationInv'
  <1> USE DEF apiVars, cacheVars, counters
  <1>0. /\ IsolatedFirst /\ OwnersIsolated /\ OptedOut /\ SyncIsolated
        /\ worker \in Workers /\ (worker.step = "idle" \/ worker.uid # 0)
    BY DEF IsolationInv, TypeOK, Workers
  <1>1. CASE StartSync
    <2>1. CASE ncCache.uid = 0
      BY <1>1, <2>1, IsolationEnvironment
    <2>2. CASE ncCache.uid # 0
      <3>1. worker' = [step |-> FirstStep, uid |-> ncCache.uid, expected |-> ncCache.expected,
                       seen |-> NoPolicy]
        BY <1>1, <2>2 DEF StartSync
      <3>2. SyncIsolated'
        BY <3>1, OrderOfSteps DEF SyncIsolated, AfterPolicy
      <3>3. OwnersIsolated' /\ OptedOut'
        BY <1>0, <1>1, <3>1 DEF StartSync, OwnersIsolated, OptedOut, NoPolicy
      <3>4. IsolatedFirst'
        BY <1>0, <1>1 DEF StartSync, IsolatedFirst
      <3> QED BY <3>2, <3>3, <3>4 DEF IsolationInv
    <2> QED BY <2>1, <2>2
  <1>2. ASSUME NEW k \in Plain, EnsurePlain(k) PROVE IsolationInv'
    <2>1. k \in {"pdb", "secret", "svc", "sa"} /\ worker.step = k
      BY <1>2, ClusterResourcesAssumption DEF EnsurePlain, At, Plain
    <2>2. CASE Fails /\ UNCHANGED owner
      BY <1>0, <1>2, <2>2, IsolationKept DEF EnsurePlain, Fails, OptedOut
    <2>3. CASE Goto(After[k]) /\ (UNCHANGED owner \/ CreatePlain(k))
      <3>1. /\ worker' = [worker EXCEPT !.step = After[k], !.seen = NoPolicy]
            /\ UNCHANGED <<np, npCache, cluster, ncCache, sts, isolated>>
        BY <1>2, <2>3 DEF EnsurePlain, Goto
      <3>2. SyncIsolated'
        BY <1>0, <2>1, <3>1, OrderOfSteps DEF SyncIsolated, AfterPolicy
      <3>3. OwnersIsolated' /\ OptedOut'
        BY <1>0, <3>1 DEF OwnersIsolated, OptedOut, NoPolicy
      <3>4. \A j \in Plain : owner'[j] \in {owner[j], IF j = k THEN worker.uid ELSE owner[j]}
        BY <2>3 DEF CreatePlain, TypeOK
      <3>5. k = "svc" => worker.uid \in isolated
        BY <1>0, <2>1 DEF SyncIsolated, AfterPolicy
      <3>6. IsolatedFirst'
        BY <1>0, <3>1, <3>4, <3>5 DEF IsolatedFirst
      <3> QED BY <3>2, <3>3, <3>6 DEF IsolationInv
    <2> QED BY <1>2, <2>2, <2>3, <2>1 DEF EnsurePlain, EnsureCached, EnsureSecret, Cached
  <1>3. ASSUME NEW p \in {np, npCache}, Found(p), worker.uid # 0,
               UNCHANGED <<np, npCache, cluster, ncCache, sts, owner, isolated>>
        PROVE  IsolationInv'
    <2>1. CASE ~isOwnedByNdbCluster(p)
      BY <1>0, <1>3, <2>1, IsolationKept DEF Found, Fails, OptedOut
    <2>2. CASE isOwnedByNdbCluster(p)
      <3>1. worker' = [worker EXCEPT !.step = "patch", !.seen = p] /\ p.owner = worker.uid
        BY <1>3, <2>2 DEF Found, isOwnedByNdbCluster
      <3>2. OwnersIsolated' /\ OptedOut' /\ SyncIsolated'
        BY <1>0, <1>3, <3>1 DEF OwnersIsolated, OptedOut, SyncIsolated, AfterPolicy
      <3>3. IsolatedFirst'
        BY <1>0, <1>3 DEF IsolatedFirst
      <3> QED BY <3>2, <3>3 DEF IsolationInv
    <2> QED BY <2>1, <2>2
  <1>4. ASSUME Goto(After["np"]), worker.uid \in isolated', isolated \subseteq isolated',
               np' = np \/ np'.owner = worker.uid,
               UNCHANGED <<npCache, cluster, ncCache, sts, owner>>
        PROVE  IsolationInv'
    <2>1. worker' = [worker EXCEPT !.step = After["np"], !.seen = NoPolicy]
      BY <1>4 DEF Goto
    <2>2. OwnersIsolated' /\ OptedOut'
      BY <1>0, <1>4, <2>1 DEF OwnersIsolated, OptedOut, NoPolicy
    <2>3. SyncIsolated'
      BY <1>0, <1>4, <2>1, OrderOfSteps DEF SyncIsolated, AfterPolicy
    <2>4. IsolatedFirst'
      BY <1>0, <1>4 DEF IsolatedFirst
    <2> QED BY <2>2, <2>3, <2>4 DEF IsolationInv
  <1>5. CASE EnsureManagementNetworkPolicy
    <2>1. worker.uid # 0
      BY <1>0, <1>5 DEF EnsureManagementNetworkPolicy, At
    <2>2. CASE ~worker.expected /\ Goto(After["np"]) /\ UNCHANGED <<np, isolated>>
      BY <1>0, <1>4, <1>5, <2>1, <2>2 DEF EnsureManagementNetworkPolicy, OptedOut
    <2>3. CASE Found(npCache) /\ UNCHANGED <<np, isolated>>
      BY <1>3, <1>5, <2>1, <2>3 DEF EnsureManagementNetworkPolicy
    <2>4. CASE CreatePolicy
      BY <1>4, <1>5, <2>4 DEF EnsureManagementNetworkPolicy, CreatePolicy, NewManagementNetworkPolicy
    <2>5. CASE Goto("get") /\ UNCHANGED <<np, isolated>>
      <3>1. worker' = [worker EXCEPT !.step = "get", !.seen = NoPolicy]
        BY <2>5 DEF Goto
      <3>2. OwnersIsolated' /\ OptedOut' /\ SyncIsolated'
        BY <1>0, <1>5, <2>5, <3>1
        DEF EnsureManagementNetworkPolicy, OwnersIsolated, OptedOut, SyncIsolated, AfterPolicy, NoPolicy
      <3>3. IsolatedFirst'
        BY <1>0, <1>5, <2>5 DEF EnsureManagementNetworkPolicy, IsolatedFirst
      <3> QED BY <3>2, <3>3 DEF IsolationInv
    <2> QED BY <1>5, <2>2, <2>3, <2>4, <2>5 DEF EnsureManagementNetworkPolicy
  <1>6. CASE GetPolicy
    <2>1. worker.uid # 0
      BY <1>0, <1>6 DEF GetPolicy, At
    <2>2. CASE Fails
      BY <1>0, <1>6, <2>2, IsolationKept DEF GetPolicy, Fails, OptedOut
    <2>3. CASE Found(np)
      BY <1>3, <1>6, <2>1, <2>3 DEF GetPolicy
    <2> QED BY <1>6, <2>2, <2>3 DEF GetPolicy
  <1>7. CASE PatchManagementNetworkPolicy
    <2>1. worker.uid \in isolated
      BY <1>0, <1>7 DEF PatchManagementNetworkPolicy, At, SyncIsolated, OwnersIsolated
    <2>2. CASE Fails /\ UNCHANGED np
      BY <1>0, <1>7, <2>2, IsolationKept DEF PatchManagementNetworkPolicy, Fails, OptedOut
    <2>3. CASE Goto(After["np"]) /\ (UNCHANGED np \/ np' = NewManagementNetworkPolicy)
      BY <1>4, <1>7, <2>1, <2>3 DEF PatchManagementNetworkPolicy, NewManagementNetworkPolicy
    <2> QED BY <1>7, <2>2, <2>3 DEF PatchManagementNetworkPolicy
  <1>8. CASE GetStatefulSet
    <2>1. CASE stsCache = 0 /\ Goto(After["sts"]) /\ UNCHANGED cluster
      <3>1. /\ worker' = [worker EXCEPT !.step = After["sts"], !.seen = NoPolicy]
            /\ worker.step = "sts"
        BY <1>8, <2>1 DEF GetStatefulSet, Goto, At
      <3>2. SyncIsolated'
        BY <1>0, <1>8, <3>1, OrderOfSteps DEF GetStatefulSet, SyncIsolated, AfterPolicy
      <3>3. OwnersIsolated' /\ OptedOut'
        BY <1>0, <1>8, <2>1, <3>1 DEF GetStatefulSet, OwnersIsolated, OptedOut, NoPolicy
      <3>4. IsolatedFirst'
        BY <1>0, <1>8 DEF GetStatefulSet, IsolatedFirst
      <3> QED BY <3>2, <3>3, <3>4 DEF IsolationInv
    <2>2. CASE worker' = Idle /\ (UNCHANGED cluster \/ Processed)
      BY <1>0, <1>8, <2>2, IsolationKept DEF GetStatefulSet, Processed, OptedOut, TypeOK, Clusters
    <2> QED BY <1>8, <2>1, <2>2 DEF GetStatefulSet, Stops, Fails
  <1>9. CASE CreateStatefulSet
    <2>1. worker' = Idle /\ worker.uid \in isolated /\ sts' \in {sts, worker.uid}
      BY <1>0, <1>9 DEF CreateStatefulSet, Stops, At, SyncIsolated, AfterPolicy
    <2>2. OwnersIsolated' /\ OptedOut' /\ SyncIsolated'
      BY <1>0, <1>9, <2>1
      DEF CreateStatefulSet, OwnersIsolated, OptedOut, SyncIsolated, AfterPolicy, Idle, NoPolicy
    <2>3. IsolatedFirst'
      BY <1>0, <1>9, <2>1 DEF CreateStatefulSet, IsolatedFirst
    <2> QED BY <2>2, <2>3 DEF IsolationInv
  <1> QED BY <1>1, <1>2, <1>5, <1>6, <1>7, <1>8, <1>9 DEF SyncStep

LEMMA IsolationStep == TypeOK /\ IsolationInv /\ [Next]_vars => IsolationInv'
  <1> SUFFICES ASSUME TypeOK, IsolationInv, [Next]_vars PROVE IsolationInv'
    OBVIOUS
  <1>1. CASE UNCHANGED vars
    BY <1>1
    DEF vars, apiVars, cacheVars, counters, IsolationInv, IsolatedFirst, OwnersIsolated, OptedOut,
        SyncIsolated
  <1>2. CASE Next
    <2>1. CASE SyncStep
      BY <2>1, IsolationSync
    <2>2. CASE ~SyncStep
      BY <1>2, <2>2, IsolationEnvironment DEF Next
    <2> QED BY <2>1, <2>2
  <1> QED BY <1>1, <1>2

\* No incarnation of the NdbCluster has a governing Service or a StatefulSet before a
\* management NetworkPolicy of its own (or its opt-out): ensureAllResources.
THEOREM IsolationFirst == Spec => []IsolatedFirst
  <1>1. TypeOK /\ IsolationInv /\ [Next]_vars => (TypeOK /\ IsolationInv)'
    BY TypeStep, IsolationStep
  <1>2. IsolationInv => IsolatedFirst
    BY DEF IsolationInv
  <1> QED BY <1>1, <1>2, TypeInit, IsolationInit, PTL DEF Spec

-----------------------------------------------------------------------------
(* Drift repair *)

\* The policy and what the informer and the sync know of it, or that there is none.
Copies == {np, npCache, worker.seen, NoPolicy}

\* A resourceVersion names one content.
CopiesAgree == \A p, q \in Copies : p.version = q.version => p = q

LEMMA CopiesKept ==
    ASSUME TypeOK, CopiesAgree,
           np' \in Copies \/ np'.version = FreshVersion,
           npCache' \in Copies, worker'.seen \in Copies
    PROVE  CopiesAgree'
  <1>1. \A p \in Copies : p.version # FreshVersion
    BY FreshVersionExists DEF Copies, NoPolicy
  <1>2. CASE np' \in Copies
    BY <1>2 DEF CopiesAgree, Copies
  <1>3. CASE np'.version = FreshVersion
    <2>1. Copies' = {np', npCache', worker'.seen, NoPolicy} /\ NoPolicy \in Copies
      BY DEF Copies
    <2> QED BY <1>1, <1>3, <2>1 DEF CopiesAgree
  <1> QED BY <1>2, <1>3

LEMMA CopiesInit == Init => CopiesAgree
  BY DEF Init, CopiesAgree, Copies, Idle

LEMMA CopiesStep == TypeOK /\ CopiesAgree /\ [Next]_vars => CopiesAgree'
  <1> SUFFICES ASSUME TypeOK, CopiesAgree, [Next]_vars PROVE CopiesAgree'
    OBVIOUS
  <1> USE DEF apiVars, cacheVars, counters
  <1>0. Idle.seen = NoPolicy /\ \A step : Goto(step) => worker'.seen = NoPolicy
    BY DEF Idle, Goto, TypeOK
  <1>1. CASE UNCHANGED vars
    BY <1>1, CopiesKept DEF vars, Copies
  <1>2. CASE CreateCluster \/ EnablePolicy \/ DeleteCluster \/ DeletePolicy
    BY <1>2, CopiesKept DEF CreateCluster, EnablePolicy, DeleteCluster, DeletePolicy, Copies
  <1>3. CASE EditPolicy
    BY <1>3, CopiesKept DEF EditPolicy, Copies
  <1>4. CASE CollectAny
    BY <1>4, CopiesKept DEF CollectAny, Collect, CollectPolicy, CollectSts, Copies
  <1>5. CASE ObserveAny \/ RelistClusters
    <2>1. UNCHANGED <<np, worker>> /\ npCache' \in {np, npCache}
      BY <1>5
      DEF ObserveAny, Observe, ObservePolicy, ObserveSts, ObserveCluster, RelistClusters
    <2> QED BY <2>1, CopiesKept DEF Copies
  <1>6. CASE ClusterChanged \/ ClusterDeleted \/ Resync
    BY <1>6, CopiesKept DEF ClusterChanged, ClusterDeleted, Resync, Copies
  <1>7. CASE Restarted
    BY <1>0, <1>7, CopiesKept DEF Restarted, Copies
  <1>8. CASE CallFails \/ StartSync
    BY <1>0, <1>8, CopiesKept DEF CallFails, Fails, StartSync, Copies
  <1>9. CASE \E k \in Plain : EnsurePlain(k)
    BY <1>0, <1>9, CopiesKept DEF EnsurePlain, EnsureCached, EnsureSecret, Fails, Copies
  <1>10. ASSUME NEW p \in Copies, Found(p) PROVE worker'.seen \in Copies
    BY <1>0, <1>10 DEF Found, Fails, Copies, TypeOK
  <1>11. CASE EnsureManagementNetworkPolicy
    <2>1. worker'.seen \in Copies
      BY <1>0, <1>10, <1>11 DEF EnsureManagementNetworkPolicy, CreatePolicy, Copies
    <2>2. np' \in Copies \/ np'.version = FreshVersion
      BY <1>11 DEF EnsureManagementNetworkPolicy, CreatePolicy, NewManagementNetworkPolicy, Copies
    <2> QED BY <1>11, <2>1, <2>2, CopiesKept DEF EnsureManagementNetworkPolicy, Copies
  <1>12. CASE GetPolicy
    BY <1>0, <1>10, <1>12, CopiesKept DEF GetPolicy, Fails, Copies
  <1>13. CASE PatchManagementNetworkPolicy
    BY <1>0, <1>13, CopiesKept
    DEF PatchManagementNetworkPolicy, Fails, NewManagementNetworkPolicy, Copies
  <1>14. CASE GetStatefulSet \/ CreateStatefulSet
    BY <1>0, <1>14, CopiesKept DEF GetStatefulSet, CreateStatefulSet, Stops, Fails, Copies
  <1> QED
    BY <1>1, <1>2, <1>3, <1>4, <1>5, <1>6, <1>7, <1>8, <1>9, <1>11, <1>12, <1>13, <1>14
    DEF Next, SyncStep, HandleCluster, TombstonePanics, OperatorRestarts

\* PatchManagementNetworkPolicy replaces only the content it has read, and only a policy
\* of the incarnation it works for.
THEOREM DriftRepairSafe == Spec => NoConcurrentEditLost
  <1> DEFINE Inv == TypeOK /\ IsolationInv /\ CopiesAgree
             Safe == worker.step = "patch" /\ worker'.step = After["np"] /\ np' # np
                       => np = worker.seen /\ np.owner = worker.uid
  <1>1. Init => Inv
    BY TypeInit, IsolationInit, CopiesInit
  <1>2. Inv /\ [Next]_vars => Inv'
    BY TypeStep, IsolationStep, CopiesStep
  <1>3. Inv /\ [Next]_vars => [Safe]_vars
    <2> SUFFICES ASSUME Inv, Next, worker.step = "patch", worker'.step = After["np"], np' # np
                 PROVE  np = worker.seen /\ np.owner = worker.uid
      OBVIOUS
    <2>1. After["np"] \notin {"patch", "idle"} /\ Idle.step = "idle"
      BY OrderOfSteps DEF AfterPolicy, Idle
    <2>2. worker' # worker /\ worker' # Idle
      BY <2>1
    <2>3. PatchManagementNetworkPolicy
      <3>1. ~(CreateCluster \/ EnablePolicy \/ DeleteCluster \/ EditPolicy \/ DeletePolicy)
        BY <2>2 DEF CreateCluster, EnablePolicy, DeleteCluster, EditPolicy, DeletePolicy
      <3>2. ~(CollectAny \/ ObserveAny \/ RelistClusters)
        BY <2>2
        DEF CollectAny, Collect, CollectPolicy, CollectSts, ObserveAny, Observe, ObservePolicy,
            ObserveSts, ObserveCluster, RelistClusters
      <3>3. ~(HandleCluster \/ OperatorRestarts \/ Resync \/ CallFails)
        BY <2>2
        DEF HandleCluster, ClusterChanged, ClusterDeleted, TombstonePanics, OperatorRestarts,
            Restarted, Resync, CallFails, Fails
      <3>4. ~(StartSync \/ EnsureManagementNetworkPolicy \/ GetPolicy \/ GetStatefulSet \/ CreateStatefulSet)
        BY DEF StartSync, EnsureManagementNetworkPolicy, GetPolicy, GetStatefulSet,
               CreateStatefulSet, At
      <3>5. ~ \E k \in Plain : EnsurePlain(k)
        BY ClusterResourcesAssumption DEF EnsurePlain, At, Plain
      <3> QED BY <3>1, <3>2, <3>3, <3>4, <3>5 DEF Next, SyncStep
    <2>4. PatchAccepted
      BY <2>3 DEF PatchManagementNetworkPolicy
    <2> QED BY <2>4 DEF PatchAccepted, CopiesAgree, Copies, IsolationInv, SyncIsolated
  <1> QED BY <1>1, <1>2, <1>3, PTL DEF Spec, NoConcurrentEditLost
=============================================================================
