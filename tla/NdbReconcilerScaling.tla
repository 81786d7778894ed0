
------------------------ MODULE NdbReconcilerScaling ------------------------
(***************************************************************************)
(* Proofs about the numbers in NdbReconciler: the replicas of the          *)
(* management and data nodes at a processed generation; and that           *)
(* NdbReconciler implements UpdateContract.  No spec is erroneous.         *)
(***************************************************************************)
EXTENDS NdbReconcilerSafety

-----------------------------------------------------------------------------
(* What the other proofs have established *)

\* The inductive invariants of NdbReconcilerProofs and NdbReconcilerSafety.
Base == IndInv /\ Origins /\ Existence /\ NoErrors /\ RollInv /\ FlagInv

\* The step is no update of the spec.
Stable == nc'.gen = nc.gen /\ specs' = specs

\* If no spec is erroneous, all of this holds.
LEMMA Basis ==
    ASSUME MayFail = {}
    PROVE  Spec => []Base
  <1>1. Init => FlagInv
    BY FlagInit
  <1>2. IndInv /\ Existence /\ NoErrors /\ RollInv /\ FlagInv /\ [Next]_vars => FlagInv'
    BY FlagStep
  <1>. QED
    BY <1>1, <1>2, Undisturbed, PTL DEF Spec, Base

\* An update of the spec changes the NdbCluster only, and finds the last
\* generation processed.
LEMMA Updated ==
    ASSUME Base, UpdateSpec
    PROVE  /\ nc'.gen = nc.gen + 1 /\ nc'.status = nc.status /\ nc.status.proc = nc.gen
           /\ \A g \in Gens : g <= nc.gen => specs'[g] = specs[g]
           /\ UNCHANGED <<cm, sf, ndb, rolled, caches, dirty, pc, sc, faults>>
           /\ nc.gen \in Gens /\ nc'.gen \in Gens
  <1>1. nc \in NdbClusters /\ nc.gen \in Gens /\ nc.gen \in Nat
    BY Numbers DEF Base, IndInv, TypeOK, Flow
  <1>2. nc' = [nc EXCEPT !.gen = @ + 1]
    BY DEF UpdateSpec
  <1>3. nc'.gen = nc.gen + 1 /\ nc'.status = nc.status
    BY <1>1, <1>2 DEF NdbClusters
  <1>4. nc.status.proc = nc.gen
    BY DEF UpdateSpec, validateUpdate, Base, NoErrors
  <1>5. \A g \in Gens : g <= nc.gen => specs'[g] = specs[g]
    BY LevelGrows DEF Next, Base
  <1>. QED
    BY <1>1, <1>3, <1>4, <1>5, LevelGrows DEF UpdateSpec, Next, Base

\* Either the spec is updated, or it stays.
LEMMA StableOrUpdated ==
    ASSUME Base, [Next]_vars
    PROVE  UpdateSpec \/ Stable
  BY GenMoves DEF Base, Stable

\* The ranges and the order of the numbers.
LEMMA Ranges ==
    ASSUME Base
    PROVE  /\ nc.gen \in Gens /\ nc.gen \in Nat /\ nc.gen >= 1
           /\ \A g \in Gens : g \in Nat /\ g >= 1
           /\ cm.gen \in Nat /\ cm.gen <= nc.gen /\ cmCache.gen \in Nat /\ cmCache.gen <= cm.gen
           /\ Level \in Gens /\ Level <= nc.gen
           /\ \A w \in Workloads :
                 /\ nc.gen <= sf[w].gen + 1 /\ sf[w].gen <= cm.gen
                 /\ nc.gen > 1 => Exists(sf[w])
                 /\ \A s \in Views(w) :
                       /\ s \in Sfsets /\ s.gen \in Nat /\ s.gen <= sf[w].gen /\ s.gen <= nc.gen
                       /\ s.spec \in Nat /\ s.reps \in Nat /\ s.stat \in Nat /\ s.outdated \in Nat
                       /\ s.spec <= sf[w].spec
                       /\ s.gen \in Gens <=> Exists(s)
                       /\ s.gen > 0 <=> Exists(s)
                       /\ ~Exists(s) => s.reps = 0
           /\ pc \in Configured => /\ sc.cs.gen \in Gens /\ sc.nc.gen \in Gens
                                   /\ sc.cs.gen \in Nat /\ sc.nc.gen \in Nat
                                   /\ sc.cs.gen <= cm.gen /\ cm.gen <= sc.nc.gen
                                   /\ sc.nc.gen <= nc.gen /\ nc.gen <= sc.cs.gen + 1
                                   /\ \A w \in Workloads : sf[w].gen <= sc.cs.gen
  <1>1. /\ nc.gen \in Gens /\ Level \in Gens /\ Level <= nc.gen
        /\ \A g \in Gens : g \in Nat /\ g >= 1
    <2>1. Level \in Gens /\ Level <= nc.gen
      <3>1. ncCache.gen \in Gens /\ ncCache.gen <= nc.gen
        BY DEF Base, IndInv, Flow
      <3>2. pc # "idle" => sc.nc.gen \in Gens /\ sc.nc.gen <= ncCache.gen
        BY DEF Base, IndInv, SyncFlow
      <3>. QED
        BY <3>1, <3>2, Numbers DEF Level, Base
    <2>2. \A g \in Gens : g \in Nat /\ g >= 1
      BY ConstantsAssumption DEF Gens
    <2>. QED
      BY <2>1, <2>2 DEF Base, IndInv, Flow
  <1>2. cm.gen \in Nat /\ cmCache.gen \in Nat /\ cm.gen <= nc.gen /\ cmCache.gen <= cm.gen
    <2>1. cm.gen <= ncCache.gen /\ ncCache.gen <= nc.gen /\ cmCache.gen <= cm.gen
      BY DEF Base, IndInv, Flow
    <2>. QED
      BY <2>1, Numbers DEF Base
  <1>3. ASSUME NEW w \in Workloads
        PROVE  /\ nc.gen <= sf[w].gen + 1 /\ sf[w].gen <= cm.gen /\ sf[w].gen \in Nat
               /\ nc.gen > 1 => Exists(sf[w])
    <2>1. nc.gen <= rolled[w] + 1 /\ rolled[w] <= sf[w].gen /\ sf[w].gen <= cm.gen
      BY DEF Base, RollInv, Rollouts, IndInv, Flow
    <2>2. rolled[w] \in Nat /\ sf[w].gen \in Nat
      BY Numbers DEF Base, IndInv, TypeOK
    <2>3. nc.gen > 1 => sf[w].gen \in Gens
      BY <1>1, <1>2, <2>1, <2>2, ConstantsAssumption DEF Gens
    <2>. QED
      BY <1>1, <2>1, <2>2, <2>3 DEF Base, Existence, Views
  <1>4. ASSUME NEW w \in Workloads, NEW s \in Views(w)
        PROVE  /\ s \in Sfsets /\ s.gen \in Nat /\ s.gen <= sf[w].gen /\ s.gen <= nc.gen
               /\ s.spec \in Nat /\ s.reps \in Nat /\ s.stat \in Nat /\ s.outdated \in Nat
               /\ s.spec <= sf[w].spec
               /\ s.gen \in Gens <=> Exists(s)
               /\ s.gen > 0 <=> Exists(s)
               /\ ~Exists(s) => s.reps = 0
    <2>1. s \in Sfsets
      BY DEF Views, Base, IndInv, TypeOK
    <2>2. s.gen \in 0..MaxGen /\ s.spec \in Nat /\ s.reps \in Nat /\ s.stat \in Nat /\ s.outdated \in Nat
      BY <2>1, ConstantsAssumption DEF Sfsets
    <2>3. s.gen \in Nat /\ s.gen <= sf[w].gen
      <3>1. sfCache[w].gen <= sf[w].gen /\ sc.sf[w].gen <= sf[w].gen
        BY DEF Base, IndInv, Copies
      <3>. QED
        BY <3>1, Numbers DEF Views, Base
    <2>4. s.spec <= sf[w].spec /\ (s.gen \in Gens <=> Exists(s)) /\ (Exists(s) \/ s.reps = 0)
      BY DEF Base, RollInv, Revisions, Existence
    <2>5. s.gen > 0 <=> s.gen \in Gens
      BY <2>2, ConstantsAssumption DEF Gens
    <2>. QED
      BY <1>1, <1>2, <1>3, <2>1, <2>2, <2>3, <2>4, <2>5
  <1>5. ASSUME pc \in Configured
        PROVE  /\ sc.cs.gen \in Gens /\ sc.nc.gen \in Gens
               /\ sc.cs.gen \in Nat /\ sc.nc.gen \in Nat
               /\ sc.cs.gen <= cm.gen /\ cm.gen <= sc.nc.gen
               /\ sc.nc.gen <= nc.gen /\ nc.gen <= sc.cs.gen + 1
               /\ \A w \in Workloads : sf[w].gen <= sc.cs.gen
    <2>1. pc # "idle"
      BY <1>5 DEF Configured, Steps
    <2>2. sc.cs.gen <= cm.gen /\ cm.gen <= sc.nc.gen /\ sc.nc.gen <= ncCache.gen /\ ncCache.gen <= nc.gen
      BY <1>5, <2>1 DEF Base, IndInv, Flow, SyncFlow
    <2>3. sc.cs.gen \in Gens /\ sc.nc.gen \in Gens /\ \A w \in Workloads : sf[w].gen <= sc.cs.gen
      BY <1>5, <2>1 DEF Base, IndInv, SyncFlow
    <2>4. nc.gen <= sf["mgmd"].gen + 1 /\ sf["mgmd"].gen \in Nat /\ sf["mgmd"].gen <= sc.cs.gen
      BY <1>3, <2>3 DEF Workloads
    <2>. QED
      BY <1>1, <2>2, <2>3, <2>4, Numbers DEF Base
  <1>. QED
    BY <1>1, <1>2, <1>3, <1>4, <1>5
-----------------------------------------------------------------------------
(* What the steps of a sync write *)

\* Only a sync writes what a StatefulSet asks for.
LEMMA SyncWrites ==
    ASSUME Base, [Next]_vars, NEW w \in Workloads, ~Kept(w)
    PROVE  SyncStep /\ pc \in Steps
  <1>1. IndInv
    BY DEF Base
  <1>2. sf' # sf
    BY DEF Kept
  <1>3. ~(Kubernetes \/ \E v \in Workloads : PodDisrupted(v))
    BY <1>1, PodWrites DEF Kubernetes
  <1>4. SyncStep
    BY <1>2, <1>3 DEF Next, vars, cluster, SyncBegin, Informers, DeliverNdbCluster, Resync,
       DeliverConfigMap, DeliverStatefulSets, DeliverPods, UpdateSpec, StepFails, FailSync,
       CreateNodeGroupFails, StatusUpdateFails, RelistStatefulSets, OperatorRestart
  <1>5. pc \in Steps
    BY <1>4 DEF SyncStep, EnsureConfigMap, PatchConfigMapOnError,
       EnsureManagementServerStatefulSet, EnsureDataNodeStatefulSet, EnsureStatefulSet,
       DeletePodOnStsUpdate, ValidateMySQLServerStatefulSet, HandleScaleDown,
       ReconcileManagementNodeStatefulSet, ReconcileDataNodeStatefulSet,
       EnsureDataNodePodVersion, ReconcileMySQLServerStatefulSet, StartNewDataNodes,
       CreateNodeGroups, ReorgNdbTables, RemoveAddNodeAnnotation, ReconcileRootUser,
       PatchRootAnnotations, FinishSync, UpdateNdbClusterStatus, Steps
  <1>. QED
    BY <1>4, <1>5

\* Once the pods of a generation are processed, no StatefulSet is created.
LEMMA CreatedFirst ==
    ASSUME Base, NEW w \in Workloads, Created(w)
    PROVE  nc.gen = 1 /\ sc.cs.gen = 1 /\ sc.nc.gen = 1 /\ pc \in Configured
  <1>1. ~Exists(sf[w]) /\ pc \in Configured
    BY DEF Created
  <1>2. nc.gen = 1
    BY <1>1, Ranges
  <1>. QED
    BY <1>1, <1>2, Ranges
-----------------------------------------------------------------------------
(* Management nodes *)

\* There is one management node (Replicas).
OneManagementNode == \A s \in Views("mgmd") : Exists(s) => s.reps = 1

\* A patch does not change the number of management nodes.
LEMMA OneManagementNodeStep ==
    ASSUME Base, OneManagementNode, [Next]_vars
    PROVE  OneManagementNode'
  <1> SUFFICES ASSUME NEW s \in Views("mgmd")', Exists(s) PROVE s.reps = 1
    BY DEF OneManagementNode, Exists
  <1> DEFINE w == "mgmd"
  <1>1. w \in Workloads /\ IndInv /\ Existence
    BY DEF Workloads, Base
  <1>2. CASE s \in Views(w)
    BY <1>2 DEF OneManagementNode
  <1>3. CASE s = NoSfset
    BY <1>3 DEF NoSfset, Exists
  <1>4. CASE s = sf'[w]
    <2>1. CASE Kept(w)
      <3>1. sf'[w].reps = sf[w].reps /\ sf'[w].spec = sf[w].spec
        BY <2>1 DEF Kept, Observed, Readied, Disturbed, Written
      <3>. QED
        BY <1>4, <3>1 DEF OneManagementNode, Exists, Views
    <2>2. CASE Created(w)
      BY <1>1, <1>4, <2>2, CreatedFields DEF Replicas
    <2>3. CASE Repatched(w)
      <3>1. PICK old \in {sfCache[w], sc.sf[w]}, new \in Sfsets :
                Wanted(w, old, new) /\ sf'[w] = Patched(w, old, new)
        BY <2>3 DEF Repatched
      <3>2. new = UpdatedStatefulSet(w, old, sc.cs, sc.nc)
        BY <3>1 DEF Wanted
      <3>3. old \in Sfsets
        BY <1>1, <2>3, <3>1, RepatchFacts
      <3>4. new.reps = 1
        BY <1>1, <2>3, <3>2, <3>3, RepatchFacts, UpdatedFields DEF Replicas
      <3>5. sf'[w].reps = Merge(sf[w].reps, old.reps, new.reps)
        BY <1>1, <2>3, <3>1, <3>3, RepatchFacts, PatchedFields
      <3>6. sf[w].reps = 1
        BY <2>3 DEF Repatched, OneManagementNode, Views
      <3>. QED
        BY <1>4, <3>4, <3>5, <3>6 DEF Merge
    <2>. QED
      BY <1>1, <2>1, <2>2, <2>3, Writes
  <1>. QED
    BY <1>1, <1>2, <1>3, <1>4, ViewMoves

-----------------------------------------------------------------------------
(* Data nodes: the StatefulSet and the copies of it *)

\* The data nodes that generation g asks for.
Nodes(g) == specs[g].nodes

\* The data nodes' StatefulSet in the API server, in the cache, and as the
\* sync at hand has read it.
Api    == sf["ndbmtd"]
Cached == sfCache["ndbmtd"]
Read   == sc.sf["ndbmtd"]

\* The steps of a sync that has read it, and the last of those.
Reading == Checked \cup Last \cup {"mysqld"}
Late    == {"root", "rootpatch", "cmpatch"}

\* More data nodes make a new template of every workload (Changed).
VersionsGrow ==
    \A g, h \in Gens : g < h /\ h <= nc.gen =>
        \A w \in Workloads : /\ specs[g].ver[w] <= specs[h].ver[w]
                             /\ Nodes(g) # Nodes(h) => specs[g].ver[w] < specs[h].ver[w]

\* The metadata.generation determines the template and the replicas, and
\* pods only become up to date as long as it stays.
SpecDetermines ==
    \A w \in Workloads : \A s \in Views(w) : Exists(s) =>
        /\ s.from \in Gens /\ s.from <= nc.gen
        /\ s.spec = sf[w].spec => /\ Template(w, s) = Template(w, sf[w])
                                  /\ s.reps = sf[w].reps
                                  /\ w = "ndbmtd" => sf[w].outdated <= s.outdated

\* The pods that a StatefulSet with a settled status tells of are all there.
Settled == \A s \in Views("ndbmtd") : s.stat <= s.reps /\ (s.up /\ s.seen => s.stat = s.reps)

\* Copies are not ahead of what they were taken from.
CopiesBehind ==
    /\ sc.sf["mgmd"].gen <= sfCache["mgmd"].gen
    /\ Read.reps <= Cached.reps /\ Cached.reps <= Api.reps
    /\ Read.stat <= Cached.stat /\ Cached.stat <= Api.stat
    /\ \A s \in Views("ndbmtd") : Exists(s) => s.reps >= Nodes(1)

\* What a sync knows of the copies it has read: that they exist and are
\* ready, that those it has left behind ask for as many data nodes as the
\* config, and that the new nodes are there when it makes node groups.
SyncKnows ==
    /\ pc \in Reading => Exists(Read)
    /\ pc \in Checked \cup Last /\ Read.gen = sc.cs.gen => Read.up /\ Read.seen
    /\ \A w \in {"mgmd", "ndbmtd"} :
          pc \in Past(w) => sc.sf[w].gen \in Gens /\ Nodes(sc.sf[w].gen) = Nodes(sc.cs.gen)
    /\ pc \in {"nodegroups", "reorg", "added"} => Read.add /\ Read.reps = Nodes(sc.cs.gen)

\* The invariant of the copies, inductive with Base.
CopyInv == VersionsGrow /\ SpecDetermines /\ Settled /\ CopiesBehind /\ SyncKnows
-----------------------------------------------------------------------------
(* Data nodes: online add *)

\* The current generation adds data nodes.
Growing == nc.gen > 1 /\ Nodes(nc.gen - 1) # Nodes(nc.gen)

\* Every copy in use has the data nodes of generation p.
Floor(p) == /\ Api.reps >= Nodes(p) /\ Cached.reps >= Nodes(p)
            /\ pc \in Reading => Read.reps >= Nodes(p)

\* The data nodes of a generation that a status tells of, of the one before
\* the current one, and of a config that a sync has seen to, are started.
Floors ==
    /\ \A p \in Claims \cup {nc.gen - 1} : p > 0 => Floor(p)
    /\ pc \in Late \/ sc.success => Floor(sc.cs.gen)

\* The annotation is only there while the current generation is adding data
\* nodes: no sync that has seen to it and no claim leaves it behind.
Annotation ==
    /\ Api.add => Growing /\ Api.gen = nc.gen
    /\ (pc \in Late \/ sc.success) /\ sc.cs.gen = nc.gen => ~Api.add
    /\ \A p \in Claims : p = nc.gen => ~Api.add
    /\ Rekeyed /\ Off(cm) => Api.gen = nc.gen /\ ~Api.add
    /\ \A s \in Views("ndbmtd") : s.add => nc.gen > 1

\* It is there until the new data nodes are started, in every copy.  Where it
\* is gone it does not come back, because the copies show that.
Annotated ==
    /\ \A s \in Views("ndbmtd") : s.gen = nc.gen /\ s.reps < Nodes(nc.gen) => s.add
    /\ Growing =>
          /\ \A s \in Views("ndbmtd") : s.gen = nc.gen /\ ~s.add => ~Api.add
          /\ Api.gen = nc.gen /\ ~Api.add =>
                Cached.gen = nc.gen /\ (pc \in Reading => Read.gen = nc.gen)

\* A copy that still has the annotation of an earlier generation is not what
\* the StatefulSet gets the new config from.  It is complete when the new
\* config is made, and out of the cache when the management nodes have that.
Leftover ==
    /\ Growing /\ Api.gen < nc.gen =>
          /\ sfCache["mgmd"].gen = nc.gen => ~Cached.add
          /\ pc \in Reading /\ sc.sf["mgmd"].gen = nc.gen => ~Read.add
    /\ Cached.add /\ Cached.gen < cm.gen => statefulsetUpdateComplete(Cached)
    /\ Cached.add /\ Cached.gen = nc.gen - 1 => Cached.outdated = 0
    /\ Cached.add /\ Api.gen < nc.gen /\ pc \in Reading /\ sc.nc.gen = nc.gen => Read = Cached

\* New data nodes are started when the old ones have the new config, and
\* get no other one before their annotation is gone.
OldNodesFirst ==
    /\ \A s \in Views("ndbmtd") : s.gen = nc.gen /\ s.add /\ s.reps = Nodes(nc.gen) => s.outdated = 0
    /\ pc \in {"rmysqld", "addnode"} /\ Api.reps < Nodes(sc.cs.gen) => Api.outdated = 0
    /\ Api.gen = nc.gen /\ Api.reps < Nodes(nc.gen) =>
          \A s \in Views("ndbmtd") : s.gen = nc.gen => s.spec = Api.spec

\* The invariant of online add, inductive with Base and CopyInv.
GrowInv == Floors /\ Annotation /\ Annotated /\ Leftover /\ OldNodesFirst
-----------------------------------------------------------------------------
(* How the data nodes' StatefulSet is written *)

\* A patch leaves the pods as they are, unless it makes a new
\* metadata.generation, which it does only for a new template or new replicas.
LEMMA PatchLeaves ==
    ASSUME NEW w \in Workloads, NEW v \in Workloads, sf \in [Workloads -> Sfsets],
           NEW old, NEW new, NEW next, NEW stop,
           PatchStatefulSet(w, old, new, next, stop)
    PROVE  /\ sf'[v].outdated = sf[v].outdated \/ sf'[v].spec = sf[v].spec + 1
           /\ sf'[v].spec = sf[v].spec \/ sf'[v].spec = sf[v].spec + 1
           /\ sf'[v].spec # sf[v].spec =>
                 Template(v, sf'[v]) # Template(v, sf[v]) \/ sf'[v].reps # sf[v].reps
  <1>1. CASE v # w
    BY <1>1 DEF PatchStatefulSet
  <1>2. CASE v = w
    <2> DEFINE cur == sf[w]
               m   == [cur EXCEPT !.gen  = Merge(@, old.gen, new.gen),
                                  !.from = Merge(@, old.from, new.from),
                                  !.init = Merge(@, old.init, new.init),
                                  !.add  = Merge(@, old.add, new.add),
                                  !.root = Merge(@, old.root, new.root),
                                  !.host = Merge(@, old.host, new.host),
                                  !.reps = Merge(@, old.reps, new.reps)]
               r   == Template(w, m) # Template(w, cur)
               o   == IF r THEN Redundancy ELSE m.outdated
               q   == [m EXCEPT !.spec = @ + 1, !.seen = FALSE, !.outdated = o]
               p   == Patched(w, old, new)
    <2>1. p = IF r \/ m.reps # cur.reps THEN q ELSE m
      <3>1. q = [m EXCEPT !.spec = @ + 1, !.seen = FALSE, !.outdated = IF r THEN Redundancy ELSE @]
        <4> HIDE DEF m, r
        <4>. QED
          OBVIOUS
      <3>. QED
        BY <3>1 DEF Patched
    <2>2. cur \in Sfsets /\ sf'[v] = p
      BY <1>2 DEF PatchStatefulSet
    <2>3. DOMAIN m = DOMAIN cur /\ m.outdated = cur.outdated /\ m.spec = cur.spec
      BY <2>2 DEF Sfsets
    <2>4. DOMAIN cur = DOMAIN NoSfset
      BY <2>2 DEF Sfsets, NoSfset
    <2>5. q.spec = cur.spec + 1 /\ q.reps = m.reps /\ q.from = m.from /\ q.gen = m.gen /\ q.init = m.init
      <3> HIDE DEF m, o
      <3>. QED
        BY <2>3, <2>4 DEF NoSfset
    <2>6. Template(w, q) = Template(w, m)
      <3> HIDE DEF m, q
      <3>. QED
        BY <2>5 DEF Template
    <2>7. r <=> Template(w, m) # Template(w, cur)
      OBVIOUS
    <2> HIDE DEF m, p, q, r
    <2>. QED
      BY <1>2, <2>1, <2>2, <2>3, <2>5, <2>6, <2>7
  <1>. QED
    BY <1>1, <1>2

\* The step patches a StatefulSet, creates one, or touches the pods only.
LEMMA PatchOrPods ==
    ASSUME Base, [Next]_vars
    PROVE  \/ sf' = sf
           \/ \E v \in Workloads : \E old, new, next, stop : PatchStatefulSet(v, old, new, next, stop)
           \/ \E v \in Workloads : CreateStatefulSet(v)
           \/ EnsureDataNodePodVersion
           \/ \E v \in Workloads : ObserveStatefulSet(v) \/ PodsBecomeReady(v) \/ PodDisrupted(v)
  <1>1. CASE SyncStep
    <2>1. "mgmd" \in Workloads /\ "ndbmtd" \in Workloads /\ "mysqld" \in Workloads
      BY DEF Workloads
    <2>2. ASSUME EnsureManagementServerStatefulSet \/ EnsureDataNodeStatefulSet
          PROVE  \/ sf' = sf
                 \/ \E v \in Workloads : \E old, new, next, stop : PatchStatefulSet(v, old, new, next, stop)
                 \/ \E v \in Workloads : CreateStatefulSet(v)
      BY <2>1, <2>2 DEF EnsureManagementServerStatefulSet, EnsureDataNodeStatefulSet, EnsureStatefulSet
    <2>3. ASSUME \/ ReconcileManagementNodeStatefulSet \/ ReconcileDataNodeStatefulSet
                 \/ ReconcileMySQLServerStatefulSet
          PROVE  \/ sf' = sf
                 \/ \E v \in Workloads : \E old, new, next, stop : PatchStatefulSet(v, old, new, next, stop)
                 \/ \E v \in Workloads : CreateStatefulSet(v)
      BY <2>1, <2>3 DEF ReconcileManagementNodeStatefulSet, ReconcileDataNodeStatefulSet,
         ReconcileMySQLServerStatefulSet, ReconcileStatefulSet
    <2>4. ASSUME HandleScaleDown \/ StartNewDataNodes \/ RemoveAddNodeAnnotation \/ PatchRootAnnotations
          PROVE  \/ sf' = sf
                 \/ \E v \in Workloads : \E old, new, next, stop : PatchStatefulSet(v, old, new, next, stop)
      BY <2>1, <2>4 DEF HandleScaleDown, StartNewDataNodes, RemoveAddNodeAnnotation, PatchRootAnnotations
    <2>5. ASSUME \/ EnsureConfigMap \/ PatchConfigMapOnError \/ DeletePodOnStsUpdate
                 \/ ValidateMySQLServerStatefulSet \/ CreateNodeGroups \/ ReorgNdbTables
                 \/ ReconcileRootUser \/ FinishSync \/ UpdateNdbClusterStatus
          PROVE  sf' = sf
      BY <2>5 DEF EnsureConfigMap, PatchConfigMapOnError, DeletePodOnStsUpdate, PatchConfigMap,
         ValidateMySQLServerStatefulSet, CreateNodeGroups, ReorgNdbTables,
         ReconcileRootUser, FinishSync, UpdateNdbClusterStatus, cluster
    <2>. QED
      BY <1>1, <2>2, <2>3, <2>4, <2>5 DEF SyncStep
  <1>2. CASE ~SyncStep
    BY <1>2 DEF Next, vars, cluster, SyncBegin, Informers, DeliverNdbCluster, Resync, Kubernetes,
       DeliverConfigMap, DeliverStatefulSets, DeliverPods, UpdateSpec, StepFails, FailSync,
       CreateNodeGroupFails, StatusUpdateFails, RelistStatefulSets, OperatorRestart
  <1>. QED
    BY <1>1, <1>2

\* Pods that are up to date stay so as long as the metadata.generation does.
LEMMA OutdatedFalls ==
    ASSUME Base, [Next]_vars, sf'["ndbmtd"].spec = sf["ndbmtd"].spec
    PROVE  sf'["ndbmtd"].outdated <= sf["ndbmtd"].outdated
  <1> DEFINE w == "ndbmtd"
  <1>1. w \in Workloads /\ IndInv /\ sf \in [Workloads -> Sfsets]
    BY DEF Base, IndInv, TypeOK, Workloads
  <1>2. sf[w].outdated \in 0..Redundancy /\ sf[w].outdated \in Nat /\ sf[w].spec \in Nat
    BY <1>1, ConstantsAssumption DEF Sfsets
  <1>3. CASE sf' = sf
    BY <1>2, <1>3
  <1>4. CASE \E v \in Workloads : ObserveStatefulSet(v) \/ PodsBecomeReady(v) \/ PodDisrupted(v)
    <2>1. PICK v \in Workloads : ObserveStatefulSet(v) \/ PodsBecomeReady(v) \/ PodDisrupted(v)
      BY <1>4
    <2>2. CASE v # w
      BY <1>1, <1>2, <2>1, <2>2 DEF ObserveStatefulSet, PodsBecomeReady, PodDisrupted
    <2>3. sf[w] \in Sfsets
      BY <1>1
    <2>4. CASE v = w
      <3>1. CASE ObserveStatefulSet(w)
        <4>1. \E b, c : sf' = [sf EXCEPT ![w].seen = TRUE, ![w].bad = b, ![w].up = c]
          BY <3>1, Zenon DEF ObserveStatefulSet
        <4>. QED
          BY <1>1, <1>2, <2>3, <4>1 DEF Sfsets
      <3>2. CASE PodsBecomeReady(w)
        <4>1. \E a, b : sf' = [sf EXCEPT ![w] = [@ EXCEPT !.up = a, !.stat = b, !.outdated = sf[w].outdated]]
          BY <1>1, <2>3, <3>2 DEF PodsBecomeReady, Sfsets
        <4>. QED
          BY <1>1, <1>2, <2>3, <4>1 DEF Sfsets
      <3>3. CASE PodDisrupted(w)
        BY <1>1, <1>2, <2>3, <3>3 DEF PodDisrupted, Sfsets
      <3>. QED
        BY <2>1, <2>4, <3>1, <3>2, <3>3
    <2>. QED
      BY <2>2, <2>4
  <1>5. CASE EnsureDataNodePodVersion
    <2>1. sf[w] \in Sfsets
      BY <1>1
    <2>2. CASE sf' = sf
      BY <1>2, <2>2
    <2>3. CASE sf' = [sf EXCEPT !["ndbmtd"].up = FALSE,
                                !["ndbmtd"].bad = Erroneous("ndbmtd", sf["ndbmtd"]),
                                !["ndbmtd"].outdated = IF @ > 0 THEN @ - 1 ELSE 0]
      <3>1. sf'[w].outdated = IF sf[w].outdated > 0 THEN sf[w].outdated - 1 ELSE 0
        BY <1>1, <2>1, <2>3 DEF Sfsets
      <3>. QED
        BY <1>2, <3>1
    <2>. QED
      BY <1>5, <2>2, <2>3 DEF EnsureDataNodePodVersion
  <1>6. CASE \E v \in Workloads : \E old, new, next, stop : PatchStatefulSet(v, old, new, next, stop)
    BY <1>1, <1>2, <1>6, PatchLeaves
  <1>7. CASE \E v \in Workloads : CreateStatefulSet(v)
    <2>1. PICK v \in Workloads : CreateStatefulSet(v)
      BY <1>7
    <2>2. CASE sf'[w] = sf[w]
      BY <1>2, <2>2
    <2>3. CASE sf'[w] # sf[w]
      <3>1. v = w /\ ~Exists(sf[w]) /\ sf'[w] = [NewStatefulSet(w, sc.cs, sc.nc) EXCEPT !.spec = 1]
        BY <1>1, <2>1, <2>3 DEF CreateStatefulSet
      <3>2. sf'[w].spec = 1
        BY <3>1 DEF NewStatefulSet, NoSfset
      <3>. QED
        BY <3>1, <3>2 DEF Exists
    <2>. QED
      BY <2>2, <2>3
  <1>. QED
    BY <1>3, <1>4, <1>5, <1>6, <1>7, PatchOrPods

\* The ways a step may change what the data nodes' StatefulSet asks for.
SameNodes ==
    /\ Api'.gen = Api.gen /\ Api'.from = Api.from /\ Api'.init = Api.init
    /\ Api'.add = Api.add /\ Api'.reps = Api.reps /\ Api'.spec = Api.spec
MadeNodes ==
    /\ nc.gen = 1 /\ sc.cs.gen = 1 /\ pc \in Configured /\ ~Exists(Api)
    /\ Api'.gen = 1 /\ ~Api'.add /\ Api'.reps = Nodes(1) /\ Api'.spec = 1
Retemplated(old) ==
    /\ pc \in Configured /\ Exists(Api) /\ Exists(old)
    /\ \/ pc = "ndbmtd" /\ old = Cached /\ ~statefulsetUpdateComplete(old) /\ old.gen # sc.cs.gen
       \/ pc = "rdata" /\ old = Read /\ (old.gen # sc.cs.gen \/ (old.init /\ ~sc.cs.init))
    /\ Api'.gen = sc.cs.gen /\ Api'.reps = Api.reps
    /\ Api'.add = Merge(Api.add, old.add, old.reps < Nodes(sc.cs.gen))
StartedNodes ==
    /\ pc = "addnode" /\ pc \in Configured /\ Exists(Api)
    /\ Read.add /\ Read.reps # Nodes(sc.cs.gen)
    /\ Api'.gen = Api.gen /\ Api'.add = Api.add
    /\ Api'.reps = Nodes(sc.cs.gen) /\ Api'.outdated = Api.outdated
Unannotated ==
    /\ pc = "added" /\ pc \in Configured /\ Exists(Api)
    /\ Api'.gen = Api.gen /\ Api'.reps = Api.reps /\ Api'.spec = Api.spec
    /\ Api'.add = Merge(Api.add, Read.add, FALSE)

\* A patch with a template keeps the replicas, since a copy has no more data
\* nodes than its own config or a newer one.
LEMMA TemplateWritten ==
    ASSUME Base, [Next]_vars, pc \in Configured, NEW old \in Views("ndbmtd"), Exists(old),
           \E next, stop : PatchStatefulSet("ndbmtd", old,
                               UpdatedStatefulSet("ndbmtd", old, sc.cs, sc.nc), next, stop)
    PROVE  /\ Api'.gen = sc.cs.gen /\ Api'.reps = Api.reps
           /\ Api'.add = Merge(Api.add, old.add, old.reps < Nodes(sc.cs.gen))
  <1> DEFINE w == "ndbmtd"
             r == sf[w]
             new == UpdatedStatefulSet(w, old, sc.cs, sc.nc)
  <1>1. w \in Workloads /\ IndInv /\ TypeOK
    BY DEF Workloads, Base, IndInv
  <1>2. /\ specs \in [Gens -> SpecContent] /\ sc.cs \in ConfigMaps /\ sc.nc \in NdbClusters
        /\ sc.cs.gen \in Gens /\ sc.nc.gen \in Gens /\ sf \in [Workloads -> Sfsets]
        /\ old \in Sfsets
    BY <1>1, SyncFacts DEF SyncContexts, Views
  <1>3. new \in Sfsets
    BY <1>1, <1>2, UpdatedType
  <1>4. /\ new.gen = sc.cs.gen
        /\ new.reps = IF old.reps < Nodes(sc.cs.gen) THEN old.reps ELSE Nodes(sc.cs.gen)
    BY <1>1, <1>2, UpdatedFields DEF Replicas, Nodes
  <1>5. new.add = (old.reps < Nodes(sc.cs.gen))
    <2> DEFINE n == NewStatefulSet(w, sc.cs, sc.nc)
    <2>1. n \in Sfsets
      BY <1>1, <1>2, UpdatedType
    <2>2. n.reps = Nodes(sc.cs.gen) /\ n.add = FALSE
      BY DEF NewStatefulSet, NoSfset, Replicas, Nodes
    <2>3. new = IF old.reps < n.reps THEN [n EXCEPT !.reps = old.reps, !.add = TRUE] ELSE n
      BY DEF UpdatedStatefulSet
    <2> HIDE DEF n, new
    <2>4. CASE old.reps < n.reps
      <3>1. new.add = TRUE
        BY <2>1, <2>3, <2>4 DEF Sfsets
      <3>2. old.reps < Nodes(sc.cs.gen)
        BY <2>2, <2>4
      <3>. QED
        BY <3>1, <3>2, Zenon
    <2>5. CASE ~(old.reps < n.reps)
      <3>1. new.add = FALSE /\ ~(old.reps < Nodes(sc.cs.gen))
        BY <2>2, <2>3, <2>5
      <3>2. (old.reps < Nodes(sc.cs.gen)) = FALSE
        BY <3>1
      <3>. QED
        BY <3>1, <3>2
    <2>. QED
      BY <2>4, <2>5
  <1> HIDE DEF new
  <1>6. sf'[w] = Patched(w, old, new)
    BY <1>1, <1>2 DEF PatchStatefulSet, new
  <1>7. /\ sf'[w].gen  = Merge(r.gen, old.gen, new.gen)
        /\ sf'[w].add  = Merge(r.add, old.add, new.add)
        /\ sf'[w].reps = Merge(r.reps, old.reps, new.reps)
    BY <1>1, <1>2, <1>3, <1>6, PatchedFields
  <1>8. old.gen \in Gens /\ old.gen <= r.gen /\ r.gen <= sc.cs.gen /\ sc.cs.gen <= nc.gen
        /\ old.gen \in Nat /\ r.gen \in Nat /\ sc.cs.gen \in Nat /\ nc.gen \in Nat
    BY <1>1, Ranges DEF Views
  <1>9. old.reps <= Nodes(old.gen) /\ Nodes(old.gen) <= Nodes(sc.cs.gen)
    BY <1>2, <1>8 DEF Base, RollInv, NodesFit, NodesGrow, Nodes
  <1>10. old.reps \in Nat /\ Nodes(old.gen) \in Nat /\ Nodes(sc.cs.gen) \in Nat
    BY <1>2, <1>8 DEF Sfsets, SpecContent, Nodes
  <1>11. new.reps = old.reps
    BY <1>4, <1>9, <1>10
  <1>12. r.gen = sc.cs.gen \/ old.gen # sc.cs.gen
    BY <1>8
  <1>. QED
    BY <1>4, <1>5, <1>7, <1>11, <1>12 DEF Merge, Api

\* New replicas alone leave the pods that are there up to date.
LEMMA StartedPods ==
    ASSUME NEW w \in Workloads, sf \in [Workloads -> Sfsets],
           NEW old \in Sfsets, NEW new \in Sfsets,
           new.gen = old.gen, new.from = old.from, new.init = old.init
    PROVE  Patched(w, old, new).outdated = sf[w].outdated
  <1> DEFINE cur == sf[w]
             m   == [cur EXCEPT !.gen  = Merge(@, old.gen, new.gen),
                                !.from = Merge(@, old.from, new.from),
                                !.init = Merge(@, old.init, new.init),
                                !.add  = Merge(@, old.add, new.add),
                                !.root = Merge(@, old.root, new.root),
                                !.host = Merge(@, old.host, new.host),
                                !.reps = Merge(@, old.reps, new.reps)]
             r   == Template(w, m) # Template(w, cur)
  <1>1. cur \in Sfsets /\ m.outdated = cur.outdated /\ DOMAIN m = DOMAIN NoSfset
    BY DEF Sfsets, NoSfset
  <1>2. m.gen = cur.gen /\ m.from = cur.from /\ m.init = cur.init
    BY DEF Sfsets, Merge
  <1>3. ~r
    <2> HIDE DEF m
    <2>. QED
      BY <1>2 DEF Template
  <1>4. Patched(w, old, new) = IF r \/ m.reps # cur.reps
                               THEN [m EXCEPT !.spec = @ + 1, !.seen = FALSE,
                                              !.outdated = IF r THEN Redundancy ELSE @]
                               ELSE m
    BY DEF Patched
  <1> HIDE DEF m, r
  <1>. QED
    BY <1>1, <1>3, <1>4 DEF NoSfset

\* Nothing else is written, by whatever step.
LEMMA NodesWritten ==
    ASSUME Base, CopyInv, [Next]_vars
    PROVE  \/ SameNodes
           \/ MadeNodes
           \/ \E old \in {Cached, Read} : Retemplated(old)
           \/ StartedNodes
           \/ Unannotated
  <1> DEFINE w == "ndbmtd"
             r == sf[w]
             t == sf'[w]
  <1>1. w \in Workloads /\ IndInv
    BY DEF Workloads, Base
  <1>2. CASE Kept(w)
    <2>1. Written(t) = Written(r)
      BY <1>2 DEF Kept, Observed, Readied, Disturbed
    <2>. QED
      BY <2>1 DEF Written, SameNodes, Api
  <1>3. CASE Created(w)
    <2>1. nc.gen = 1 /\ sc.cs.gen = 1 /\ sc.nc.gen = 1 /\ pc \in Configured
      BY <1>1, <1>3, CreatedFirst
    <2>2. t.gen = 1 /\ t.reps = Nodes(1) /\ t.spec = 1
      BY <1>1, <1>3, <2>1, CreatedFields DEF Replicas, Nodes
    <2>3. ~t.add
      BY <1>3 DEF Created, NewStatefulSet, NoSfset
    <2>. QED
      BY <1>3, <2>1, <2>2, <2>3 DEF MadeNodes, Api, Created
  <1>4. CASE ~Kept(w) /\ ~Created(w)
    <2>1. Repatched(w) /\ pc \in Configured /\ Exists(r) /\ SyncStep
      BY <1>1, <1>4, SyncWrites, Writes DEF Repatched
    <2>2. /\ specs \in [Gens -> SpecContent] /\ sc.cs \in ConfigMaps /\ sc.nc \in NdbClusters
          /\ sc.cs.gen \in Gens /\ sc.nc.gen \in Gens /\ sf \in [Workloads -> Sfsets]
          /\ \A old \in {sfCache[w], sc.sf[w]} : old \in Sfsets
      BY <1>1, <2>1, RepatchFacts
    <2>3. pc \in {"ndbmtd", "rdata", "addnode", "added"}
      BY <2>1 DEF Repatched, Wanted, Retemplating, Workloads
    <2>4. sf' # sf /\ ~CreateStatefulSet(w) /\ Nodes(sc.cs.gen) \in Nat
      <3>1. Nodes(sc.cs.gen) \in Nat
        BY <2>2 DEF SpecContent, Nodes
      <3>. QED
        BY <1>4, <2>1, <3>1 DEF Kept, CreateStatefulSet
    <2>5. CASE pc = "ndbmtd"
      <3>1. EnsureDataNodeStatefulSet
        BY <2>1, <2>5, ActionAt
      <3>2. \E next, stop :
               PatchStatefulSet(w, Cached, UpdatedStatefulSet(w, Cached, sc.cs, sc.nc), next, stop)
        BY <2>4, <3>1, Zenon DEF EnsureDataNodeStatefulSet, EnsureStatefulSet, Cached
      <3>3. /\ Exists(Cached) /\ ~statefulsetUpdateComplete(Cached) /\ Cached.gen # sc.cs.gen
        BY <2>4, <3>1, Zenon DEF EnsureDataNodeStatefulSet, EnsureStatefulSet, Cached, workloadHasConfigGeneration
      <3>4. /\ Api'.gen = sc.cs.gen /\ Api'.reps = Api.reps
            /\ Api'.add = Merge(Api.add, Cached.add, Cached.reps < Nodes(sc.cs.gen))
        BY <2>1, <3>2, <3>3, TemplateWritten DEF Views, Cached
      <3>. QED
        BY <2>1, <2>5, <3>3, <3>4 DEF Retemplated, Api
    <2>6. CASE pc = "rdata"
      <3>1. ReconcileDataNodeStatefulSet
        BY <2>1, <2>6, ActionAt
      <3>2. \E next, stop :
               PatchStatefulSet(w, Read, UpdatedStatefulSet(w, Read, sc.cs, sc.nc), next, stop)
        BY <2>4, <3>1, Zenon DEF ReconcileDataNodeStatefulSet, ReconcileStatefulSet, Read
      <3>3. Read.gen # sc.cs.gen \/ (Read.init /\ ~sc.cs.init)
        BY <2>4, <3>1, Zenon DEF ReconcileDataNodeStatefulSet, ReconcileStatefulSet, Read,
           workloadHasConfigGeneration, isInitialFlagSet
      <3>4. Exists(Read)
        BY <2>6 DEF CopyInv, SyncKnows, Reading, Checked
      <3>5. /\ Api'.gen = sc.cs.gen /\ Api'.reps = Api.reps
            /\ Api'.add = Merge(Api.add, Read.add, Read.reps < Nodes(sc.cs.gen))
        BY <2>1, <3>2, <3>4, TemplateWritten DEF Views, Read
      <3>. QED
        BY <2>1, <2>6, <3>3, <3>4, <3>5 DEF Retemplated, Api
    <2>7. CASE pc = "addnode"
      <3> DEFINE new == [Read EXCEPT !.reps = Nodes(sc.cs.gen)]
      <3>1. StartNewDataNodes
        BY <2>1, <2>7, ActionAt
      <3>2. /\ \E next, stop : PatchStatefulSet(w, Read, new, next, stop)
            /\ Read.add /\ Read.reps # Nodes(sc.cs.gen)
        BY <2>4, <3>1, Zenon DEF StartNewDataNodes, Read, Nodes
      <3>3. Read \in Sfsets /\ new \in Sfsets
        BY <2>2, <2>4 DEF Read, Sfsets
      <3>4. /\ new.gen = Read.gen /\ new.from = Read.from /\ new.init = Read.init
            /\ new.add = Read.add /\ new.reps = Nodes(sc.cs.gen)
        BY <3>3 DEF Sfsets
      <3> HIDE DEF new
      <3>5. PICK next, stop : PatchStatefulSet(w, Read, new, next, stop)
        BY <3>2
      <3>6. /\ sf'[w] = Patched(w, Read, new)
        BY <1>1, <2>2, <3>5 DEF PatchStatefulSet
      <3>7. /\ t.gen = r.gen /\ t.from = r.from /\ t.init = r.init /\ t.add = r.add
            /\ t.reps = Nodes(sc.cs.gen)
        <4>1. /\ t.gen  = Merge(r.gen, Read.gen, new.gen)
              /\ t.from = Merge(r.from, Read.from, new.from)
              /\ t.init = Merge(r.init, Read.init, new.init)
              /\ t.add  = Merge(r.add, Read.add, new.add)
              /\ t.reps = Merge(r.reps, Read.reps, new.reps)
          BY <1>1, <2>2, <3>3, <3>6, PatchedFields
        <4>. QED
          BY <3>2, <3>4, <4>1 DEF Merge
      <3>8. t.outdated = r.outdated
        BY <1>1, <2>2, <3>3, <3>7, <3>6, <3>4, StartedPods
      <3>. QED
        BY <2>1, <2>7, <3>2, <3>7, <3>8 DEF StartedNodes, Api
    <2>8. CASE pc = "added"
      <3> DEFINE new == [Read EXCEPT !.add = FALSE]
      <3>1. RemoveAddNodeAnnotation
        BY <2>1, <2>8, ActionAt
      <3>2. PICK next, stop : PatchStatefulSet(w, Read, new, next, stop)
        BY <3>1, Zenon DEF RemoveAddNodeAnnotation, Read
      <3>3. Read \in Sfsets /\ new \in Sfsets
        BY <2>2 DEF Read, Sfsets
      <3>4. /\ new.gen = Read.gen /\ new.from = Read.from /\ new.init = Read.init
            /\ new.add = FALSE /\ new.reps = Read.reps
        BY <3>3 DEF Sfsets
      <3> HIDE DEF new
      <3>6. sf'[w] = Patched(w, Read, new)
        BY <1>1, <2>2, <3>2 DEF PatchStatefulSet
      <3>7. /\ t.gen = r.gen /\ t.from = r.from /\ t.init = r.init /\ t.reps = r.reps
            /\ t.add = Merge(r.add, Read.add, FALSE)
        <4>1. /\ t.gen  = Merge(r.gen, Read.gen, new.gen)
              /\ t.from = Merge(r.from, Read.from, new.from)
              /\ t.init = Merge(r.init, Read.init, new.init)
              /\ t.add  = Merge(r.add, Read.add, new.add)
              /\ t.reps = Merge(r.reps, Read.reps, new.reps)
          BY <1>1, <2>2, <3>3, <3>6, PatchedFields
        <4>. QED
          BY <3>4, <4>1 DEF Merge
      <3>8. Template(w, t) = Template(w, r)
        BY <3>7 DEF Template
      <3>9. t.spec = r.spec
        BY <1>1, <2>2, <3>2, <3>7, <3>8, PatchLeaves
      <3>. QED
        BY <2>1, <2>8, <3>7, <3>9 DEF Unannotated, Api
    <2>. QED
      BY <2>3, <2>5, <2>6, <2>7, <2>8
  <1>. QED
    BY <1>1, <1>2, <1>3, <1>4, Writes

\* No data node is taken away, neither from the StatefulSet nor by it.
LEMMA NodesStay ==
    ASSUME Base, CopyInv, [Next]_vars
    PROVE  /\ Api.reps \in Nat /\ Api'.reps \in Nat /\ Api.reps <= Api'.reps
           /\ Api'.reps = Api.reps \/ MadeNodes \/ StartedNodes
  <1>1. "ndbmtd" \in Workloads /\ IndInv /\ IndInv'
    BY NextInv DEF Workloads, Base
  <1>2. Api \in Sfsets /\ Api' \in Sfsets
    BY <1>1 DEF IndInv, TypeOK, Api
  <1>3. Api.reps \in Nat /\ Api'.reps \in Nat
    BY <1>2 DEF Sfsets
  <1>4. CASE SameNodes \/ Unannotated \/ \E old \in {Cached, Read} : Retemplated(old)
    <2>1. Api'.reps = Api.reps
      BY <1>4, Zenon DEF SameNodes, Unannotated, Retemplated
    <2>. QED
      BY <1>3, <2>1
  <1>5. CASE MadeNodes
    <2>1. Api.reps = 0
      BY <1>1, <1>5, Ranges DEF MadeNodes, Api, Views
    <2>. QED
      BY <1>3, <1>5, <2>1
  <1>6. CASE StartedNodes
    <2>1. Api.gen \in Gens /\ Api.gen <= sc.cs.gen /\ sc.cs.gen \in Gens /\ sc.cs.gen <= nc.gen
      <3>1. Api.gen \in Gens /\ Api.gen <= sc.cs.gen /\ sc.cs.gen \in Gens
        BY <1>1, <1>6, Ranges DEF StartedNodes, Api, Views
      <3>. QED
        BY <1>6, <3>1, Ranges DEF StartedNodes
    <2>2. Api.reps <= Nodes(Api.gen) /\ Nodes(Api.gen) <= Nodes(sc.cs.gen)
      BY <2>1 DEF Base, RollInv, NodesFit, NodesGrow, Nodes, Views, Api
    <2>3. Nodes(Api.gen) \in Nat /\ Nodes(sc.cs.gen) \in Nat
      BY <1>1, <2>1 DEF IndInv, TypeOK, SpecContent, Nodes
    <2>4. Api'.reps = Nodes(sc.cs.gen)
      BY <1>6 DEF StartedNodes
    <2>. QED
      BY <1>3, <1>6, <2>2, <2>3, <2>4
  <1>. QED
    BY <1>4, <1>5, <1>6, NodesWritten

\* As long as the metadata.generation stays, so do the template and the
\* replicas.
LEMMA SameSpec ==
    ASSUME Base, [Next]_vars, NEW w \in Workloads, sf'[w].spec = sf[w].spec, Exists(sf[w])
    PROVE  Template(w, sf'[w]) = Template(w, sf[w]) /\ sf'[w].reps = sf[w].reps
  <1>1. IndInv /\ sf[w] \in Sfsets
    BY DEF Base, IndInv, TypeOK
  <1>2. CASE Kept(w)
    <2>1. Written(sf'[w]) = Written(sf[w])
      BY <1>2 DEF Kept, Observed, Readied, Disturbed
    <2>. QED
      BY <2>1 DEF Written, Template
  <1>3. CASE Repatched(w)
    <2>1. PICK old \in {sfCache[w], sc.sf[w]}, new \in Sfsets : sf'[w] = Patched(w, old, new)
      BY <1>3 DEF Repatched
    <2>2. old \in Sfsets /\ sf \in [Workloads -> Sfsets]
      BY <1>1, <1>3, RepatchFacts
    <2>3. sf[w].spec \in Nat
      BY <1>1 DEF Sfsets
    <2>. QED
      BY <2>1, <2>2, <2>3, PatchedFields
  <1>. QED
    BY <1>1, <1>2, <1>3, Writes DEF Created

\* The cache gets all of the StatefulSets at once.
LEMMA CachesMove ==
    ASSUME [Next]_vars
    PROVE  sfCache' \in {sfCache, sf}
  <1>1. CASE SyncStep
    BY <1>1 DEF SyncStep, EnsureConfigMap, PatchConfigMapOnError, PatchConfigMap,
       EnsureManagementServerStatefulSet, EnsureDataNodeStatefulSet, EnsureStatefulSet,
       DeletePodOnStsUpdate, ValidateMySQLServerStatefulSet, HandleScaleDown,
       ReconcileManagementNodeStatefulSet, ReconcileDataNodeStatefulSet,
       EnsureDataNodePodVersion, ReconcileMySQLServerStatefulSet, StartNewDataNodes,
       CreateNodeGroups, ReorgNdbTables, RemoveAddNodeAnnotation, ReconcileRootUser,
       PatchRootAnnotations, FinishSync, UpdateNdbClusterStatus, caches
  <1>2. CASE ~SyncStep
    BY <1>2 DEF Next, vars, caches, SyncBegin, Informers, DeliverNdbCluster, Resync, Kubernetes,
       DeliverConfigMap, DeliverStatefulSets, DeliverPods, UpdateSpec, StepFails,
       CreateNodeGroupFails, StatusUpdateFails, RelistStatefulSets, OperatorRestart,
       ObserveStatefulSet, PodsBecomeReady, PodDisrupted
  <1>. QED
    BY <1>1, <1>2

\* An update that adds data nodes changes every template.
LEMMA VersionsGrowStep ==
    ASSUME Base, VersionsGrow, [Next]_vars
    PROVE  VersionsGrow'
  <1>1. CASE Stable
    BY <1>1 DEF Stable, VersionsGrow, Nodes
  <1>2. CASE UpdateSpec
    <2>1. /\ nc'.gen = nc.gen + 1 /\ nc.gen \in Gens /\ nc'.gen \in Gens
          /\ \A g \in Gens : g <= nc.gen => specs'[g] = specs[g]
      BY <1>2, Updated
    <2>2. \A g \in Gens : g \in Nat
      BY ConstantsAssumption DEF Gens
    <2>3. specs \in [Gens -> SpecContent] /\ specs' \in [Gens -> SpecContent]
      BY NextInv DEF Base, IndInv, TypeOK
    <2>4. PICK k \in Changes, b \in SUBSET MayFail : specs'[nc'.gen] = Changed(specs[nc.gen], k, b)
      BY <1>2, <2>1, <2>3 DEF UpdateSpec
    <2> DEFINE s == specs[nc.gen]
               t == specs'[nc'.gen]
    <2>5. s \in SpecContent /\ t \in SpecContent
      BY <2>1, <2>3
    <2>6. ASSUME NEW w \in Workloads
          PROVE  /\ s.ver[w] \in Nat /\ t.ver[w] \in Nat /\ s.ver[w] <= t.ver[w]
                 /\ s.nodes # t.nodes => s.ver[w] < t.ver[w]
      <3>1. s.ver[w] \in Nat /\ t.ver[w] \in Nat
        BY <2>5 DEF SpecContent
      <3>2. t.ver[w] = s.ver[w] \/ t.ver[w] = s.ver[w] + 1
        BY <2>4 DEF Changed
      <3>3. CASE "addnode" \in k
        <4>1. t.ver[w] = s.ver[w] + 1
          BY <2>4, <3>3 DEF Changed
        <4>. QED
          BY <3>1, <4>1
      <3>4. CASE "addnode" \notin k
        <4>1. t.nodes = s.nodes
          BY <2>4, <3>4 DEF Changed
        <4>. QED
          BY <3>1, <3>2, <4>1
      <3>. QED
        BY <3>3, <3>4
    <2>7. ASSUME NEW g \in Gens, NEW h \in Gens, g < h, h <= nc'.gen, NEW w \in Workloads
          PROVE  /\ specs'[g].ver[w] <= specs'[h].ver[w]
                 /\ specs'[g].nodes # specs'[h].nodes => specs'[g].ver[w] < specs'[h].ver[w]
      <3>1. CASE h <= nc.gen
        <4>1. g <= nc.gen
          BY <2>1, <2>2, <2>7, <3>1
        <4>. QED
          BY <2>1, <2>7, <3>1, <4>1 DEF VersionsGrow, Nodes
      <3>2. CASE h = nc'.gen /\ g = nc.gen
        BY <2>1, <2>2, <2>6, <3>2
      <3>3. CASE h = nc'.gen /\ g < nc.gen
        <4>1. specs'[g] = specs[g] /\ specs'[h] = t
          BY <2>1, <2>2, <3>3
        <4>2. /\ specs[g].ver[w] <= s.ver[w]
              /\ specs[g].nodes # s.nodes => specs[g].ver[w] < s.ver[w]
          BY <2>1, <2>2, <3>3 DEF VersionsGrow, Nodes
        <4>3. specs[g].ver[w] \in Nat
          BY <2>3 DEF SpecContent
        <4> HIDE DEF s, t
        <4>. QED
          BY <2>6, <4>1, <4>2, <4>3
      <3>. QED
        BY <2>1, <2>2, <2>7, <3>1, <3>2, <3>3
    <2>. QED
      BY <2>7 DEF VersionsGrow, Nodes
  <1>. QED
    BY <1>1, <1>2, StableOrUpdated

\* The copies of a StatefulSet have the template of its metadata.generation.
LEMMA SpecDeterminesStep ==
    ASSUME Base, Base', SpecDetermines, [Next]_vars
    PROVE  SpecDetermines'
  <1> SUFFICES ASSUME NEW w \in Workloads, NEW s \in Views(w)', Exists(s)
               PROVE  /\ s.from \in Gens /\ s.from <= nc'.gen
                      /\ s.spec = sf'[w].spec =>
                            /\ Template(w, s)' = Template(w, sf[w])'
                            /\ s.reps = sf'[w].reps
                            /\ w = "ndbmtd" => sf'[w].outdated <= s.outdated
    BY DEF SpecDetermines, Exists, Template
  <1>1. IndInv /\ nc.gen <= nc'.gen /\ nc.gen \in Nat /\ nc'.gen \in Nat
        /\ \A g \in Gens : g \in Nat /\ (g <= nc.gen => specs'[g] = specs[g])
    <2>1. nc.gen \in Gens /\ nc'.gen \in Gens /\ \A g \in Gens : g \in Nat
      BY Ranges, LevelGrows DEF Base
    <2>. QED
      BY <2>1, LevelGrows DEF Base
  <1>2. sf[w] \in Views(w) /\ sf'[w] \in Views(w)'
    BY DEF Views
  <1>3. /\ sf[w].spec \in Nat /\ sf'[w].spec \in Nat /\ sf[w].spec <= sf'[w].spec
        /\ sf'[w].outdated \in Nat
    <2>1. sf' \in [Workloads -> Sfsets]
      BY DEF Base, IndInv, TypeOK
    <2>2. sf'[w].outdated \in Nat
      BY <2>1, ConstantsAssumption DEF Sfsets
    <2>. QED
      BY <1>1, <2>2, SpecGrows
  <1>4. CASE s \in Views(w)
    <2>1. /\ s.from \in Gens /\ s.from <= nc.gen
          /\ s.spec = sf[w].spec => /\ Template(w, s) = Template(w, sf[w])
                                    /\ s.reps = sf[w].reps
                                    /\ w = "ndbmtd" => sf[w].outdated <= s.outdated
      BY <1>4 DEF SpecDetermines
    <2>2. s.spec <= sf[w].spec /\ s.spec \in Nat /\ s.outdated \in Nat /\ s.gen \in Gens /\ s.gen <= nc.gen
      BY <1>4, Ranges
    <2>3. s.from \in Nat
      BY <1>1, <2>1
    <2>4. ASSUME s.spec = sf'[w].spec
          PROVE  /\ Template(w, s)' = Template(w, sf[w])'
                 /\ s.reps = sf'[w].reps
                 /\ w = "ndbmtd" => sf'[w].outdated <= s.outdated
      <3>1. s.spec = sf[w].spec /\ sf'[w].spec = sf[w].spec
        BY <1>3, <2>2, <2>4
      <3>2. Exists(sf[w])
        BY <3>1 DEF Exists
      <3>3. Template(w, sf'[w]) = Template(w, sf[w]) /\ sf'[w].reps = sf[w].reps
        BY <3>1, <3>2, SameSpec
      <3>4. /\ sf'[w].gen \in Gens /\ sf'[w].gen <= nc.gen
            /\ sf'[w].from \in Gens /\ sf'[w].from <= nc.gen
        <4>1. CASE UpdateSpec
          <5>1. sf' = sf
            BY <4>1 DEF UpdateSpec
          <5>. QED
            BY <1>2, <3>2, <5>1, Ranges DEF SpecDetermines
        <4>2. CASE Stable
          <5>1. \/ sf'[w].gen = sf[w].gen /\ sf'[w].from = sf[w].from
                \/ sf'[w].from = Level
            BY <1>1, OriginMoves DEF Base
          <5>2. Level \in Gens /\ Level <= nc.gen
            BY Ranges
          <5>3. Exists(sf'[w])
            BY <3>1, <3>2 DEF Exists
          <5>4. sf'[w].gen \in Gens /\ sf'[w].gen <= nc'.gen
            <6>1. sf'[w].gen \in Gens
              BY <1>2, <5>3 DEF Base, Existence
            <6>2. sf'[w].gen <= cm'.gen /\ cm'.gen <= ncCache'.gen /\ ncCache'.gen <= nc'.gen
              BY DEF Base, IndInv, Flow
            <6>3. sf'[w].gen \in Nat /\ cm'.gen \in Nat /\ ncCache'.gen \in Nat /\ nc'.gen \in Nat
              BY ConstantsAssumption DEF Base, IndInv, TypeOK, Sfsets, ConfigMaps, NdbClusters
            <6>. QED
              BY <6>1, <6>2, <6>3
          <5>. QED
            BY <1>2, <3>2, <4>2, <5>1, <5>2, <5>4 DEF SpecDetermines, Stable
        <4>. QED
          BY <4>1, <4>2, StableOrUpdated
      <3>5. Template(w, s)' = Template(w, s) /\ Template(w, sf[w])' = Template(w, sf'[w])
        BY <1>1, <2>1, <2>2, <3>4 DEF Template
      <3>6. w = "ndbmtd" => sf'[w].outdated <= sf[w].outdated
        BY <3>1, OutdatedFalls
      <3>7. sf[w].outdated \in Nat
        BY <1>2, Ranges
      <3>. QED
        BY <1>3, <2>1, <2>2, <3>1, <3>3, <3>5, <3>6, <3>7
    <2>. QED
      BY <1>1, <2>1, <2>3, <2>4
  <1>5. CASE s = sf'[w]
    <2>1. \/ sf'[w].gen = sf[w].gen /\ sf'[w].from = sf[w].from
          \/ sf'[w].from = Level
      BY <1>1, OriginMoves DEF Base
    <2>2. Level \in Gens /\ Level <= nc.gen /\ Level \in Nat
      BY <1>1, Ranges
    <2>3. sf'[w].gen \in Gens
      BY <1>2, <1>5 DEF Base, Existence
    <2>4. sf'[w].gen = sf[w].gen => Exists(sf[w])
      BY <1>2, <2>3 DEF Base, Existence
    <2>5. s.from \in Gens /\ s.from <= nc.gen
      BY <1>2, <1>5, <2>1, <2>2, <2>4 DEF SpecDetermines
    <2>6. s.from \in Nat
      BY <1>1, <2>5
    <2>. QED
      BY <1>1, <1>3, <1>5, <2>5, <2>6
  <1>6. CASE s = NoSfset
    BY <1>6 DEF NoSfset, Exists
  <1>. QED
    BY <1>1, <1>4, <1>5, <1>6, ViewMoves

\* The pods that are up are those that the replicas ask for, until these
\* change.
LEMMA SettledStep ==
    ASSUME Base, Base', CopyInv, [Next]_vars
    PROVE  Settled' /\ Api.stat <= Api'.stat
  <1> DEFINE w == "ndbmtd"
             r == sf[w]
             t == sf'[w]
  <1>1. w \in Workloads /\ IndInv /\ r \in Views(w) /\ r \in Sfsets /\ t \in Sfsets
    BY DEF Workloads, Base, Views, IndInv, TypeOK
  <1>2. r.stat \in Nat /\ t.stat \in Nat /\ r.reps \in Nat /\ t.reps \in Nat /\ r.stat <= r.reps
        /\ (r.up /\ r.seen => r.stat = r.reps) /\ r.reps <= t.reps
    BY <1>1, NodesStay DEF CopyInv, Settled, Sfsets, Api
  <1>3. r.stat <= t.stat /\ t.stat <= t.reps /\ (t.up /\ t.seen => t.stat = t.reps)
    <2>1. CASE Kept(w)
      <3>1. t.reps = r.reps
        BY <2>1 DEF Kept, Observed, Readied, Disturbed, Written
      <3>2. CASE t = r
        BY <1>2, <3>2
      <3>3. CASE Observed(w)
        BY <1>2, <3>1, <3>3 DEF Observed
      <3>4. CASE Readied(w)
        BY <1>2, <3>1, <3>4 DEF Readied
      <3>5. CASE Disturbed(w)
        BY <1>2, <3>1, <3>5 DEF Disturbed
      <3>. QED
        BY <2>1, <3>2, <3>3, <3>4, <3>5 DEF Kept
    <2>2. CASE Created(w)
      <3>1. ~t.up
        BY <1>1, <2>2, CreatedFields
      <3>2. t.stat = 0
        BY <2>2 DEF Created, NewStatefulSet, NoSfset
      <3>3. r.reps = 0
        BY <1>1, <2>2, Ranges DEF Created
      <3>. QED
        BY <1>2, <3>1, <3>2, <3>3
    <2>3. CASE Repatched(w)
      <3>1. PICK old \in {sfCache[w], sc.sf[w]}, new \in Sfsets : t = Patched(w, old, new)
        BY <2>3 DEF Repatched
      <3>2. old \in Sfsets /\ sf \in [Workloads -> Sfsets]
        BY <1>1, <2>3, RepatchFacts
      <3>3. /\ t.up = r.up /\ t.stat = r.stat
            /\ \/ t.seen = r.seen /\ t.reps = r.reps
               \/ ~t.seen
        BY <1>1, <3>1, <3>2, PatchedFields
      <3>. QED
        BY <1>2, <3>3
    <2>. QED
      BY <1>1, <2>1, <2>2, <2>3, Writes
  <1>4. Settled'
    <2> SUFFICES ASSUME NEW s \in Views(w)' PROVE s.stat <= s.reps /\ (s.up /\ s.seen => s.stat = s.reps)
      BY DEF Settled
    <2>1. NoSfset.stat = 0 /\ NoSfset.reps = 0
      BY DEF NoSfset
    <2>. QED
      BY <1>1, <1>3, <2>1, ViewMoves DEF CopyInv, Settled
  <1>. QED
    BY <1>3, <1>4 DEF Api

\* No copy gets ahead of the one it is taken from.
LEMMA CopiesBehindStep ==
    ASSUME Base, Base', CopyInv, [Next]_vars
    PROVE  CopiesBehind'
  <1> DEFINE w == "ndbmtd"
  <1>1. w \in Workloads /\ "mgmd" \in Workloads /\ IndInv /\ Gens # {} /\ 1 \in Gens
    BY ConstantsAssumption DEF Workloads, Base, Gens
  <1>2. /\ Api \in Views(w) /\ Cached \in Views(w) /\ Read \in Views(w)
        /\ \A s \in Views(w) : s.reps \in Nat /\ s.stat \in Nat
    BY <1>1, Ranges DEF Views, Api, Cached, Read
  <1>3. /\ Api.reps <= Api'.reps /\ Api'.reps \in Nat
        /\ Api.stat <= Api'.stat /\ Api'.stat \in Nat
    <2>1. Api' \in Sfsets
      BY <1>1 DEF Base, IndInv, TypeOK, Api
    <2>. QED
      BY <2>1, NodesStay, SettledStep DEF Sfsets
  <1>4. sfCache' \in {sfCache, sf} /\ \A v \in Workloads : sc'.sf[v] \in {sc.sf[v], sfCache[v], NoSfset}
    BY <1>1, CachesMove, CopyMoves
  <1>5. Cached' \in {Cached, Api} /\ Read' \in {Read, Cached, NoSfset}
    BY <1>1, <1>4 DEF Cached, Api, Read
  <1>6. /\ Read.reps <= Cached.reps /\ Cached.reps <= Api.reps
        /\ Read.stat <= Cached.stat /\ Cached.stat <= Api.stat
    BY DEF CopyInv, CopiesBehind
  <1>7. NoSfset.reps = 0 /\ NoSfset.stat = 0 /\ NoSfset.gen = 0
    BY DEF NoSfset
  <1>8. /\ Read'.reps <= Cached'.reps /\ Cached'.reps <= Api'.reps
        /\ Read'.stat <= Cached'.stat /\ Cached'.stat <= Api'.stat
    BY <1>2, <1>3, <1>5, <1>6, <1>7
  <1>9. sc'.sf["mgmd"].gen <= sfCache'["mgmd"].gen
    <2>1. /\ sc.sf["mgmd"].gen <= sfCache["mgmd"].gen /\ sfCache["mgmd"].gen <= sf["mgmd"].gen
          /\ sc.sf["mgmd"].gen \in Nat /\ sfCache["mgmd"].gen \in Nat /\ sf["mgmd"].gen \in Nat
      BY <1>1, Ranges DEF CopyInv, CopiesBehind, Views
    <2>. QED
      BY <1>1, <1>4, <1>7, <2>1
  <1>10. ASSUME NEW s \in Views(w)', Exists(s) PROVE s.reps >= Nodes(1)'
    <2>1. Nodes(1)' = Nodes(1) /\ Nodes(1) \in Nat
      <3>1. specs'[1] = specs[1]
        BY <1>1, LevelGrows, Ranges
      <3>. QED
        BY <1>1, <3>1 DEF Nodes, IndInv, TypeOK, SpecContent
    <2>2. \A v \in Views(w) : Exists(v) => v.reps >= Nodes(1)
      BY DEF CopyInv, CopiesBehind
    <2>3. CASE s = sf'[w]
      <3>1. CASE Exists(Api)
        BY <1>2, <1>3, <2>1, <2>2, <2>3, <3>1 DEF Api
      <3>2. CASE ~Exists(Api) /\ ~MadeNodes
        <4>1. SameNodes
          BY <3>2, NodesWritten, Zenon DEF StartedNodes, Unannotated, Retemplated
        <4>. QED
          BY <1>10, <2>3, <3>2, <4>1 DEF SameNodes, Exists, Api
      <3>3. CASE MadeNodes
        BY <2>1, <2>3, <3>3 DEF MadeNodes, Api
      <3>. QED
        BY <3>1, <3>2, <3>3
    <2>4. CASE s = NoSfset
      BY <1>10, <2>4 DEF NoSfset, Exists
    <2>. QED
      BY <1>1, <1>10, <2>1, <2>2, <2>3, <2>4, ViewMoves
  <1>. QED
    BY <1>8, <1>9, <1>10 DEF CopiesBehind, Exists

\* A sync that is past a StatefulSet has been there just before, or has left
\* it to the API server with the metadata.generation of its copy.
LEMMA EntersPast ==
    ASSUME Base, [Next]_vars, NEW w \in {"mgmd", "ndbmtd"}, pc' \in Past(w), pc \notin Past(w)
    PROVE  sc' = sc /\ (sc.sf[w].gen = sc.cs.gen \/ sf'[w].spec = sc.sf[w].spec)
  <1>1. SyncStep /\ pc \in Steps /\ pc' \in Following[pc]
    <2>1. pc' # "idle" /\ pc' # "config"
      BY DEF Past, Last
    <2>. QED
      BY <2>1, Control DEF SyncBegin, Goto
  <1>2. CASE w = "mgmd"
    <2>1. pc = "rmgmd" /\ pc' = "rdata"
      BY <1>1, <1>2 DEF Following, Steps, Past, Last
    <2>2. ReconcileManagementNodeStatefulSet
      BY <1>1, <2>1, ActionAt
    <2>. QED
      BY <1>2, <2>1, <2>2 DEF ReconcileManagementNodeStatefulSet, ReconcileStatefulSet,
         PatchStatefulSet, workloadHasConfigGeneration
  <1>3. CASE w = "ndbmtd"
    <2>1. pc = "rdata" /\ pc' = "podver"
      BY <1>1, <1>3 DEF Following, Steps, Past, Last
    <2>2. ReconcileDataNodeStatefulSet
      BY <1>1, <2>1, ActionAt
    <2>. QED
      BY <1>3, <2>1, <2>2 DEF ReconcileDataNodeStatefulSet, ReconcileStatefulSet,
         PatchStatefulSet, workloadHasConfigGeneration
  <1>. QED
    BY <1>2, <1>3

\* A sync that is past a StatefulSet keeps its copy.
LEMMA PastKept ==
    ASSUME Base, [Next]_vars, NEW w \in {"mgmd", "ndbmtd"}, pc' \in Past(w), pc \in Past(w)
    PROVE  sc' = sc
  <1>1. pc' # "idle" /\ pc' # "config" /\ pc' # "status"
    BY DEF Past, Last
  <1>2. pc \notin {"config", "mgmd", "ndbmtd", "mysqld"}
    BY DEF Past, Last
  <1>3. CASE SyncStep
    <2>1. ~FinishSync
      BY <1>1 DEF FinishSync, PatchConfigMap, Goto
    <2>. QED
      BY <1>1, <1>2, <1>3, <2>1, ReadsFirst
  <1>. QED
    BY <1>1, <1>3, Control DEF SyncBegin, Goto

\* What a sync knows of its copies stays true.
LEMMA SyncKnowsStep ==
    ASSUME Base, Base', CopyInv, VersionsGrow', SpecDetermines', [Next]_vars
    PROVE  SyncKnows'
  <1>1. IndInv /\ IndInv' /\ "ndbmtd" \in Workloads /\ "mgmd" \in Workloads
    BY DEF Base, Workloads
  <1>2. ASSUME pc' \in Reading PROVE Exists(Read)'
    <2>1. CASE pc \in Reading /\ sc'.sf["ndbmtd"] = sc.sf["ndbmtd"]
      BY <2>1 DEF CopyInv, SyncKnows, Read, Exists
    <2>2. CASE pc = "ndbmtd" /\ pc' = "mysqld" /\ sc'.sf["ndbmtd"] = sfCache["ndbmtd"]
      <3>1. SyncStep
        BY <2>2, Control DEF SyncBegin
      <3>2. EnsureDataNodeStatefulSet
        BY <2>2, <3>1, ActionAt
      <3>3. Exists(sfCache["ndbmtd"])
        BY <2>2, <3>2 DEF EnsureDataNodeStatefulSet, EnsureStatefulSet, Goto
      <3>. QED
        BY <2>2, <3>3 DEF Read, Exists
    <2>. QED
      BY <1>1, <1>2, <2>1, <2>2, CopyKept DEF Reading
  <1>3. ASSUME pc' \in Checked \cup Last, Read'.gen = sc'.cs.gen PROVE Read'.up /\ Read'.seen
    <2>1. /\ sc'.cs = sc.cs /\ sc'.sf["ndbmtd"] = sc.sf["ndbmtd"] /\ pc \in Reading
      BY <1>1, <1>3, CopyKept DEF Reading, Checked, Last
    <2>2. CASE pc \in Checked \cup Last
      BY <1>3, <2>1, <2>2 DEF CopyInv, SyncKnows, Read
    <2>3. CASE pc = "mysqld"
      <3>1. SyncStep /\ pc' # "status"
        BY <1>3, <2>3, Control DEF SyncBegin, Checked, Last
      <3>2. ValidateMySQLServerStatefulSet
        BY <2>3, <3>1, ActionAt
      <3>3. ensureWorkloadsReadiness(sc')
        BY <3>1, <3>2 DEF ValidateMySQLServerStatefulSet, Goto
      <3>4. Exists(Read')
        BY <1>2, <1>3 DEF Reading, Exists
      <3>. QED
        BY <1>3, <3>3, <3>4 DEF ensureWorkloadsReadiness, UpdatedReady, workloadHasConfigGeneration,
           statefulsetReady, Read
    <2>. QED
      BY <2>1, <2>2, <2>3 DEF Reading
  <1>4. ASSUME NEW w \in {"mgmd", "ndbmtd"}, pc' \in Past(w)
        PROVE  sc'.sf[w].gen \in Gens /\ specs'[sc'.sf[w].gen].nodes = specs'[sc'.cs.gen].nodes
    <2>1. w \in Workloads /\ sc'.sf[w] \in Views(w)' /\ sf'[w] \in Views(w)'
      BY <1>4 DEF Workloads, Views
    <2>2. sf'[w].gen = sc'.cs.gen /\ sf'[w].gen \in Gens /\ sf'[w].gen <= nc'.gen
      <3>1. sf'[w].gen = sc'.cs.gen
        BY <1>1, <1>4, <2>1 DEF IndInv, Progress
      <3>2. pc' \in Configured
        BY <1>4 DEF Past, Last, Configured, Steps
      <3>3. sc'.cs.gen \in Gens /\ sc'.cs.gen <= cm'.gen
        BY <1>1, <3>2 DEF IndInv, SyncFlow
      <3>4. cm'.gen <= ncCache'.gen /\ ncCache'.gen <= nc'.gen
        BY <1>1 DEF IndInv, Flow
      <3>5. cm'.gen \in Nat /\ ncCache'.gen \in Nat /\ nc'.gen \in Nat /\ sc'.cs.gen \in Nat
        BY <1>1, ConstantsAssumption DEF IndInv, TypeOK, ConfigMaps, NdbClusters
      <3>. QED
        BY <3>1, <3>3, <3>4, <3>5
    <2>3. CASE pc \in Past(w)
      <3>1. sc' = sc
        BY <1>4, <2>3, PastKept
      <3>2. sc.sf[w].gen \in Gens /\ Nodes(sc.sf[w].gen) = Nodes(sc.cs.gen)
        BY <1>4, <2>3 DEF CopyInv, SyncKnows
      <3>3. sc.sf[w].gen <= nc.gen
        BY <2>1, Ranges DEF Views
      <3>4. pc \in Configured
        BY <1>4, <2>3 DEF Past, Last, Configured, Steps
      <3>5. sc.cs.gen \in Gens /\ sc.cs.gen <= nc.gen
        BY <3>4, Ranges
      <3>. QED
        BY <1>1, <3>1, <3>2, <3>3, <3>5, LevelGrows DEF Nodes
    <2>4. CASE pc \notin Past(w)
      <3>1. sc' = sc /\ (sc.sf[w].gen = sc.cs.gen \/ sf'[w].spec = sc.sf[w].spec)
        BY <1>4, <2>4, EntersPast
      <3>2. CASE sc.sf[w].gen = sc.cs.gen
        BY <2>2, <3>1, <3>2
      <3>3. CASE sf'[w].spec = sc.sf[w].spec
        <4> DEFINE s == sc'.sf[w]
        <4>1. Exists(sf'[w])
          BY <2>1, <2>2 DEF Base, Existence, Exists
        <4>2. s.spec = sf'[w].spec /\ Exists(s)
          BY <3>1, <3>3, <4>1 DEF Exists
        <4>3. Template(w, sc.sf[w])' = Template(w, sf[w])'
          BY <2>1, <4>2 DEF SpecDetermines, Exists
        <4>4. specs'[s.gen].ver[w] = specs'[sf'[w].gen].ver[w]
          BY <4>3 DEF Template
        <4>5. s.gen \in Gens /\ s.gen <= sf'[w].gen
          BY <1>1, <2>1, <4>2 DEF Base, Existence, Exists, IndInv, Copies
        <4>6. \A g \in Gens : g \in Nat /\ specs'[g].ver[w] \in Nat
          BY <1>1, <2>1, ConstantsAssumption DEF Gens, IndInv, TypeOK, SpecContent
        <4>7. s.gen < sf'[w].gen => specs'[s.gen].nodes = specs'[sf'[w].gen].nodes
          <5>1. ASSUME s.gen < sf'[w].gen, specs'[s.gen].nodes # specs'[sf'[w].gen].nodes
                PROVE  FALSE
            <6>1. specs'[s.gen].ver[w] < specs'[sf'[w].gen].ver[w]
              BY <2>1, <2>2, <4>5, <5>1 DEF VersionsGrow, Nodes
            <6>. QED
              BY <2>2, <4>4, <4>5, <4>6, <6>1
          <5>. QED
            BY <5>1
        <4>. QED
          BY <2>2, <4>5, <4>6, <4>7
      <3>. QED
        BY <3>1, <3>2, <3>3
    <2>. QED
      BY <2>3, <2>4
  <1>5. ASSUME pc' \in {"nodegroups", "reorg", "added"}
        PROVE  Read'.add /\ Read'.reps = specs'[sc'.cs.gen].nodes
    <2>1. pc' \in Past("ndbmtd") /\ pc' # "idle" /\ pc' # "config"
      BY <1>5 DEF Past, Last
    <2>2. sc' = sc /\ pc \in Past("ndbmtd") /\ (pc \in {"nodegroups", "reorg", "added"} \/ pc = "addnode")
      <3>1. pc \in {"nodegroups", "reorg", "added"} \/ pc = "addnode"
        <4>1. CASE SyncStep /\ pc \in Steps /\ pc' \in Following[pc]
          BY <1>5, <4>1 DEF Following, Steps
        <4>. QED
          BY <1>5, <2>1, <4>1, Control DEF SyncBegin, Goto
      <3>2. pc \in Past("ndbmtd")
        BY <3>1 DEF Past, Last
      <3>. QED
        BY <2>1, <3>1, <3>2, PastKept
    <2>3. pc \in Configured
      BY <2>2 DEF Configured, Steps
    <2>4. sc.cs.gen \in Gens /\ sc.cs.gen <= nc.gen
      BY <2>3, Ranges
    <2>5. specs'[sc'.cs.gen].nodes = Nodes(sc.cs.gen)
      BY <1>1, <2>2, <2>4, LevelGrows DEF Nodes
    <2>6. CASE pc \in {"nodegroups", "reorg", "added"}
      BY <2>2, <2>5, <2>6 DEF CopyInv, SyncKnows, Read
    <2>7. CASE pc = "addnode"
      <3> DEFINE k == Nodes(sc.cs.gen)
                 new == [Read EXCEPT !.reps = k]
      <3>1. SyncStep
        BY <1>5, <2>7, Control DEF SyncBegin
      <3>2. StartNewDataNodes
        BY <2>7, <3>1, ActionAt
      <3>3. Read.add /\ (Read.reps = k \/ (Read.reps # k /\ PatchStatefulSet("ndbmtd", Read, new, "nodegroups", "status")))
        <4>1. CASE ~Read.add \/ Read.reps = k
          <5>1. pc' = IF Read.add THEN "nodegroups" ELSE "root"
            BY <3>2, <4>1, Zenon DEF StartNewDataNodes, Read, Nodes, Goto
          <5>. QED
            BY <1>5, <4>1, <5>1
        <4>2. CASE ~(~Read.add \/ Read.reps = k)
          BY <3>2, <4>2, Zenon DEF StartNewDataNodes, Read, Nodes
        <4>. QED
          BY <4>1, <4>2
      <3>4. ASSUME Read.reps # k, PatchStatefulSet("ndbmtd", Read, new, "nodegroups", "status")
            PROVE  FALSE
        <4>1. Read \in Sfsets /\ k \in Nat /\ sf \in [Workloads -> Sfsets]
          BY <1>1, <2>4 DEF IndInv, TypeOK, Read, SpecContent, Nodes
        <4>2. new \in Sfsets /\ new.reps = k
          BY <4>1 DEF Sfsets
        <4> HIDE DEF new, k
        <4>3. sf'["ndbmtd"] = Patched("ndbmtd", Read, new) /\ sf'["ndbmtd"].spec = Read.spec
          BY <1>1, <1>5, <3>4, <4>1 DEF PatchStatefulSet
        <4>4. sf'["ndbmtd"].reps = k
          BY <1>1, <3>4, <4>1, <4>2, <4>3, PatchedFields DEF Merge
        <4>5. Read \in Views("ndbmtd")' /\ Exists(Read)
          BY <2>2, <2>7 DEF Views, Read, CopyInv, SyncKnows, Reading, Last
        <4>6. Read.reps = sf'["ndbmtd"].reps
          BY <1>1, <4>3, <4>5 DEF SpecDetermines, Exists
        <4>. QED
          BY <3>4, <4>4, <4>6
      <3>. QED
        BY <2>2, <2>5, <3>3, <3>4 DEF Read
    <2>. QED
      BY <2>2, <2>6, <2>7
  <1>. QED
    BY <1>2, <1>3, <1>4, <1>5 DEF SyncKnows, Exists, Read, Nodes

\* At first there is no StatefulSet and no sync.
LEMMA CopyInit == Init => CopyInv
  <1> SUFFICES ASSUME Init PROVE CopyInv
    OBVIOUS
  <1>1. /\ nc.gen = 1 /\ pc = "idle" /\ \A w \in Workloads : \A s \in Views(w) : s = NoSfset
        /\ \A g \in Gens : g \in Nat /\ g >= 1
    BY ConstantsAssumption DEF Init, Views, NoSync, Gens
  <1>2. "mgmd" \in Workloads /\ "ndbmtd" \in Workloads
    BY DEF Workloads
  <1>3. Api = NoSfset /\ Cached = NoSfset /\ Read = NoSfset
    BY <1>1, <1>2 DEF Views, Api, Cached, Read
  <1>4. /\ NoSfset.spec = 0 /\ NoSfset.gen = 0 /\ NoSfset.reps = 0 /\ NoSfset.stat = 0
        /\ ~NoSfset.up
    BY DEF NoSfset
  <1>5. VersionsGrow
    BY <1>1 DEF VersionsGrow
  <1>6. SpecDetermines
    BY <1>1, <1>4 DEF SpecDetermines, Exists
  <1>7. Settled
    BY <1>1, <1>2, <1>4 DEF Settled
  <1>8. CopiesBehind
    BY <1>1, <1>2, <1>3, <1>4 DEF CopiesBehind, Exists, Views
  <1>9. SyncKnows
    BY <1>1 DEF SyncKnows, Reading, Checked, Last, Past
  <1>. QED
    BY <1>5, <1>6, <1>7, <1>8, <1>9 DEF CopyInv

\* Every step keeps what the copies tell.
LEMMA CopyStep ==
    ASSUME Base, Base', CopyInv, [Next]_vars
    PROVE  CopyInv'
  <1>1. VersionsGrow' /\ SpecDetermines'
    BY VersionsGrowStep, SpecDeterminesStep DEF CopyInv
  <1>. QED
    BY <1>1, SettledStep, CopiesBehindStep, SyncKnowsStep DEF CopyInv

\* The order of the generations and of their data nodes.
LEMMA NodesFacts ==
    ASSUME Base, CopyInv
    PROVE  /\ nc.gen \in Gens /\ nc.gen \in Nat /\ nc.gen >= 1
           /\ \A g \in Gens : g \in Nat /\ g >= 1 /\ Nodes(g) \in Nat
           /\ \A g, h \in Gens : g <= h /\ h <= nc.gen => Nodes(g) <= Nodes(h)
           /\ nc.gen > 1 => nc.gen - 1 \in Gens /\ Nodes(nc.gen - 1) <= Nodes(nc.gen) /\ Exists(Api)
           /\ Growing => Nodes(nc.gen - 1) < Nodes(nc.gen)
           /\ Api \in Views("ndbmtd") /\ Cached \in Views("ndbmtd") /\ Read \in Views("ndbmtd")
           /\ nc.gen <= Api.gen + 1 /\ Api.gen <= cm.gen /\ cm.gen <= nc.gen /\ cm.gen \in Nat
           /\ Cached.gen <= Api.gen /\ Read.gen <= Cached.gen
           /\ \A s \in Views("ndbmtd") :
                 /\ s.gen \in Nat /\ s.gen <= Api.gen /\ s.reps \in Nat /\ s.add \in BOOLEAN
                 /\ s.gen \in Gens <=> Exists(s)
                 /\ s.gen = nc.gen => s.reps <= Nodes(nc.gen)
                 /\ Growing /\ s.gen < nc.gen => s.reps < Nodes(nc.gen)
           /\ pc \in Configured => /\ sc.cs.gen \in Gens /\ sc.cs.gen \in Nat /\ Nodes(sc.cs.gen) \in Nat
                                   /\ sc.nc.gen \in Nat
                                   /\ Api.gen <= sc.cs.gen /\ sc.cs.gen <= cm.gen
                                   /\ cm.gen <= sc.nc.gen /\ sc.nc.gen <= nc.gen
                                   /\ nc.gen <= sc.cs.gen + 1
  <1> DEFINE w == "ndbmtd"
  <1>1. w \in Workloads /\ Api \in Views(w) /\ Cached \in Views(w) /\ Read \in Views(w)
        /\ sf[w] = Api /\ sfCache[w] = Cached /\ sc.sf[w] = Read
    BY DEF Workloads, Views, Api, Cached, Read
  <1>2. /\ nc.gen \in Gens /\ nc.gen \in Nat /\ nc.gen >= 1
        /\ \A g \in Gens : g \in Nat /\ g >= 1
    BY Ranges
  <1>3. \A g \in Gens : Nodes(g) \in Nat
    BY DEF Base, IndInv, TypeOK, SpecContent, Nodes
  <1>4. \A g, h \in Gens : g <= h /\ h <= nc.gen => Nodes(g) <= Nodes(h)
    BY DEF Base, RollInv, NodesGrow, Nodes
  <1>5. nc.gen > 1 => /\ nc.gen - 1 \in Gens /\ Nodes(nc.gen - 1) <= Nodes(nc.gen) /\ Exists(Api)
    <2>1. nc.gen > 1 => nc.gen - 1 \in Gens
      BY <1>2, ConstantsAssumption DEF Gens
    <2>2. nc.gen > 1 => Nodes(nc.gen - 1) <= Nodes(nc.gen)
      BY <1>2, <1>4, <2>1
    <2>3. nc.gen > 1 => Exists(Api)
      BY <1>1, Ranges
    <2>. QED
      BY <2>1, <2>2, <2>3
  <1>6. Growing => Nodes(nc.gen - 1) < Nodes(nc.gen)
    <2>1. ASSUME Growing PROVE Nodes(nc.gen - 1) < Nodes(nc.gen)
      <3>1. Nodes(nc.gen - 1) \in Nat /\ Nodes(nc.gen) \in Nat
        BY <1>2, <1>3, <1>5, <2>1 DEF Growing
      <3>. QED
        BY <1>5, <2>1, <3>1 DEF Growing
    <2>. QED
      BY <2>1
  <1>7. /\ nc.gen <= Api.gen + 1 /\ Api.gen <= cm.gen /\ cm.gen <= nc.gen /\ cm.gen \in Nat
        /\ Cached.gen <= Api.gen /\ Read.gen <= Cached.gen
    BY <1>1, Ranges DEF Base, FlagInv, CopyOrder
  <1>8. ASSUME NEW s \in Views(w)
        PROVE  /\ s.gen \in Nat /\ s.gen <= Api.gen /\ s.reps \in Nat /\ s.add \in BOOLEAN
               /\ s.gen \in Gens <=> Exists(s)
               /\ s.gen = nc.gen => s.reps <= Nodes(nc.gen)
               /\ Growing /\ s.gen < nc.gen => s.reps < Nodes(nc.gen)
    <2>1. /\ s.gen \in Nat /\ s.gen <= Api.gen /\ s.reps \in Nat /\ s \in Sfsets
          /\ s.gen \in Gens <=> Exists(s)
          /\ ~Exists(s) => s.reps = 0
      BY <1>1, Ranges
    <2>2. s.add \in BOOLEAN
      BY <2>1 DEF Sfsets
    <2>3. s.gen \in Gens => s.reps <= Nodes(s.gen)
      BY DEF Base, RollInv, NodesFit, Nodes
    <2>4. ASSUME Growing, s.gen < nc.gen PROVE s.reps < Nodes(nc.gen)
      <3>1. nc.gen - 1 \in Gens /\ Nodes(nc.gen - 1) \in Nat /\ Nodes(nc.gen) \in Nat
        BY <1>2, <1>3, <1>5, <2>4 DEF Growing
      <3>2. CASE s.gen \in Gens
        <4>1. s.gen <= nc.gen - 1 /\ nc.gen - 1 <= nc.gen
          BY <1>2, <2>1, <2>4
        <4>2. Nodes(s.gen) <= Nodes(nc.gen - 1) /\ Nodes(s.gen) \in Nat
          BY <1>3, <1>4, <3>1, <3>2, <4>1
        <4>. QED
          BY <1>6, <2>1, <2>3, <2>4, <3>1, <3>2, <4>2
      <3>3. CASE s.gen \notin Gens
        BY <1>6, <2>1, <2>4, <3>1, <3>3
      <3>. QED
        BY <3>2, <3>3
    <2>. QED
      BY <1>2, <2>1, <2>2, <2>3, <2>4
  <1>9. pc \in Configured => /\ sc.cs.gen \in Gens /\ sc.cs.gen \in Nat /\ Nodes(sc.cs.gen) \in Nat
                             /\ sc.nc.gen \in Nat
                             /\ Api.gen <= sc.cs.gen /\ sc.cs.gen <= cm.gen
                             /\ cm.gen <= sc.nc.gen /\ sc.nc.gen <= nc.gen
                             /\ nc.gen <= sc.cs.gen + 1
    BY <1>1, <1>3, Ranges
  <1>. QED
    BY <1>1, <1>2, <1>3, <1>4, <1>5, <1>6, <1>7, <1>8, <1>9
-----------------------------------------------------------------------------
(* How the annotation comes and goes *)

\* What a sync that writes a template of the data nodes finds.
LEMMA TemplateFrom ==
    ASSUME Base, CopyInv, NEW old \in {Cached, Read}, Retemplated(old)
    PROVE  /\ old \in Views("ndbmtd") /\ pc \in Configured /\ Exists(old) /\ old.gen \in Gens
           /\ old.reps >= Nodes(1) /\ (old = Cached \/ pc \in Reading)
  <1>1. old \in Views("ndbmtd") /\ "ndbmtd" \in Workloads
    BY NodesFacts DEF Workloads
  <1>2. pc \in Configured /\ Exists(old) /\ (old = Cached \/ pc = "rdata")
    BY DEF Retemplated
  <1>3. old.reps >= Nodes(1)
    BY <1>1, <1>2 DEF CopyInv, CopiesBehind
  <1>4. old.gen \in Gens
    BY <1>1, <1>2, NodesFacts
  <1>. QED
    BY <1>1, <1>2, <1>3, <1>4 DEF Reading, Checked

\* Only a sync that adds data nodes for the current generation annotates.
LEMMA AnnotationSet ==
    ASSUME Base, CopyInv, GrowInv, [Next]_vars, ~Api.add, Api'.add
    PROVE  /\ Growing /\ Api'.gen = nc.gen /\ sc.cs.gen = nc.gen
           /\ \E old \in {Cached, Read} :
                 Retemplated(old) /\ ~old.add /\ old.reps < Nodes(nc.gen)
  <1> DEFINE c == nc.gen
  <1>1. PICK old \in {Cached, Read} : Retemplated(old)
    <2>1. Api.add \in BOOLEAN
      BY NodesFacts
    <2>2. Merge(Api.add, Read.add, FALSE) # TRUE
      BY <2>1 DEF Merge
    <2>3. ~Unannotated
      BY <2>2 DEF Unannotated
    <2>4. ~SameNodes /\ ~MadeNodes /\ ~StartedNodes
      BY DEF SameNodes, MadeNodes, StartedNodes
    <2>. QED
      BY <2>3, <2>4, NodesWritten
  <1>2. /\ old \in Views("ndbmtd") /\ pc \in Configured /\ Exists(old) /\ old.gen \in Gens
        /\ old.reps >= Nodes(1) /\ (old = Cached \/ pc \in Reading)
    BY <1>1, TemplateFrom
  <1>3. ~old.add /\ old.reps < Nodes(sc.cs.gen)
    <2>1. old.add \in BOOLEAN /\ Api.add \in BOOLEAN
      BY <1>2, NodesFacts
    <2>2. Api'.add = Merge(Api.add, old.add, old.reps < Nodes(sc.cs.gen))
      BY <1>1 DEF Retemplated
    <2>3. CASE old.reps < Nodes(sc.cs.gen)
      <3>1. Merge(Api.add, old.add, TRUE) # Api.add
        BY <2>1, <2>2, <2>3 DEF Merge
      <3>. QED
        BY <2>1, <2>3, <3>1 DEF Merge
    <2>4. CASE ~(old.reps < Nodes(sc.cs.gen))
      <3>1. old.reps \in Nat /\ Nodes(sc.cs.gen) \in Nat
        BY <1>2, NodesFacts
      <3>2. (old.reps < Nodes(sc.cs.gen)) = FALSE
        BY <2>4, <3>1
      <3>3. Api'.add = Merge(Api.add, old.add, FALSE)
        BY <2>2, <3>2
      <3>. QED
        BY <2>1, <3>3 DEF Merge
    <2>. QED
      BY <2>3, <2>4
  <1>4. sc.cs.gen \in Gens /\ sc.cs.gen \in Nat /\ sc.cs.gen <= c /\ c <= sc.cs.gen + 1
        /\ c \in Nat /\ c >= 1 /\ Nodes(sc.cs.gen) \in Nat /\ old.reps \in Nat /\ cm.gen \in Nat
    BY <1>2, NodesFacts
  <1>5. c > 1 => c - 1 \in Gens /\ Nodes(c - 1) \in Nat /\ old.reps >= Nodes(c - 1)
    <2>1. ASSUME c > 1 PROVE c - 1 \in Gens /\ Nodes(c - 1) \in Nat /\ old.reps >= Nodes(c - 1)
      <3>1. c - 1 \in Gens /\ Nodes(c - 1) \in Nat
        BY <2>1, NodesFacts
      <3>2. Floor(c - 1)
        BY <1>4, <2>1 DEF GrowInv, Floors
      <3>3. CASE old = Cached
        BY <3>1, <3>2, <3>3 DEF Floor
      <3>4. CASE old = Read /\ pc \in Reading
        BY <3>1, <3>2, <3>4 DEF Floor
      <3>. QED
        BY <1>2, <3>1, <3>3, <3>4
    <2>. QED
      BY <2>1
  <1>6. sc.cs.gen = c /\ c > 1
    <2>1. sc.cs.gen # 1
      BY <1>2, <1>3, <1>4
    <2>2. c > 1
      BY <1>4, <2>1, ConstantsAssumption DEF Gens
    <2>3. sc.cs.gen # c - 1
      BY <1>3, <1>4, <1>5, <2>2
    <2>. QED
      BY <1>4, <2>2, <2>3
  <1>7. Growing
    BY <1>3, <1>4, <1>5, <1>6 DEF Growing
  <1>8. Api'.gen = c
    BY <1>1, <1>6 DEF Retemplated
  <1>. QED
    BY <1>1, <1>3, <1>6, <1>7, <1>8

\* At the current generation it does not come back.
LEMMA NotReadded ==
    ASSUME Base, CopyInv, GrowInv, [Next]_vars, Api.gen = nc.gen, ~Api.add
    PROVE  ~Api'.add
  <1> SUFFICES ASSUME Api'.add PROVE FALSE
    OBVIOUS
  <1>1. Growing /\ sc.cs.gen = nc.gen
    BY AnnotationSet
  <1>2. PICK old \in {Cached, Read} : Retemplated(old) /\ ~old.add /\ old.reps < Nodes(nc.gen)
    BY AnnotationSet
  <1>3. old \in Views("ndbmtd") /\ (old = Cached \/ pc \in Reading)
    BY <1>2, TemplateFrom
  <1>4. old.gen = nc.gen
    BY <1>1, <1>2, <1>3 DEF GrowInv, Annotated
  <1>. QED
    BY <1>2, <1>3, <1>4 DEF GrowInv, Annotated

\* A generation that adds data nodes gets into the StatefulSet with it.
LEMMA FirstAnnotated ==
    ASSUME Base, CopyInv, GrowInv, [Next]_vars, Growing, Api.gen < nc.gen, Api'.gen = nc.gen
    PROVE  Api'.add /\ Api'.reps = Api.reps
  <1> DEFINE c == nc.gen
  <1>1. c \in Nat /\ c > 1 /\ ~Api.add /\ Api.gen \in Nat
    BY NodesFacts DEF Growing, GrowInv, Annotation
  <1>2. PICK old \in {Cached, Read} : Retemplated(old)
    <2>1. ~SameNodes /\ ~StartedNodes /\ ~Unannotated
      <3>1. Api'.gen # Api.gen
        BY <1>1
      <3>. QED
        BY <3>1, Zenon DEF SameNodes, StartedNodes, Unannotated
    <2>2. ~MadeNodes
      BY <1>1 DEF MadeNodes
    <2>. QED
      BY <2>1, <2>2, NodesWritten
  <1>3. old \in Views("ndbmtd") /\ pc \in Configured /\ old.gen \in Gens
    BY <1>2, TemplateFrom
  <1>4. sc.cs.gen = c /\ Api'.reps = Api.reps
        /\ Api'.add = Merge(Api.add, old.add, old.reps < Nodes(sc.cs.gen))
    BY <1>2 DEF Retemplated
  <1>5. old.gen < c /\ old.reps < Nodes(c)
    BY <1>1, <1>3, NodesFacts
  <1>6. ~old.add
    <2> SUFFICES ASSUME old.add PROVE FALSE
      OBVIOUS
    <2>1. CASE pc = "rdata" /\ old = Read
      <3>1. sc.sf["mgmd"].gen \in Gens /\ Nodes(sc.sf["mgmd"].gen) = Nodes(c)
        BY <1>4, <2>1 DEF CopyInv, SyncKnows, Past
      <3>2. sc.sf["mgmd"].gen <= c /\ sc.sf["mgmd"].gen \in Nat
        BY Ranges DEF Views, Workloads
      <3>3. sc.sf["mgmd"].gen = c
        <4>1. ASSUME sc.sf["mgmd"].gen # c PROVE FALSE
          <5>1. sc.sf["mgmd"].gen <= c - 1 /\ c - 1 \in Gens /\ c - 1 <= c
            BY <1>1, <3>2, <4>1, NodesFacts
          <5>2. Nodes(sc.sf["mgmd"].gen) <= Nodes(c - 1) /\ Nodes(c - 1) < Nodes(c)
            BY <3>1, <5>1, NodesFacts
          <5>3. Nodes(c - 1) \in Nat /\ Nodes(c) \in Nat
            BY <5>1, NodesFacts
          <5>. QED
            BY <3>1, <5>2, <5>3
        <4>. QED
          BY <4>1
      <3>4. pc \in Reading
        BY <2>1 DEF Reading, Checked
      <3>5. ~Read.add
        BY <3>3, <3>4 DEF GrowInv, Leftover
      <3>. QED
        BY <2>1, <3>5
    <2>2. CASE old = Cached /\ ~statefulsetUpdateComplete(old)
      <3>1. Cached.gen < cm.gen
        BY <1>1, <1>3, <1>4, <1>5, <2>2, NodesFacts
      <3>. QED
        BY <2>2, <3>1 DEF GrowInv, Leftover
    <2>. QED
      BY <1>2, <2>1, <2>2 DEF Retemplated
  <1>7. Api'.add
    <2>1. (old.reps < Nodes(sc.cs.gen)) = TRUE
      BY <1>4, <1>5
    <2>2. Api'.add = Merge(Api.add, old.add, TRUE)
      BY <1>4, <2>1
    <2>. QED
      BY <1>6, <2>2 DEF Merge
  <1>. QED
    BY <1>4, <1>7
-----------------------------------------------------------------------------
(* The invariant of online add is inductive *)

\* Where the data nodes of a generation are, they stay.
LEMMA FloorKept ==
    ASSUME Base, CopyInv, [Next]_vars, NEW p \in Gens, p <= nc.gen, Floor(p)
    PROVE  Floor(p)'
  <1>1. Nodes(p)' = Nodes(p) /\ Nodes(p) \in Nat
    BY LevelGrows, NodesFacts DEF Nodes, Base
  <1>2. /\ Api.reps \in Nat /\ Cached.reps \in Nat /\ Read.reps \in Nat
        /\ Api.reps <= Api'.reps /\ Api'.reps \in Nat
    BY NodesFacts, NodesStay
  <1>3. Cached' \in {Cached, Api}
    BY CachesMove DEF Cached, Api
  <1>4. pc' \in Reading => (pc \in Reading /\ Read' = Read) \/ Read' = Cached
    BY CopyKept DEF Reading, Read, Cached, Base
  <1>. QED
    BY <1>1, <1>2, <1>3, <1>4 DEF Floor

\* A sync that goes on to the root user has no annotation in its copy, or has
\* just removed it.
LEMMA LateEntered ==
    ASSUME Base, CopyInv, [Next]_vars, pc' \in Late, pc \notin Late
    PROVE  /\ pc \in Configured /\ pc \in Reading /\ pc \in Past("ndbmtd") /\ sc' = sc
           /\ \/ pc = "addnode" /\ ~Read.add /\ sf' = sf
              \/ pc = "added" /\ ~Api'.add
  <1>1. SyncStep /\ pc \in {"addnode", "added"}
    <2>1. pc' # "idle" /\ pc' # "config" /\ pc' # pc
      BY DEF Late
    <2>2. SyncStep /\ pc \in Steps /\ pc' \in Following[pc]
      BY <2>1, Control DEF SyncBegin, Goto
    <2>. QED
      BY <2>2 DEF Following, Steps, Late
  <1>2. pc' = "root"
    BY <1>1, Control DEF Late, Following, Steps, SyncBegin, Goto
  <1>3. pc \in Past("ndbmtd") /\ pc' \in Past("ndbmtd") /\ pc \in Configured /\ pc \in Reading
    BY <1>1, <1>2 DEF Past, Last, Configured, Steps, Reading
  <1>4. sc' = sc
    BY <1>3, PastKept
  <1>5. CASE pc = "addnode"
    <2>1. StartNewDataNodes
      BY <1>1, <1>5, ActionAt
    <2>2. ~Read.add /\ sf' = sf
      <3>1. CASE ~Read.add \/ Read.reps = Nodes(sc.cs.gen)
        <4>1. pc' = (IF Read.add THEN "nodegroups" ELSE "root") /\ sf' = sf
          BY <2>1, <3>1, Zenon DEF StartNewDataNodes, Read, Nodes, Goto
        <4>. QED
          BY <1>2, <4>1
      <3>2. CASE ~(~Read.add \/ Read.reps = Nodes(sc.cs.gen))
        <4>1. PatchStatefulSet("ndbmtd", Read, [Read EXCEPT !.reps = Nodes(sc.cs.gen)], "nodegroups", "status")
          BY <2>1, <3>2, Zenon DEF StartNewDataNodes, Read, Nodes
        <4>2. pc' = "nodegroups" \/ pc' = "status"
          BY <4>1 DEF PatchStatefulSet
        <4>. QED
          BY <1>2, <4>2
      <3>. QED
        BY <3>1, <3>2
    <2>. QED
      BY <1>3, <1>4, <1>5, <2>2
  <1>6. CASE pc = "added"
    <2> DEFINE new == [Read EXCEPT !.add = FALSE]
    <2>1. RemoveAddNodeAnnotation
      BY <1>1, <1>6, ActionAt
    <2>2. PatchStatefulSet("ndbmtd", Read, new, "root", "status")
      BY <2>1, Zenon DEF RemoveAddNodeAnnotation, Read
    <2>3. Read \in Sfsets /\ sf \in [Workloads -> Sfsets] /\ "ndbmtd" \in Workloads /\ Read.add
      BY <1>6 DEF Base, IndInv, TypeOK, Read, Workloads, CopyInv, SyncKnows
    <2>4. new \in Sfsets /\ new.add = FALSE
      BY <2>3 DEF Sfsets
    <2> HIDE DEF new
    <2>5. sf'["ndbmtd"] = Patched("ndbmtd", Read, new)
      BY <2>2, <2>3 DEF PatchStatefulSet
    <2>6. ~sf'["ndbmtd"].add
      BY <2>3, <2>4, <2>5, PatchedFields DEF Merge
    <2>. QED
      BY <1>3, <1>4, <1>6, <2>6 DEF Api
  <1>. QED
    BY <1>1, <1>5, <1>6

\* It has the data nodes of its config.
LEMMA LateFloor ==
    ASSUME Base, CopyInv, GrowInv, [Next]_vars, pc' \in Late, pc \notin Late
    PROVE  Floor(sc.cs.gen)
  <1> DEFINE c == nc.gen
             g == sc.cs.gen
  <1>1. /\ pc \in Configured /\ pc \in Reading /\ pc \in Past("ndbmtd") /\ sc' = sc
        /\ (pc = "addnode" /\ ~Read.add) \/ pc = "added"
    BY LateEntered
  <1>2. g \in Gens /\ g \in Nat /\ g <= c /\ c <= g + 1 /\ c \in Nat /\ g >= 1 /\ Nodes(g) \in Nat
        /\ cm.gen \in Nat
    BY <1>1, NodesFacts
  <1>3. Api.reps \in Nat /\ Cached.reps \in Nat /\ Read.reps \in Nat
        /\ Read.reps <= Cached.reps /\ Cached.reps <= Api.reps
    BY NodesFacts DEF CopyInv, CopiesBehind
  <1>4. CASE Read.reps >= Nodes(g)
    BY <1>2, <1>3, <1>4 DEF Floor
  <1>5. CASE pc = "added"
    BY <1>2, <1>3, <1>5 DEF Floor, CopyInv, SyncKnows
  <1>6. CASE g = c - 1
    BY <1>2, <1>6 DEF GrowInv, Floors
  <1>7. CASE g = c /\ ~Read.add
    <2>1. Read.gen \in Gens /\ Nodes(Read.gen) = Nodes(c)
      BY <1>1, <1>7 DEF CopyInv, SyncKnows, Read
    <2>2. CASE Read.gen = c
      <3>1. ~(Read.reps < Nodes(c))
        BY <1>7, <2>2, NodesFacts DEF GrowInv, Annotated
      <3>. QED
        BY <1>2, <1>3, <1>4, <1>7, <3>1
    <2>3. CASE Read.gen # c
      <3>1. Read.gen <= c - 1 /\ c > 1 /\ Read.gen \in Nat
        <4>1. Read.gen \in Nat /\ Read.gen <= c /\ Read.gen >= 1
          BY <2>1, NodesFacts
        <4>. QED
          BY <1>2, <2>3, <4>1
      <3>2. c - 1 \in Gens /\ c - 1 <= c /\ Nodes(c - 1) <= Nodes(c) /\ Nodes(c - 1) \in Nat /\ Nodes(c) \in Nat
        BY <1>2, <3>1, NodesFacts
      <3>3. Nodes(Read.gen) <= Nodes(c - 1)
        BY <2>1, <3>1, <3>2, NodesFacts
      <3>4. Nodes(c - 1) = Nodes(c)
        BY <2>1, <3>2, <3>3
      <3>5. Floor(c - 1)
        BY <1>2, <3>1 DEF GrowInv, Floors
      <3>. QED
        BY <1>7, <3>4, <3>5 DEF Floor
    <2>. QED
      BY <2>2, <2>3
  <1>. QED
    BY <1>1, <1>2, <1>5, <1>6, <1>7

\* A claim is that of a generation up to the current one.
LEMMA ClaimsGens ==
    ASSUME Base, NEW p \in Claims, p > 0
    PROVE  p \in Gens /\ p <= nc.gen /\ p <= Level /\ p <= sf["ndbmtd"].gen
  <1>1. p \in Nat /\ p <= Level /\ Level <= nc.gen /\ Level \in Nat /\ nc.gen \in Nat /\ nc.gen <= MaxGen
    BY ClaimsBehind, Ranges, ConstantsAssumption DEF Base, Gens
  <1>2. p <= sf["ndbmtd"].gen
    BY DEF Base, IndInv, Copies, Claims, Workloads
  <1>. QED
    BY <1>1, <1>2, ConstantsAssumption DEF Gens

\* A sync that succeeds has the generation it claims in every StatefulSet.
LEMMA SuccessFacts ==
    ASSUME Base, sc.success
    PROVE  /\ pc = "status" /\ pc \in Configured /\ sc.cs.gen = sc.nc.gen
           /\ sf["ndbmtd"].gen = sc.cs.gen
  BY DEF Base, IndInv, Progress, Workloads, Configured, Steps

\* Every step keeps the data nodes of the generations that were seen to.
LEMMA FloorsStep ==
    ASSUME Base, CopyInv, GrowInv, [Next]_vars
    PROVE  Floors'
  <1>1. nc.gen \in Nat /\ nc.gen \in Gens
    BY NodesFacts
  <1>2. ASSUME sc.success \/ pc \in Late
        PROVE  sc.cs.gen \in Gens /\ sc.cs.gen <= nc.gen /\ Floor(sc.cs.gen)
    <2>1. pc \in Configured
      BY <1>2, SuccessFacts DEF Late, Configured, Steps
    <2>2. sc.cs.gen \in Gens /\ sc.cs.gen <= nc.gen
      BY <2>1, Ranges
    <2>3. Floor(sc.cs.gen)
      BY <1>2 DEF GrowInv, Floors
    <2>. QED
      BY <2>2, <2>3
  <1>3. ASSUME NEW p \in Claims' \cup {nc'.gen - 1}, p > 0
        PROVE  p \in Gens /\ p <= nc.gen /\ Floor(p)
    <2>1. CASE p \in Claims
      BY <1>3, <2>1, ClaimsGens DEF GrowInv, Floors
    <2>2. CASE sc.success /\ p = sc.nc.gen
      <3>1. p = sc.cs.gen /\ pc \in Configured
        BY <2>2, SuccessFacts
      <3>. QED
        BY <2>2, <3>1, NodesFacts, Ranges DEF GrowInv, Floors
    <2>3. CASE p = nc'.gen - 1
      <3>1. CASE UpdateSpec
        <4>1. nc'.gen = nc.gen + 1 /\ nc.status.proc = nc.gen
          BY <3>1, Updated
        <4>2. p = nc.gen /\ nc.gen \in Claims
          BY <1>1, <2>3, <4>1 DEF Claims
        <4>. QED
          BY <1>1, <1>3, <4>2 DEF GrowInv, Floors
      <3>2. CASE Stable
        <4>1. p = nc.gen - 1
          BY <2>3, <3>2 DEF Stable
        <4>2. p \in Gens /\ p <= nc.gen
          BY <1>1, <1>3, <4>1, NodesFacts
        <4>. QED
          BY <1>3, <4>1, <4>2 DEF GrowInv, Floors
      <3>. QED
        BY <3>1, <3>2, StableOrUpdated
    <2>. QED
      BY <1>3, <2>1, <2>2, <2>3, ClaimMoves DEF Base
  <1>4. ASSUME NEW p \in Claims' \cup {nc'.gen - 1}, p > 0
        PROVE  Floor(p)'
    BY <1>3, <1>4, FloorKept
  <1>5. ASSUME pc' \in Late \/ sc'.success
        PROVE  sc'.cs = sc.cs /\ sc.cs.gen \in Gens /\ sc.cs.gen <= nc.gen /\ Floor(sc.cs.gen)
    <2>1. CASE (sc.success /\ sc' = sc) \/ (pc \in Late /\ sc'.cs = sc.cs)
      BY <1>2, <2>1
    <2>2. CASE sc'.success
      <3>1. CASE sc' = sc
        BY <2>1, <2>2, <3>1
      <3>2. CASE FinishSync /\ sc' = [sc EXCEPT !.success = TRUE]
        <4>1. pc \in Late
          BY <3>2 DEF FinishSync, Late
        <4>2. sc'.cs = sc.cs
          BY <3>2 DEF Base, IndInv, TypeOK
        <4>. QED
          BY <2>1, <4>1, <4>2
      <3>. QED
        BY <2>2, <3>1, <3>2, SuccessMoves DEF Base
    <2>3. CASE pc' \in Late
      <3>1. CASE pc \in Late
        <4>1. pc \in Past("ndbmtd") /\ pc' \in Past("ndbmtd")
          BY <2>3, <3>1 DEF Late, Past, Last
        <4>2. sc' = sc
          BY <4>1, PastKept
        <4>. QED
          BY <2>1, <3>1, <4>2
      <3>2. CASE pc \notin Late
        <4>1. pc \in Configured /\ sc' = sc
          BY <2>3, <3>2, LateEntered
        <4>2. Floor(sc.cs.gen)
          BY <2>3, <3>2, LateFloor
        <4>. QED
          BY <4>1, <4>2, Ranges
      <3>. QED
        BY <3>1, <3>2
    <2>. QED
      BY <1>5, <2>2, <2>3
  <1>6. ASSUME pc' \in Late \/ sc'.success
        PROVE  Floor(sc.cs.gen)' /\ sc'.cs = sc.cs
    <2>1. /\ Api'.reps >= specs'[sc.cs.gen].nodes /\ Cached'.reps >= specs'[sc.cs.gen].nodes
          /\ pc' \in Reading => Read'.reps >= specs'[sc.cs.gen].nodes
      <3>1. ASSUME NEW p \in Gens, p <= nc.gen, Floor(p)
            PROVE  /\ Api'.reps >= specs'[p].nodes /\ Cached'.reps >= specs'[p].nodes
                   /\ pc' \in Reading => Read'.reps >= specs'[p].nodes
        BY <3>1, FloorKept DEF Floor, Nodes
      <3>. QED
        BY <1>5, <1>6, <3>1
    <2>2. sc'.cs = sc.cs
      BY <1>5, <1>6
    <2>. QED
      BY <2>1, <2>2 DEF Floor, Nodes
  <1>7. pc' \in Late \/ sc'.success => Floor(sc.cs.gen)'
    BY <1>6
  <1>. QED
    BY <1>4, <1>7 DEF Floors, Claims

\* A copy that a sync has left behind is of the generation it adds data nodes
\* for, if that is what it works with.
LEMMA GrowingPast ==
    ASSUME Base, CopyInv, Growing, sc.cs.gen = nc.gen,
           NEW w \in {"mgmd", "ndbmtd"}, pc \in Past(w)
    PROVE  sc.sf[w].gen = nc.gen
  <1> DEFINE c == nc.gen
             p == sc.sf[w].gen
  <1>1. p \in Gens /\ Nodes(p) = Nodes(c)
    BY DEF CopyInv, SyncKnows
  <1>2. p \in Nat /\ p <= c /\ c \in Nat /\ c > 1
    BY Ranges DEF Views, Workloads, Growing
  <1>3. ASSUME p # c PROVE FALSE
    <2>1. p <= c - 1 /\ c - 1 \in Gens /\ c - 1 <= c /\ c \in Gens
      BY <1>2, <1>3, NodesFacts
    <2>2. Nodes(p) <= Nodes(c - 1) /\ Nodes(c - 1) < Nodes(c)
      BY <1>1, <2>1, NodesFacts
    <2>3. Nodes(c - 1) \in Nat /\ Nodes(c) \in Nat
      BY <2>1, NodesFacts
    <2>. QED
      BY <1>1, <2>2, <2>3
  <1>. QED
    BY <1>3

\* No step but an update changes what the current generation is.
LEMMA StableFacts ==
    ASSUME Stable
    PROVE  /\ nc'.gen = nc.gen /\ Growing' = Growing /\ Rekeyed' = Rekeyed
           /\ \A g \in Gens : Nodes(g)' = Nodes(g)
  BY DEF Stable, Growing, Rekeyed, Nodes

\* The StatefulSet stays at the current generation.
LEMMA StaysCurrent ==
    ASSUME Base, Base', Stable, [Next]_vars, Api.gen = nc.gen
    PROVE  Api'.gen = nc.gen
  <1>0. nc.gen \in Nat /\ Api.gen \in Nat
    BY Ranges DEF Workloads, Views, Api
  <1>1. Api'.gen >= Api.gen
    BY NextInv DEF Base, Forward, Api, Workloads
  <1>2. Api'.gen \in Nat /\ Api'.gen <= nc'.gen
    <2>1. "ndbmtd" \in Workloads
      BY DEF Workloads
    <2>2. sf'["ndbmtd"].gen \in 0..MaxGen /\ cm'.gen \in 0..MaxGen
          /\ nc'.gen \in 0..MaxGen /\ ncCache'.gen \in 0..MaxGen
      BY <2>1 DEF Base, IndInv, TypeOK, Sfsets, ConfigMaps, NdbClusters
    <2>3. sf'["ndbmtd"].gen <= cm'.gen /\ cm'.gen <= ncCache'.gen /\ ncCache'.gen <= nc'.gen
      BY <2>1 DEF Base, IndInv, Flow
    <2>. QED
      BY <2>2, <2>3, ConstantsAssumption DEF Api
  <1>. QED
    BY <1>0, <1>1, <1>2 DEF Stable

\* A sync goes on to the root user, and ends with success, without it.
LEMMA LateUnannotated ==
    ASSUME Base, Base', CopyInv, GrowInv, [Next]_vars, Stable,
           pc' \in Late \/ sc'.success, sc'.cs.gen = nc.gen
    PROVE  ~Api'.add
  <1> DEFINE c == nc.gen
  <1>1. ASSUME pc \in Late \/ sc.success, sc.cs.gen = c
        PROVE  ~Api'.add
    <2>1. Api.gen = c
      BY <1>1 DEF Base, IndInv, Progress, Late, Past, Last, Workloads, Api
    <2>2. ~Api.add
      BY <1>1 DEF GrowInv, Annotation
    <2>. QED
      BY <2>1, <2>2, NotReadded
  <1>2. CASE sc'.success
    <2>1. CASE sc' = sc
      BY <1>1, <1>2, <2>1
    <2>2. CASE FinishSync /\ sc' = [sc EXCEPT !.success = TRUE]
      <3>1. pc \in Late
        BY <2>2 DEF FinishSync, Late
      <3>2. sc'.cs = sc.cs
        BY <2>2 DEF Base, IndInv, TypeOK
      <3>. QED
        BY <1>1, <3>1, <3>2
    <2>. QED
      BY <1>2, <2>1, <2>2, SuccessMoves DEF Base
  <1>3. CASE pc' \in Late /\ pc \in Late
    <2>1. pc \in Past("ndbmtd") /\ pc' \in Past("ndbmtd")
      BY <1>3 DEF Late, Past, Last
    <2>2. sc' = sc
      BY <2>1, PastKept
    <2>. QED
      BY <1>1, <1>3, <2>2
  <1>4. CASE pc' \in Late /\ pc \notin Late
    <2>1. pc \in Past("ndbmtd") /\ pc \in Reading /\ sc' = sc
      BY <1>4, LateEntered
    <2>2. CASE ~Read.add /\ sf' = sf
      <3>1. CASE Growing
        <4>1. Read.gen = c
          BY <2>1, <3>1, GrowingPast DEF Read
        <4>2. ~Api.add
          BY <2>2, <3>1, <4>1, NodesFacts DEF GrowInv, Annotated
        <4>. QED
          BY <2>2, <4>2 DEF Api
      <3>2. CASE ~Growing
        BY <2>2, <3>2 DEF GrowInv, Annotation, Api
      <3>. QED
        BY <3>1, <3>2
    <2>3. CASE ~Api'.add
      BY <2>3
    <2>. QED
      BY <1>4, <2>2, <2>3, LateEntered
  <1>. QED
    BY <1>2, <1>3, <1>4

\* So does the ConfigMap that drops the request for an initial restart.
LEMMA DroppedUnannotated ==
    ASSUME Base, Base', CopyInv, GrowInv, [Next]_vars, Stable, Rekeyed, Off(cm)'
    PROVE  Api'.gen = nc.gen /\ ~Api'.add
  <1> DEFINE c == nc.gen
  <1>1. CASE Off(cm)
    <2>1. Api.gen = c /\ ~Api.add
      BY <1>1 DEF GrowInv, Annotation
    <2>. QED
      BY <2>1, NotReadded, StaysCurrent
  <1>2. CASE ~Off(cm)
    <2>1. cm' # cm
      BY <1>2 DEF Off, Stable
    <2>2. cm # NoConfigMap
      BY FlagFacts DEF Base, FlagInv, Rekeyed
    <2>3. Repatching
      BY <2>1, <2>2, ConfigMoves DEF Base
    <2>4. cm'.gen = c /\ ~cm'.init
      BY DEF Off, Stable
    <2>5. Read.init
      BY <1>2, <2>3, <2>4, ConfigFlag DEF Base, Read
    <2>6. Read.gen = c
      BY <2>5, NodesFacts DEF Base, FlagInv, FlagsCurrent, Flagged
    <2>7. pc = "cmpatch" /\ sf' = sf /\ pc \in Configured
      BY <2>3 DEF Repatching, Configured, Steps
    <2>8. Api.gen = c /\ sc.cs.gen = c
      BY <2>6, <2>7, NodesFacts
    <2>9. ~Api.add
      BY <2>7, <2>8 DEF GrowInv, Annotation, Late
    <2>. QED
      BY <2>7, <2>8, <2>9 DEF Api
  <1>. QED
    BY <1>1, <1>2

\* The steps between two updates keep the annotation where it belongs.
LEMMA AnnotationKept ==
    ASSUME Base, Base', CopyInv, GrowInv, [Next]_vars, Stable
    PROVE  Annotation'
  <1> DEFINE c == nc.gen
  <1>1. Api'.add => Growing /\ Api'.gen = c
    <2>1. CASE Api.add
      BY <2>1, StaysCurrent DEF GrowInv, Annotation
    <2>2. CASE ~Api.add
      BY <2>2, AnnotationSet
    <2>. QED
      BY <2>1, <2>2
  <1>2. (pc' \in Late \/ sc'.success) /\ sc'.cs.gen = c => ~Api'.add
    BY LateUnannotated
  <1>3. ASSUME NEW p \in Claims', p = c PROVE ~Api'.add
    <2>1. c \in Gens /\ c > 0 /\ c \in Nat /\ Api.gen <= c /\ Api.gen \in Nat
      BY NodesFacts
    <2>2. CASE p \in Claims
      <3>1. Api.gen = c
        BY <1>3, <2>1, <2>2, ClaimsGens DEF Api
      <3>2. ~Api.add
        BY <1>3, <2>2 DEF GrowInv, Annotation
      <3>. QED
        BY <3>1, <3>2, NotReadded
    <2>3. CASE sc.success /\ p = sc.nc.gen
      <3>1. Api.gen = c /\ sc.cs.gen = c
        BY <1>3, <2>3, SuccessFacts DEF Api
      <3>2. ~Api.add
        BY <2>3, <3>1 DEF GrowInv, Annotation
      <3>. QED
        BY <3>1, <3>2, NotReadded
    <2>. QED
      BY <1>3, <2>1, <2>2, <2>3, ClaimMoves DEF Base
  <1>4. Rekeyed /\ Off(cm)' => Api'.gen = c /\ ~Api'.add
    BY DroppedUnannotated
  <1>5. ASSUME NEW s \in Views("ndbmtd")', s.add PROVE c > 1
    <2>1. s \in Views("ndbmtd") \cup {Api', NoSfset}
      BY ViewMoves DEF Base, Workloads, Api
    <2>2. ~NoSfset.add
      BY DEF NoSfset
    <2>3. Api'.add => c > 1
      BY <1>1 DEF Growing
    <2>. QED
      BY <1>5, <2>1, <2>2, <2>3 DEF GrowInv, Annotation
  <1>6. nc'.gen = c /\ Growing' = Growing /\ Rekeyed' = Rekeyed
    BY StableFacts
  <1>. QED
    BY <1>1, <1>2, <1>3, <1>4, <1>5, <1>6 DEF Annotation

\* An update finds no annotation.
LEMMA AnnotationUpdated ==
    ASSUME Base, CopyInv, GrowInv, UpdateSpec
    PROVE  Annotation' /\ ~Api'.add /\ Api'.gen = nc.gen
  <1> DEFINE c == nc.gen
  <1>1. /\ nc'.gen = c + 1 /\ nc'.status = nc.status /\ nc.status.proc = c
        /\ UNCHANGED <<cm, sf, caches, pc, sc>>
        /\ c \in Gens
    BY Updated
  <1>2. c \in Nat /\ c >= 1 /\ Api.gen \in Nat /\ Api.gen <= c /\ cm.gen <= c /\ cm.gen \in Nat
    BY NodesFacts
  <1>3. c \in Claims /\ Claims' = Claims
    BY <1>1 DEF Claims, caches
  <1>4. ~Api.add /\ Api.gen = c
    <2>1. ~Api.add
      BY <1>3 DEF GrowInv, Annotation
    <2>2. Api.gen >= c
      BY <1>2, <1>3, ClaimsGens DEF Api
    <2>. QED
      BY <1>2, <2>1, <2>2
  <1>5. ~Api'.add /\ Api'.gen = c
    BY <1>1, <1>4 DEF Api
  <1>6. ASSUME NEW p \in Claims' PROVE p # nc'.gen
    BY <1>1, <1>2, <1>3, <1>6, ClaimsGens
  <1>7. ~Off(cm)'
    BY <1>1, <1>2 DEF Off
  <1>8. nc'.gen > 1
    BY <1>1, <1>2
  <1>. QED
    BY <1>5, <1>6, <1>7, <1>8 DEF Annotation

\* The annotation is removed by a sync that has it in its copy, with all the
\* data nodes of the current generation.
LEMMA AnnotationGone ==
    ASSUME Base, CopyInv, GrowInv, [Next]_vars, Api.add, ~Api'.add
    PROVE  /\ pc \in {"rdata", "added"} /\ pc \in Reading
           /\ Growing /\ Api.gen = nc.gen /\ sc.cs.gen = nc.gen
           /\ Read.gen = nc.gen /\ Read.reps >= Nodes(nc.gen)
  <1> DEFINE c == nc.gen
  <1>1. Growing /\ Api.gen = c /\ c > 1 /\ c \in Nat /\ c \in Gens /\ Nodes(c) \in Nat
    BY NodesFacts DEF GrowInv, Annotation, Growing
  <1>2. pc \in Configured => sc.cs.gen = c
    BY <1>1, NodesFacts
  <1>3. CASE \E old \in {Cached, Read} : Retemplated(old)
    <2>1. PICK old \in {Cached, Read} : Retemplated(old)
      BY <1>3
    <2>2. old \in Views("ndbmtd") /\ pc \in Configured
      BY <2>1, TemplateFrom
    <2>3. Api'.add = Merge(Api.add, old.add, old.reps < Nodes(c))
      BY <1>2, <2>1, <2>2 DEF Retemplated
    <2>4. old.reps \in Nat /\ old.gen \in Nat /\ old.gen <= c
      BY <1>1, <2>2, NodesFacts
    <2>5. old.reps >= Nodes(c)
      <3>1. CASE old.reps < Nodes(c)
        <4>1. (old.reps < Nodes(c)) = TRUE
          BY <3>1
        <4>2. Api'.add = Merge(Api.add, old.add, TRUE)
          BY <2>3, <4>1
        <4>. QED
          BY <4>2 DEF Merge
      <3>2. CASE ~(old.reps < Nodes(c))
        BY <1>1, <2>4, <3>2
      <3>. QED
        BY <3>1, <3>2
    <2>6. old.gen = c
      <3>1. ~(old.gen < c)
        BY <1>1, <2>2, <2>4, <2>5, NodesFacts
      <3>. QED
        BY <1>1, <2>4, <3>1
    <2>7. pc = "rdata" /\ old = Read
      BY <1>2, <2>1, <2>2, <2>6 DEF Retemplated
    <2>. QED
      BY <1>1, <1>2, <2>2, <2>5, <2>6, <2>7 DEF Reading, Checked
  <1>4. CASE Unannotated
    <2>1. pc = "added" /\ pc \in Configured
      BY <1>4 DEF Unannotated
    <2>2. Read.reps = Nodes(c)
      BY <1>2, <2>1 DEF CopyInv, SyncKnows
    <2>3. Read.gen = c
      BY <1>1, <1>2, <2>1, GrowingPast DEF Past, Last, Read
    <2>. QED
      BY <1>1, <1>2, <2>1, <2>2, <2>3 DEF Reading, Last
  <1>5. ~SameNodes /\ ~MadeNodes /\ ~StartedNodes
    <2>1. ~SameNodes /\ ~StartedNodes
      BY DEF SameNodes, StartedNodes
    <2>2. ~MadeNodes
      BY <1>1 DEF MadeNodes
    <2>. QED
      BY <2>1, <2>2
  <1>. QED
    BY <1>3, <1>4, <1>5, NodesWritten

\* A StatefulSet that has just got the current generation asks for all its
\* data nodes, or has the annotation.
LEMMA JustCurrent ==
    ASSUME Base, CopyInv, GrowInv, [Next]_vars, Stable,
           Api'.gen = nc.gen, Api.gen < nc.gen, Api'.reps < Nodes(nc.gen)
    PROVE  Api'.add
  <1> DEFINE c == nc.gen
  <1>1. c \in Nat /\ c >= 1 /\ Nodes(c) \in Nat /\ Api.gen \in Nat
    BY NodesFacts
  <1>2. CASE Growing
    BY <1>2, FirstAnnotated
  <1>3. CASE ~Growing /\ c > 1
    <2>1. Nodes(c - 1) = Nodes(c) /\ Floor(c - 1)
      BY <1>1, <1>3 DEF Growing, GrowInv, Floors
    <2>2. Api.reps >= Nodes(c) /\ Api.reps <= Api'.reps /\ Api.reps \in Nat /\ Api'.reps \in Nat
      BY <2>1, NodesStay DEF Floor
    <2>. QED
      BY <1>1, <2>2
  <1>4. CASE c = 1
    <2>1. Api.gen = 0 /\ ~Exists(Api)
      <3>1. Api.gen = 0
        BY <1>1, <1>4
      <3>2. 0 \notin Gens
        BY ConstantsAssumption DEF Gens
      <3>. QED
        BY <3>1, <3>2, NodesFacts
    <2>2. MadeNodes
      <3>1. ~SameNodes
        BY <1>4, <2>1 DEF SameNodes
      <3>. QED
        BY <2>1, <3>1, NodesWritten, Zenon DEF Retemplated, StartedNodes, Unannotated
    <2>3. Api'.reps = Nodes(c)
      BY <1>4, <2>2 DEF MadeNodes
    <2>. QED
      BY <1>1, <2>3
  <1>. QED
    BY <1>1, <1>2, <1>3, <1>4

\* The steps between two updates keep the annotation until it has done its
\* work.
LEMMA AnnotatedKept ==
    ASSUME Base, Base', CopyInv, GrowInv, [Next]_vars, Stable
    PROVE  Annotated'
  <1> DEFINE c == nc.gen
  <1>1. /\ c \in Nat /\ c >= 1 /\ Nodes(c) \in Nat /\ Api.gen \in Nat /\ Api.gen <= c
        /\ Api.reps \in Nat /\ Api'.reps \in Nat /\ Api.reps <= Api'.reps
        /\ Cached.reps \in Nat /\ Read.reps \in Nat
        /\ Cached.gen \in Nat /\ Read.gen \in Nat
        /\ Read.reps <= Cached.reps /\ Cached.reps <= Api.reps
        /\ Read.gen <= Cached.gen /\ Cached.gen <= Api.gen
    BY NodesFacts, NodesStay DEF CopyInv, CopiesBehind
  <1>2. NoSfset.gen # c
    BY <1>1 DEF NoSfset
  <1>3. \A s \in Views("ndbmtd")' : s \in Views("ndbmtd") \cup {Api', NoSfset}
    BY ViewMoves DEF Base, Workloads, Api
  <1>4. ASSUME Api'.gen = c, Api'.reps < Nodes(c) PROVE Api'.add
    <2>1. CASE Api.gen = c
      <3> SUFFICES ASSUME ~Api'.add PROVE FALSE
        OBVIOUS
      <3>1. Api.reps < Nodes(c)
        BY <1>1, <1>4
      <3>2. Api.add
        BY <2>1, <3>1, NodesFacts DEF GrowInv, Annotated
      <3>3. Read.reps >= Nodes(c)
        BY <3>2, AnnotationGone
      <3>. QED
        BY <1>1, <3>1, <3>3
    <2>2. CASE Api.gen < c
      BY <1>4, <2>2, JustCurrent
    <2>. QED
      BY <1>1, <2>1, <2>2
  <1>5. \A s \in Views("ndbmtd")' : s.gen = c /\ s.reps < Nodes(c) => s.add
    BY <1>2, <1>3, <1>4 DEF GrowInv, Annotated
  <1>6. ASSUME Growing, NEW s \in Views("ndbmtd")', s.gen = c, ~s.add PROVE ~Api'.add
    <2>1. CASE s = Api'
      BY <1>6, <2>1
    <2>2. CASE s \in Views("ndbmtd")
      <3>1. ~Api.add
        BY <1>6, <2>2 DEF GrowInv, Annotated
      <3>2. Api.gen = c
        BY <1>1, <1>6, <2>2, NodesFacts
      <3>. QED
        BY <3>1, <3>2, NotReadded
    <2>. QED
      BY <1>2, <1>3, <1>6, <2>1, <2>2
  <1>7. ASSUME Growing, Api'.gen = c, ~Api'.add
        PROVE  Cached'.gen = c /\ (pc' \in Reading => Read'.gen = c)
    <2>1. Api.gen = c /\ Cached.gen = c /\ (pc \in Reading => Read.gen = c)
      <3>1. Api.gen = c
        BY <1>1, <1>7, FirstAnnotated
      <3>2. CASE Api.add
        BY <1>1, <1>7, <3>1, <3>2, AnnotationGone
      <3>3. CASE ~Api.add
        BY <1>7, <3>1, <3>3 DEF GrowInv, Annotated
      <3>. QED
        BY <3>1, <3>2, <3>3
    <2>2. Cached' \in {Cached, Api}
      BY CachesMove DEF Cached, Api
    <2>3. pc' \in Reading => (pc \in Reading /\ Read' = Read) \/ Read' = Cached
      BY CopyKept DEF Reading, Read, Cached, Base
    <2>. QED
      BY <2>1, <2>2, <2>3
  <1>8. nc'.gen = c /\ Growing' = Growing /\ specs'[c].nodes = Nodes(c)
    BY StableFacts, NodesFacts DEF Nodes
  <1>. QED
    BY <1>5, <1>6, <1>7, <1>8 DEF Annotated, Nodes

\* An update makes a generation that no StatefulSet has.
LEMMA AnnotatedUpdated ==
    ASSUME Base, CopyInv, GrowInv, UpdateSpec
    PROVE  Annotated'
  <1>1. nc'.gen = nc.gen + 1 /\ UNCHANGED <<sf, caches, sc>>
    BY Updated
  <1>2. Views("ndbmtd")' = Views("ndbmtd")
    BY <1>1 DEF Views, caches
  <1>3. \A s \in Views("ndbmtd")' : s.gen # nc'.gen
    BY <1>1, <1>2, NodesFacts
  <1>4. Api' \in Views("ndbmtd")'
    BY DEF Views, Api
  <1>5. Api'.gen # nc'.gen
    BY <1>3, <1>4
  <1>. QED
    BY <1>3, <1>5 DEF Annotated

\* Once it has read the data nodes' StatefulSet, a sync keeps its copy of the
\* management nodes' too.
LEMMA MgmtCopyKept ==
    ASSUME Base, [Next]_vars, pc' \in Reading
    PROVE  /\ sc'.nc = sc.nc /\ sc'.sf["mgmd"] = sc.sf["mgmd"]
           /\ (pc \in Reading /\ Read' = Read) \/ Read' = Cached
  <1>1. sc \in SyncContexts
    BY DEF Base, IndInv, TypeOK, SyncContexts
  <1>2. pc' # "idle" /\ pc' # "config" /\ pc' # "status"
    BY DEF Reading, Checked, Last
  <1>3. sc'.nc = sc.nc /\ ((pc \in Reading /\ Read' = Read) \/ Read' = Cached)
    BY CopyKept DEF Base, Reading, Read, Cached
  <1>4. CASE pc' = pc /\ sc' = sc
    BY <1>3, <1>4
  <1>5. CASE SyncStep /\ pc \in Steps /\ pc' \in Following[pc]
    <2>1. pc \in Checked \cup Last \cup {"mysqld", "ndbmtd"}
      BY <1>2, <1>5 DEF Following, Steps, Checked, Last, Reading
    <2>2. CASE pc = "ndbmtd"
      <3>1. EnsureStatefulSet("ndbmtd", "mysqld", "status")
        BY <1>2, <1>5, <2>2, ActionAt DEF Following, Steps, EnsureDataNodeStatefulSet
      <3>2. sc' = [sc EXCEPT !.sf["ndbmtd"] = sfCache["ndbmtd"]]
        BY <1>2, <3>1 DEF EnsureStatefulSet, Goto
      <3>3. sc'.sf["mgmd"] = sc.sf["mgmd"]
        BY <1>1, <3>2 DEF SyncContexts, Workloads
      <3>. QED
        BY <1>3, <3>3
    <2>3. CASE pc = "mysqld"
      <3>1. sc' = [sc EXCEPT !.sf["mysqld"] = sfCache["mysqld"]]
        BY <1>5, <2>3, ActionAt DEF ValidateMySQLServerStatefulSet
      <3>2. sc'.sf["mgmd"] = sc.sf["mgmd"]
        BY <1>1, <3>1 DEF SyncContexts, Workloads
      <3>. QED
        BY <1>3, <3>2
    <2>4. CASE pc \notin {"ndbmtd", "mysqld"}
      <3>1. pc \notin {"config", "mgmd", "ndbmtd", "mysqld"}
        BY <2>1, <2>4 DEF Checked, Last
      <3>2. ~FinishSync
        BY <1>2 DEF FinishSync, PatchConfigMap, Goto
      <3>3. sc' = sc
        BY <1>2, <1>5, <3>1, <3>2, ReadsFirst
      <3>. QED
        BY <1>3, <3>3
    <2>. QED
      BY <2>2, <2>3, <2>4
  <1>. QED
    BY <1>2, <1>3, <1>4, <1>5, Control DEF SyncBegin, Goto

\* A copy with an annotation that the StatefulSet does not have yet, or has no
\* more, stays in the cache until that gets it.
LEMMA LeftoverKept ==
    ASSUME Base, Base', CopyInv, GrowInv, [Next]_vars, Stable
    PROVE  Leftover'
  <1> DEFINE c == nc.gen
  <1>1. /\ c \in Nat /\ c >= 1 /\ Api.gen \in Nat /\ Api.gen <= c /\ cm.gen \in Nat /\ cm.gen <= c
        /\ Cached.gen \in Nat /\ Cached.gen <= Api.gen /\ Api.gen <= cm.gen
        /\ Read.gen \in Nat /\ Read.gen <= Cached.gen /\ c <= Api.gen + 1
    BY NodesFacts
  <1>2. sfCache["mgmd"].gen \in Nat /\ sfCache["mgmd"].gen <= c
        /\ sc.sf["mgmd"].gen \in Nat /\ sc.sf["mgmd"].gen <= sfCache["mgmd"].gen
    BY Ranges DEF Views, Workloads, CopyInv, CopiesBehind
  <1>3. Api'.gen \in Nat /\ Api.gen <= Api'.gen
    <2>1. Api'.gen >= Api.gen
      BY NextInv DEF Base, Forward, Api, Workloads
    <2>2. Api'.gen \in 0..MaxGen
      BY DEF Base, IndInv, TypeOK, Sfsets, Workloads, Api
    <2>. QED
      BY <1>1, <2>1, <2>2, ConstantsAssumption
  <1>4. sfCache' \in {sfCache, sf}
    BY CachesMove
  <1>5. sfCache' = sfCache => Cached' = Cached
    BY DEF Cached
  <1>6. sfCache' = sf => Cached' = Api
    BY DEF Cached, Api
  <1>7. Api.add => Api.gen = c
    BY DEF GrowInv, Annotation
  <1>8. pc' \in Reading =>
            /\ sc'.nc = sc.nc /\ sc'.sf["mgmd"] = sc.sf["mgmd"]
            /\ (pc \in Reading /\ Read' = Read) \/ Read' = Cached
    BY MgmtCopyKept
  <1>9. ASSUME Growing, Api'.gen < c, sfCache'["mgmd"].gen = c PROVE ~Cached'.add
    <2>1. CASE sfCache' = sfCache
      BY <1>1, <1>3, <1>5, <1>9, <2>1 DEF GrowInv, Leftover
    <2>2. CASE sfCache' = sf
      BY <1>1, <1>3, <1>6, <1>7, <1>9, <2>2
    <2>. QED
      BY <1>4, <2>1, <2>2
  <1>10. ASSUME Growing, Api'.gen < c, pc' \in Reading, sc'.sf["mgmd"].gen = c PROVE ~Read'.add
    <2>1. sc.sf["mgmd"].gen = c /\ Api.gen < c
      BY <1>1, <1>3, <1>8, <1>10
    <2>2. CASE pc \in Reading /\ Read' = Read
      BY <1>10, <2>1, <2>2 DEF GrowInv, Leftover
    <2>3. CASE Read' = Cached
      <3>1. sfCache["mgmd"].gen = c
        BY <1>1, <1>2, <2>1
      <3>2. ~Cached.add
        BY <1>10, <2>1, <3>1 DEF GrowInv, Leftover
      <3>. QED
        BY <2>3, <3>2
    <2>. QED
      BY <1>8, <1>10, <2>2, <2>3
  <1>11. ASSUME Cached'.add, Cached'.gen < cm'.gen PROVE statefulsetUpdateComplete(Cached')
    <2>1. cm'.gen \in Nat /\ cm'.gen <= c
      <3>1. cm'.gen \in 0..MaxGen /\ ncCache'.gen \in 0..MaxGen /\ nc'.gen \in 0..MaxGen
        BY DEF Base, IndInv, TypeOK, ConfigMaps, NdbClusters
      <3>2. cm'.gen <= ncCache'.gen /\ ncCache'.gen <= nc'.gen /\ nc'.gen = c
        BY DEF Base, IndInv, Flow, Stable
      <3>. QED
        BY <3>1, <3>2, ConstantsAssumption
    <2>2. Cached' = Cached
      BY <1>1, <1>4, <1>5, <1>6, <1>7, <1>11, <2>1
    <2>3. Cached.add /\ c > 1 /\ cm # NoConfigMap
      <3>1. c > 1
        BY <1>11, <2>2, NodesFacts DEF GrowInv, Annotation
      <3>2. cm # NoConfigMap
        BY <3>1, FlagFacts DEF Base, FlagInv
      <3>. QED
        BY <1>11, <2>2, <3>1, <3>2
    <2>4. CASE cm'.gen = cm.gen
      BY <1>11, <2>2, <2>4 DEF GrowInv, Leftover
    <2>5. CASE cm'.gen # cm.gen
      <3>1. Repatching
        BY <2>3, <2>5, ConfigMoves DEF Base
      <3>2. pc = "cmpatch" /\ pc \in Configured /\ pc \in Reading /\ pc \in Last
        BY <3>1 DEF Repatching, Configured, Steps, Reading, Last
      <3>3. cm'.gen = Merge(cm.gen, cmCache.gen, GetUpdatedConfigMap(cmCache).gen)
        BY <3>1 DEF Repatching
      <3>4. sc.cs.gen # sc.nc.gen /\ cm'.gen = sc.nc.gen
        <4>1. CASE sc.cs.gen = sc.nc.gen
          <5>1. GetUpdatedConfigMap(cmCache).gen = cmCache.gen
            BY <4>1 DEF GetUpdatedConfigMap, Base, IndInv, TypeOK, ConfigMaps
          <5>. QED
            BY <2>5, <3>3, <5>1 DEF Merge
        <4>2. CASE sc.cs.gen # sc.nc.gen
          <5>1. GetUpdatedConfigMap(cmCache).gen = sc.nc.gen
            BY <4>2 DEF GetUpdatedConfigMap
          <5>. QED
            BY <2>5, <3>3, <4>2, <5>1 DEF Merge
        <4>. QED
          BY <4>1, <4>2
      <3>5. sc.nc.gen = c /\ sc.cs.gen = c - 1 /\ cm.gen = c - 1 /\ Api.gen = c - 1
        <4>1. /\ sc.cs.gen \in Nat /\ sc.nc.gen \in Nat /\ Api.gen <= sc.cs.gen /\ sc.cs.gen <= cm.gen
              /\ cm.gen <= sc.nc.gen /\ sc.nc.gen <= c /\ c <= sc.cs.gen + 1
          BY <3>2, NodesFacts
        <4>2. cm.gen # sc.nc.gen
          BY <2>5, <3>4
        <4>. QED
          BY <1>1, <3>4, <4>1, <4>2
      <3>6. CASE Cached.gen < c - 1
        BY <2>2, <2>3, <3>5, <3>6 DEF GrowInv, Leftover
      <3>7. CASE Cached.gen = c - 1
        <4>1. Cached.outdated = 0
          BY <2>3, <3>7 DEF GrowInv, Leftover
        <4>2. Read = Cached
          BY <1>1, <2>3, <3>2, <3>5 DEF GrowInv, Leftover
        <4>3. Read.up /\ Read.seen
          BY <3>2, <3>5, <3>7, <4>2 DEF CopyInv, SyncKnows
        <4>4. Cached.up /\ Cached.seen /\ Cached.stat = Cached.reps
          BY <4>2, <4>3, NodesFacts DEF CopyInv, Settled
        <4>. QED
          BY <2>2, <4>1, <4>4 DEF statefulsetUpdateComplete
      <3>. QED
        BY <1>1, <3>5, <3>6, <3>7
    <2>. QED
      BY <2>4, <2>5
  <1>12. ASSUME Cached'.add, Cached'.gen = c - 1 PROVE Cached'.outdated = 0
    <2>1. Cached' = Cached
      BY <1>1, <1>4, <1>5, <1>6, <1>7, <1>12
    <2>. QED
      BY <1>12, <2>1 DEF GrowInv, Leftover
  <1>13. ASSUME Cached'.add, Api'.gen < c, pc' \in Reading, sc'.nc.gen = c PROVE Read' = Cached'
    <2>1. Api.gen < c
      BY <1>1, <1>3, <1>13
    <2>2. Cached' = Cached
      BY <1>1, <1>4, <1>5, <1>6, <1>7, <1>13, <2>1
    <2>3. CASE Read' = Cached
      BY <2>2, <2>3
    <2>4. CASE pc \in Reading /\ Read' = Read
      <3>1. Read = Cached
        BY <1>8, <1>13, <2>1, <2>2, <2>4 DEF GrowInv, Leftover
      <3>. QED
        BY <2>2, <2>4, <3>1
    <2>. QED
      BY <1>8, <1>13, <2>3, <2>4
  <1>14. nc'.gen = c /\ Growing' = Growing
    BY StableFacts
  <1>. QED
    BY <1>9, <1>10, <1>11, <1>12, <1>13, <1>14 DEF Leftover

\* An update finds the data nodes of the current generation started.
LEMMA CurrentFloor ==
    ASSUME Base, CopyInv, GrowInv, nc.status.proc = nc.gen
    PROVE  Floor(nc.gen)
  BY NodesFacts DEF GrowInv, Floors, Claims

\* What is left over after an update is complete as soon as it has been seen
\* by a sync.
LEMMA LeftoverUpdated ==
    ASSUME Base, CopyInv, GrowInv, UpdateSpec
    PROVE  Leftover'
  <1> DEFINE c == nc.gen
  <1>1. /\ nc'.gen = c + 1 /\ UNCHANGED <<cm, sf, caches, pc, sc>> /\ nc.status.proc = c
        /\ c \in Nat
    BY Updated, NodesFacts
  <1>2. /\ sfCache["mgmd"].gen \in Nat /\ sfCache["mgmd"].gen <= c
        /\ sc.sf["mgmd"].gen \in Nat /\ sc.sf["mgmd"].gen <= c
    BY Ranges DEF Views, Workloads
  <1>3. Cached' = Cached /\ Read' = Read /\ sfCache' = sfCache
    BY <1>1 DEF Cached, Read, caches
  <1>4. ASSUME Cached.add, Cached.gen = c PROVE Cached.outdated = 0
    <2>1. Floor(c)
      BY <1>1, CurrentFloor
    <2>2. Cached.reps <= Nodes(c) /\ Cached.reps \in Nat /\ Nodes(c) \in Nat
      BY <1>4, NodesFacts
    <2>3. Cached.reps = Nodes(c)
      BY <2>1, <2>2 DEF Floor
    <2>. QED
      BY <1>4, <2>3, NodesFacts DEF GrowInv, OldNodesFirst
  <1>5. pc \in Reading => sc.nc.gen \in Nat /\ sc.nc.gen <= c
    BY NodesFacts DEF Reading, Configured, Steps, Checked, Last
  <1>6. Cached.add /\ Cached.gen < cm.gen => statefulsetUpdateComplete(Cached)
    BY DEF GrowInv, Leftover
  <1>7. nc'.gen - 1 = c /\ c # c + 1
    BY <1>1
  <1>8. Cached.gen = nc'.gen - 1 => Cached.gen = c
    BY <1>7
  <1>9. sfCache["mgmd"].gen # nc'.gen /\ sc.sf["mgmd"].gen # nc'.gen
        /\ (pc \in Reading => sc.nc.gen # nc'.gen)
    BY <1>1, <1>2, <1>5
  <1>10. UNCHANGED <<cm, pc, sc>>
    BY <1>1
  <1>. QED
    BY <1>3, <1>4, <1>6, <1>8, <1>9, <1>10 DEF Leftover

\* A patch that changes neither the template nor the replicas makes no new
\* metadata.generation, and no other step does.
LEMMA SpecStays ==
    ASSUME Base, [Next]_vars, Exists(Api), Api'.reps = Api.reps,
           Template("ndbmtd", Api') = Template("ndbmtd", Api)
    PROVE  Api'.spec = Api.spec
  <1> DEFINE w == "ndbmtd"
  <1>1. w \in Workloads /\ IndInv /\ sf \in [Workloads -> Sfsets] /\ Api = sf[w] /\ Api' = sf'[w]
    BY DEF Base, IndInv, TypeOK, Workloads, Api
  <1>2. CASE sf' = sf
    BY <1>1, <1>2
  <1>3. CASE \/ EnsureDataNodePodVersion
             \/ \E v \in Workloads : ObserveStatefulSet(v) \/ PodsBecomeReady(v) \/ PodDisrupted(v)
    <2>1. Kept(w)
      BY <1>1, <1>3, PodWrites
    <2>. QED
      BY <1>1, <2>1 DEF Kept, Observed, Readied, Disturbed, Written
  <1>4. CASE \E v \in Workloads : \E old, new, next, stop : PatchStatefulSet(v, old, new, next, stop)
    BY <1>1, <1>4, PatchLeaves
  <1>5. CASE \E v \in Workloads : CreateStatefulSet(v)
    BY <1>1, <1>5 DEF CreateStatefulSet
  <1>. QED
    BY <1>2, <1>3, <1>4, <1>5, PatchOrPods

\* No new template gets to the data nodes while the annotation is there.
LEMMA SpecKept ==
    ASSUME Base, Base', CopyInv, GrowInv, [Next]_vars, Stable,
           Api.add, Api'.reps = Api.reps
    PROVE  Api'.spec = Api.spec
  <1> DEFINE c == nc.gen
             w == "ndbmtd"
  <1>1. Growing /\ Api.gen = c /\ c > 1 /\ c \in Nat /\ Exists(Api) /\ w \in Workloads
    BY NodesFacts DEF GrowInv, Annotation, Growing, Workloads
  <1>2. Api'.gen = c
    BY <1>1, StaysCurrent
  <1>3. Api.from = c
    <2>1. Api.gen <= Api.from /\ Api.from <= Level
      BY <1>1 DEF Base, Origins, Api
    <2>2. Level <= nc.gen /\ Level \in Nat
      BY LevelGrows, Ranges DEF Base
    <2>3. Api.from \in 0..MaxGen
      BY <1>1 DEF Base, IndInv, TypeOK, Sfsets, Api
    <2>. QED
      BY <1>1, <2>1, <2>2, <2>3, ConstantsAssumption
  <1>4. Api'.from = c
    <2>1. Api'.gen <= Api'.from /\ Api'.from <= Level'
      BY <1>1 DEF Base, Origins, Api
    <2>2. Level' <= nc'.gen /\ Level' \in Gens
      BY LevelGrows DEF Base
    <2>3. Api'.from \in 0..MaxGen
      BY <1>1 DEF Base, IndInv, TypeOK, Sfsets, Api
    <2>. QED
      BY <1>1, <1>2, <2>1, <2>2, <2>3, ConstantsAssumption DEF Stable, Gens
  <1>5. Api'.init = Api.init
    <2>1. Api.init \in BOOLEAN /\ Api'.init \in BOOLEAN
      BY <1>1 DEF Base, IndInv, TypeOK, Sfsets, Api
    <2>2. CASE ~Rekeyed
      <3>1. ~Api.init
        BY <2>2 DEF Base, FlagInv, FlagsCurrent, Flagged, Views, Api
      <3>2. ~Api'.init
        <4>1. ~Rekeyed'
          BY <2>2, StableFacts
        <4>. QED
          BY <4>1 DEF Base, FlagInv, FlagsCurrent, Flagged, Views, Api
      <3>. QED
        BY <2>1, <3>1, <3>2
    <2>3. CASE Rekeyed
      <3>1. nc'.gen = nc.gen
        BY DEF Stable
      <3>2. Off(Api) => Off(Api)'
        BY <2>3, <3>1, OffStays DEF Base, Api
      <3>3. Off(Api)' => Off(Api)
        <4> SUFFICES ASSUME Off(Api)', ~Off(Api) PROVE FALSE
          OBVIOUS
        <4>1. pc \in Configured /\ Off(sc.cs)
          BY <2>3, <3>1, OffWritten DEF Base, Api
        <4>2. Off(cm)
          BY <2>3, <4>1 DEF Base, FlagInv, Handover
        <4>3. ~Api.add
          BY <2>3, <4>2 DEF GrowInv, Annotation
        <4>. QED
          BY <4>3
      <3>4. Off(Api) <=> ~Api.init
        BY <1>1 DEF Off
      <3>5. Off(Api)' <=> ~Api'.init
        BY <1>2, <3>1 DEF Off
      <3>. QED
        BY <2>1, <3>2, <3>3, <3>4, <3>5
    <2>. QED
      BY <2>2, <2>3
  <1>6. Template(w, Api') = Template(w, Api)
    BY <1>1, <1>2, <1>3, <1>4, <1>5 DEF Template
  <1>. QED
    BY <1>1, <1>6, SpecStays

\* The data nodes' StatefulSet keeps its pods up to date if it keeps its
\* metadata.generation.
LEMMA OutdatedNat ==
    ASSUME Base, NEW s \in Views("ndbmtd")
    PROVE  s.outdated \in Nat
  BY Ranges DEF Workloads

\* It is annotated while the current generation still has data nodes to start.
LEMMA AnnotatedUntil ==
    ASSUME Base, CopyInv, GrowInv, [Next]_vars, Stable,
           Api'.gen = nc.gen, Api'.add
    PROVE  \/ Api.add /\ Api.gen = nc.gen
           \/ Api.gen < nc.gen /\ Api'.reps = Api.reps /\ Api'.reps < Nodes(nc.gen)
  <1>1. CASE Api.add
    BY <1>1 DEF GrowInv, Annotation
  <1>2. CASE ~Api.add
    <2>1. Growing /\ Api'.reps = Api.reps
      BY <1>2, AnnotationSet DEF Retemplated
    <2>2. Api.gen # nc.gen
      BY <1>2, NotReadded
    <2>3. Api.gen < nc.gen
      BY <2>2, NodesFacts
    <2>4. Api.reps < Nodes(nc.gen)
      BY <2>1, <2>3, NodesFacts
    <2>. QED
      BY <2>1, <2>3, <2>4
  <1>. QED
    BY <1>1, <1>2

\* Annotated data nodes that are all started are up to date.
LEMMA StartedFresh ==
    ASSUME Base, Base', CopyInv, GrowInv, [Next]_vars, Stable,
           Api'.gen = nc.gen, Api'.add, Api'.reps = Nodes(nc.gen)
    PROVE  Api'.outdated = 0
  <1> DEFINE c == nc.gen
  <1>1. Api.add /\ Api.gen = c /\ c > 1 /\ c \in Nat /\ Nodes(c) \in Nat /\ Api \in Views("ndbmtd")
        /\ Api.reps \in Nat /\ Api.reps <= Nodes(c)
    <2>1. c \in Nat /\ Nodes(c) \in Nat /\ Api \in Views("ndbmtd")
      BY NodesFacts
    <2>2. Api.add /\ Api.gen = c
      BY <2>1, AnnotatedUntil
    <2>3. c > 1
      BY <2>2 DEF GrowInv, Annotation, Growing
    <2>. QED
      BY <2>1, <2>2, <2>3, NodesFacts
  <1>2. Api.outdated \in Nat /\ Api'.outdated \in Nat
    <2>1. Api'.outdated \in 0..Redundancy
      BY DEF Base, IndInv, TypeOK, Sfsets, Workloads, Api
    <2>. QED
      BY <1>1, <2>1, OutdatedNat, ConstantsAssumption
  <1>3. ASSUME Api.reps = Nodes(c), Api'.spec = Api.spec PROVE Api'.outdated = 0
    <2>1. Api.outdated = 0
      BY <1>1, <1>3 DEF GrowInv, OldNodesFirst
    <2>2. Api'.outdated <= Api.outdated
      BY <1>3, OutdatedFalls DEF Api
    <2>. QED
      BY <1>2, <2>1, <2>2
  <1>4. CASE SameNodes \/ Unannotated
    BY <1>3, <1>4 DEF SameNodes, Unannotated
  <1>5. CASE \E old \in {Cached, Read} : Retemplated(old)
    <2>1. Api'.reps = Api.reps
      BY <1>5 DEF Retemplated
    <2>. QED
      BY <1>1, <1>3, <2>1, SpecKept
  <1>6. CASE StartedNodes
    <2>1. pc = "addnode" /\ pc \in Configured /\ Api'.outdated = Api.outdated
      BY <1>6 DEF StartedNodes
    <2>2. sc.cs.gen = c
      BY <1>1, <2>1, NodesFacts
    <2>3. Api.outdated = 0
      <3>1. CASE Api.reps < Nodes(c)
        BY <2>1, <2>2, <3>1 DEF GrowInv, OldNodesFirst
      <3>2. CASE Api.reps = Nodes(c)
        BY <1>1, <3>2 DEF GrowInv, OldNodesFirst
      <3>. QED
        BY <1>1, <3>1, <3>2
    <2>. QED
      BY <2>1, <2>3
  <1>7. ~MadeNodes
    BY <1>1 DEF MadeNodes
  <1>. QED
    BY <1>4, <1>5, <1>6, <1>7, NodesWritten

\* What a sync knows that finds data nodes still to be started: it has the
\* current generation, and so has its copy.
LEMMA StillGrowing ==
    ASSUME Base, CopyInv, GrowInv, pc \in Past("ndbmtd"), pc \in Configured, Exists(Api),
           Api.reps < Nodes(sc.cs.gen)
    PROVE  Growing /\ sc.cs.gen = nc.gen /\ Read.gen = nc.gen /\ Api.gen = nc.gen
  <1> DEFINE c == nc.gen
             g == sc.cs.gen
  <1>1. g \in Gens /\ g \in Nat /\ g >= 1 /\ g <= c /\ c <= g + 1 /\ c \in Nat /\ c >= 1
        /\ Nodes(g) \in Nat /\ Nodes(c) \in Nat /\ cm.gen \in Nat
        /\ Api.reps \in Nat /\ Api.gen \in Nat /\ Api.gen <= c /\ Read.gen \in Nat /\ Read.gen <= Api.gen
    BY NodesFacts
  <1>2. ASSUME c > 1 PROVE Api.reps >= Nodes(c - 1) /\ Nodes(c - 1) \in Nat
    <2>1. Floor(c - 1)
      BY <1>1, <1>2 DEF GrowInv, Floors
    <2>. QED
      BY <1>2, <2>1, NodesFacts DEF Floor
  <1>3. g # 1
    <2>1. Api.reps >= Nodes(1)
      BY NodesFacts DEF CopyInv, CopiesBehind
    <2>. QED
      BY <1>1, <2>1
  <1>4. g = c /\ c > 1
    <2>1. c > 1
      BY <1>1, <1>3
    <2>2. g # c - 1
      BY <1>1, <1>2, <2>1
    <2>. QED
      BY <1>1, <2>1, <2>2
  <1>5. Growing
    BY <1>1, <1>2, <1>4 DEF Growing
  <1>6. Read.gen = c
    BY <1>4, <1>5, GrowingPast DEF Read
  <1>. QED
    BY <1>1, <1>4, <1>5, <1>6

\* A sync goes on to start data nodes only when those that are there are up
\* to date.
LEMMA FreshBefore ==
    ASSUME Base, Base', CopyInv, GrowInv, [Next]_vars, Stable,
           pc' \in {"rmysqld", "addnode"}, Api'.reps < Nodes(sc'.cs.gen)
    PROVE  Api'.outdated = 0
  <1>1. pc \in {"podver", "rmysqld", "addnode"} /\ pc' \in Reading /\ pc' \in Past("ndbmtd")
        /\ \/ pc' = pc /\ sc' = sc
           \/ SyncStep /\ pc' \in Following[pc] /\ pc \in {"podver", "rmysqld"}
    BY Control DEF SyncBegin, Goto, Following, Steps, Reading, Checked, Last, Past
  <1>2. pc \in Past("ndbmtd") /\ pc \in Configured /\ pc \in Reading
    BY <1>1 DEF Past, Last, Configured, Steps, Reading, Checked
  <1>3. sc' = sc
    BY <1>1, <1>2, PastKept
  <1>4. Exists(Api) /\ Api.reps \in Nat /\ Api'.reps \in Nat /\ Api.reps <= Api'.reps
    <2>1. Exists(Read)
      BY <1>2 DEF CopyInv, SyncKnows
    <2>2. Read.gen \in Gens /\ Read.gen <= Api.gen /\ Api.gen \in Nat /\ Api.gen <= nc.gen
          /\ nc.gen \in Gens
      BY <2>1, NodesFacts
    <2>3. Api.gen \in Gens
      BY <2>2, ConstantsAssumption DEF Gens
    <2>. QED
      BY <2>3, NodesFacts, NodesStay
  <1>5. Nodes(sc.cs.gen) \in Nat /\ Api.reps < Nodes(sc.cs.gen)
    BY <1>2, <1>3, <1>4, NodesFacts
  <1>6. Growing /\ sc.cs.gen = nc.gen /\ Read.gen = nc.gen /\ Api.gen = nc.gen
    BY <1>2, <1>4, <1>5, StillGrowing
  <1>7. Api.outdated \in Nat /\ Api'.outdated \in Nat
    <2>1. Api'.outdated \in 0..Redundancy
      BY DEF Base, IndInv, TypeOK, Sfsets, Workloads, Api
    <2>. QED
      BY <2>1, NodesFacts, OutdatedNat, ConstantsAssumption
  <1>8. Api'.spec = Api.spec
    <2>1. ~MadeNodes
      BY <1>4 DEF MadeNodes
    <2>2. ~StartedNodes
      BY <1>3, <1>4, <1>5, NodesFacts DEF StartedNodes
    <2>3. \A old \in {Cached, Read} : ~Retemplated(old)
      BY <1>1 DEF Retemplated
    <2>. QED
      BY <2>1, <2>2, <2>3, NodesWritten DEF SameNodes, Unannotated
  <1>9. Api'.outdated <= Api.outdated
    BY <1>8, OutdatedFalls DEF Api
  <1>10. CASE pc \in {"rmysqld", "addnode"}
    <2>1. Api.outdated = 0
      BY <1>5, <1>10 DEF GrowInv, OldNodesFirst
    <2>. QED
      BY <1>7, <1>9, <2>1
  <1>11. CASE pc = "podver"
    <2>1. EnsureDataNodePodVersion /\ pc' # "status" /\ pc' # "idle"
      BY <1>1, <1>11, ActionAt
    <2>2. statefulsetUpdateComplete(Read) \/ Api.outdated = 0
      BY <2>1 DEF EnsureDataNodePodVersion, FailSync, Goto, Read, Api
    <2>3. Api.outdated = 0
      <3> SUFFICES ASSUME statefulsetUpdateComplete(Read) PROVE Api.outdated = 0
        BY <2>2
      <3>1. Read \in Views("ndbmtd") /\ Exists(Read) /\ Read.outdated = 0
        BY <1>2, NodesFacts DEF CopyInv, SyncKnows, statefulsetUpdateComplete
      <3>2. Api.reps < Nodes(nc.gen)
        BY <1>5, <1>6
      <3>3. Read.spec = Api.spec
        BY <1>6, <3>1, <3>2 DEF GrowInv, OldNodesFirst
      <3>4. Api.outdated <= Read.outdated
        BY <3>1, <3>3 DEF CopyInv, SpecDetermines, Workloads, Api
      <3>. QED
        BY <1>7, <3>1, <3>4
    <2>. QED
      BY <1>7, <1>9, <2>3
  <1>. QED
    BY <1>1, <1>10, <1>11

\* The steps between two updates start new data nodes after the others have
\* the new config.
LEMMA OldNodesKept ==
    ASSUME Base, Base', CopyInv, GrowInv, [Next]_vars, Stable
    PROVE  OldNodesFirst'
  <1> DEFINE c == nc.gen
  <1>1. /\ c \in Nat /\ c >= 1 /\ Nodes(c) \in Nat /\ Api.gen \in Nat /\ Api.gen <= c
        /\ Api.reps \in Nat /\ Api'.reps \in Nat /\ Api.reps <= Api'.reps
        /\ Api \in Views("ndbmtd")
    BY NodesFacts, NodesStay
  <1>2. NoSfset.gen # c
    BY <1>1 DEF NoSfset
  <1>3. \A s \in Views("ndbmtd")' : s \in Views("ndbmtd") \cup {Api', NoSfset}
    BY ViewMoves DEF Base, Workloads, Api
  <1>4. \A s \in Views("ndbmtd")' : s.gen = c /\ s.add /\ s.reps = Nodes(c) => s.outdated = 0
    BY <1>2, <1>3, StartedFresh DEF GrowInv, OldNodesFirst
  <1>5. pc' \in {"rmysqld", "addnode"} /\ Api'.reps < Nodes(sc'.cs.gen) => Api'.outdated = 0
    BY FreshBefore
  <1>6. ASSUME Api'.gen = c, Api'.reps < Nodes(c), NEW s \in Views("ndbmtd")', s.gen = c
        PROVE  s.spec = Api'.spec
    <2>1. CASE s = Api'
      BY <2>1
    <2>2. CASE s \in Views("ndbmtd")
      <3>1. Api.gen = c /\ Api.reps < Nodes(c)
        BY <1>1, <1>6, <2>2, NodesFacts
      <3>2. s.spec = Api.spec
        BY <1>6, <2>2, <3>1 DEF GrowInv, OldNodesFirst
      <3>3. Api.add
        BY <1>1, <3>1 DEF GrowInv, Annotated
      <3>4. Api'.spec = Api.spec
        <4>1. CASE Api'.reps = Api.reps
          BY <3>3, <4>1, SpecKept
        <4>2. CASE MadeNodes \/ StartedNodes
          <5>1. ~MadeNodes
            <6>1. c > 1
              BY <3>3 DEF GrowInv, Annotation, Growing
            <6>. QED
              BY <6>1 DEF MadeNodes
          <5>2. pc \in Configured /\ Api'.reps = Nodes(sc.cs.gen)
            BY <4>2, <5>1 DEF StartedNodes
          <5>3. sc.cs.gen = c
            BY <1>1, <3>1, <5>2, NodesFacts
          <5>. QED
            BY <1>1, <1>6, <5>2, <5>3
        <4>. QED
          BY <4>1, <4>2, NodesStay
      <3>. QED
        BY <3>2, <3>4
    <2>. QED
      BY <1>2, <1>3, <1>6, <2>1, <2>2
  <1>7. /\ nc'.gen = c /\ specs'[c].nodes = Nodes(c) /\ specs'[sc'.cs.gen].nodes = Nodes(sc'.cs.gen)
    BY NodesFacts DEF Nodes, Stable
  <1>. QED
    BY <1>4, <1>5, <1>6, <1>7 DEF OldNodesFirst, Nodes

\* An update leaves the data nodes as they are.
LEMMA OldNodesUpdated ==
    ASSUME Base, CopyInv, GrowInv, UpdateSpec
    PROVE  OldNodesFirst'
  <1>1. nc'.gen = nc.gen + 1 /\ UNCHANGED <<sf, caches, pc, sc>>
        /\ \A g \in Gens : g <= nc.gen => specs'[g] = specs[g]
    BY Updated
  <1>2. Views("ndbmtd")' = Views("ndbmtd") /\ Api' = Api
    BY <1>1 DEF Views, caches, Api
  <1>3. \A s \in Views("ndbmtd")' : s.gen # nc'.gen
    BY <1>1, <1>2, NodesFacts
  <1>4. Api' \in Views("ndbmtd")'
    BY DEF Views, Api
  <1>5. Api'.gen # nc'.gen
    BY <1>3, <1>4
  <1>6. pc \in {"rmysqld", "addnode"} => specs'[sc.cs.gen] = specs[sc.cs.gen]
    <2>1. pc \in {"rmysqld", "addnode"} => pc \in Configured
      BY DEF Configured, Steps
    <2>2. pc \in Configured => sc.cs.gen \in Gens /\ sc.cs.gen <= nc.gen
      BY Ranges
    <2>. QED
      BY <1>1, <2>1, <2>2
  <1>7. sc' = sc /\ pc' = pc
    BY <1>1
  <1>. QED
    BY <1>2, <1>3, <1>5, <1>6, <1>7 DEF OldNodesFirst, GrowInv, Nodes

\* At first there are no data nodes.
LEMMA GrowInit == Init => GrowInv
  <1> SUFFICES ASSUME Init PROVE GrowInv
    OBVIOUS
  <1>1. nc.gen = 1 /\ pc = "idle" /\ ~sc.success /\ cm.gen = 0
    BY DEF Init, NoSync, NoConfigMap
  <1>2. Views("ndbmtd") = {NoSfset} /\ Api = NoSfset /\ Cached = NoSfset
    BY DEF Init, Views, NoSync, Workloads, Api, Cached
  <1>3. Claims = {0}
    BY DEF Init, Claims, NoStatus, NoSync
  <1>4. NoSfset.gen = 0 /\ ~NoSfset.add
    BY DEF NoSfset
  <1>5. ~Growing /\ ~Rekeyed /\ pc \notin Late \cup Reading
    BY <1>1 DEF Growing, Rekeyed, Late, Reading, Checked, Last
  <1>6. Floors /\ Annotation
    BY <1>1, <1>2, <1>3, <1>4, <1>5 DEF Floors, Annotation
  <1>7. Annotated /\ Leftover /\ OldNodesFirst
    BY <1>1, <1>2, <1>4, <1>5 DEF Annotated, Leftover, OldNodesFirst
  <1>. QED
    BY <1>6, <1>7 DEF GrowInv

\* Every step keeps the whole of it.
LEMMA GrowStep ==
    ASSUME Base, Base', CopyInv, GrowInv, [Next]_vars
    PROVE  GrowInv'
  <1>1. Floors'
    BY FloorsStep
  <1>2. CASE Stable
    BY <1>1, <1>2, AnnotationKept, AnnotatedKept, LeftoverKept, OldNodesKept DEF GrowInv
  <1>3. CASE UpdateSpec
    BY <1>1, <1>3, AnnotationUpdated, AnnotatedUpdated, LeftoverUpdated, OldNodesUpdated DEF GrowInv
  <1>. QED
    BY <1>2, <1>3, StableOrUpdated

\* If no spec is erroneous, online add keeps its promises with faults and with
\* copies of any age.
LEMMA GrowInvariance ==
    ASSUME MayFail = {}
    PROVE  Spec => [](Base /\ CopyInv /\ GrowInv)
  <1>1. Init => CopyInv /\ GrowInv
    BY CopyInit, GrowInit
  <1>2. Base /\ Base' /\ CopyInv /\ GrowInv /\ [Next]_vars => CopyInv' /\ GrowInv'
    BY CopyStep, GrowStep
  <1>. QED
    BY <1>1, <1>2, Basis, PTL DEF Spec
-----------------------------------------------------------------------------
(* What a processed generation promises of the numbers *)

\* If no spec is erroneous, there is one management node at any time.
LEMMA OneManagementNodeInvariance ==
    ASSUME MayFail = {}
    PROVE  Spec => []OneManagementNode
  <1>1. Init => OneManagementNode
    BY DEF Init, OneManagementNode, Views, NoSync, NoSfset, Exists, Workloads
  <1>2. Base /\ OneManagementNode /\ [Next]_vars => OneManagementNode'
    BY OneManagementNodeStep
  <1>. QED
    BY <1>1, <1>2, Basis, PTL DEF Spec

\* As long as no spec is erroneous, there are as many management and data nodes
\* as the current generation asks for once that is processed, whatever fails and
\* however old the copies are: the new data nodes, which the first patch leaves
\* out, are started, and no patch takes them back (UpdatedStatefulSet,
\* startNewDataNodes).
THEOREM NodesWhenProcessed ==
    ASSUME MayFail = {}
    PROVE  Spec => []ProcessedNodes
  <1>1. Base /\ CopyInv /\ GrowInv /\ OneManagementNode /\ ProcessedMatchesSpec => ProcessedNodes
    <2> SUFFICES ASSUME Base, CopyInv, GrowInv, OneManagementNode, ProcessedMatchesSpec,
                        nc.status.proc = nc.gen, NEW w \in {"mgmd", "ndbmtd"}
                 PROVE  sf[w].reps = Replicas(w, nc.gen, nc.gen)
      BY DEF ProcessedNodes
    <2>1. sf[w].gen = nc.gen /\ nc.gen \in Gens /\ sf[w] \in Views(w) /\ w \in Workloads
      BY NodesFacts DEF ProcessedMatchesSpec, Views, Workloads
    <2>2. CASE w = "mgmd"
      <3>1. Exists(sf[w])
        BY <2>1, Ranges
      <3>. QED
        BY <2>1, <2>2, <3>1 DEF OneManagementNode, Replicas
    <2>3. CASE w = "ndbmtd"
      <3>1. Floor(nc.gen)
        BY CurrentFloor
      <3>2. Api.reps <= Nodes(nc.gen) /\ Api.reps \in Nat /\ Nodes(nc.gen) \in Nat
        BY <2>1, <2>3, NodesFacts DEF Api
      <3>3. Api.reps = Nodes(nc.gen)
        BY <3>1, <3>2 DEF Floor
      <3>. QED
        BY <2>3, <3>3 DEF Api, Nodes, Replicas
    <2>. QED
      BY <2>2, <2>3
  <1>. QED
    BY <1>1, GrowInvariance, OneManagementNodeInvariance, ProcessedIsCurrent, PTL
-----------------------------------------------------------------------------
(* The contract of an update *)

\* A step changes the NdbCluster, the ConfigMap or one StatefulSet.
LEMMA OneObject ==
    ASSUME Base, [Next]_vars
    PROVE  \/ UNCHANGED <<cm, sf, rolled>>
           \/ UNCHANGED <<nc, sf, rolled>>
           \/ /\ UNCHANGED <<nc, cm>>
              /\ \E w \in Workloads : \A v \in Workloads : v # w => sf'[v] = sf[v]
  <1>1. sf \in [Workloads -> Sfsets] /\ {"mgmd", "ndbmtd", "mysqld"} \subseteq Workloads
    BY DEF Base, IndInv, TypeOK, Workloads
  <1>2. CASE EnsureManagementServerStatefulSet \/ EnsureDataNodeStatefulSet
    BY <1>1, <1>2 DEF EnsureManagementServerStatefulSet, EnsureDataNodeStatefulSet,
       EnsureStatefulSet, CreateStatefulSet, PatchStatefulSet
  <1>3. CASE ReconcileManagementNodeStatefulSet \/ ReconcileDataNodeStatefulSet
             \/ ReconcileMySQLServerStatefulSet \/ StartNewDataNodes \/ HandleScaleDown
             \/ RemoveAddNodeAnnotation \/ PatchRootAnnotations
    BY <1>1, <1>3 DEF ReconcileManagementNodeStatefulSet, ReconcileDataNodeStatefulSet,
       ReconcileMySQLServerStatefulSet, ReconcileStatefulSet, StartNewDataNodes, HandleScaleDown,
       RemoveAddNodeAnnotation, PatchRootAnnotations, CreateStatefulSet, PatchStatefulSet, cluster
  <1>4. CASE EnsureDataNodePodVersion
    BY <1>1, <1>4 DEF EnsureDataNodePodVersion
  <1>5. CASE EnsureConfigMap \/ PatchConfigMapOnError \/ FinishSync
    BY <1>5 DEF EnsureConfigMap, PatchConfigMapOnError, FinishSync, PatchConfigMap, cluster
  <1>6. CASE DeletePodOnStsUpdate \/ ValidateMySQLServerStatefulSet \/ CreateNodeGroups
             \/ ReorgNdbTables \/ ReconcileRootUser \/ UpdateNdbClusterStatus
    BY <1>6 DEF DeletePodOnStsUpdate, ValidateMySQLServerStatefulSet, CreateNodeGroups,
       ReorgNdbTables, ReconcileRootUser, UpdateNdbClusterStatus, cluster
  <1>7. CASE Kubernetes \/ \E w \in Workloads : PodDisrupted(w)
    BY <1>1, <1>7 DEF Kubernetes, ObserveStatefulSet, PodsBecomeReady, PodDisrupted
  <1>8. CASE SyncBegin \/ Informers \/ UpdateSpec \/ StepFails \/ CreateNodeGroupFails
             \/ StatusUpdateFails \/ RelistStatefulSets \/ OperatorRestart \/ UNCHANGED vars
    BY <1>8 DEF SyncBegin, Informers, DeliverNdbCluster, Resync, DeliverConfigMap,
       DeliverStatefulSets, DeliverPods, UpdateSpec, StepFails, CreateNodeGroupFails,
       StatusUpdateFails, RelistStatefulSets, OperatorRestart, cluster, vars
  <1>. QED
    BY <1>2, <1>3, <1>4, <1>5, <1>6, <1>7, <1>8 DEF Next, SyncStep

\* A rollout is of a StatefulSet that the step changes.
LEMMA RolledAlone ==
    ASSUME Base, [Next]_vars, NEW v \in Workloads, sf'[v] = sf[v]
    PROVE  rolled'[v] = rolled[v]
  <1>1. /\ rolled[v] <= sf[v].gen
        /\ Exists(sf[v]) /\ RolledOut(sf[v]) => sf[v].gen <= rolled[v]
    BY DEF Base, RollInv, Rollouts, Views
  <1>2. rolled[v] \in Nat /\ sf[v].gen \in Nat
    BY <1>1, RolledGrows DEF Base
  <1>3. CASE RecordRollout
    BY <1>1, <1>2, <1>3 DEF RecordRollout
  <1>. QED
    BY <1>3, RolledMoves

\* A StatefulSet gets a new generation from the sync's config, in the step
\* that reconciles it, or in the one that ensures that it is there.
LEMMA DeployedAt ==
    ASSUME Base, [Next]_vars, NEW w \in Workloads, sf'[w].gen # sf[w].gen
    PROVE  /\ SyncStep /\ pc \in Configured
           /\ \/ w = "mgmd" /\ pc \in {"mgmd", "rmgmd"}
              \/ w = "ndbmtd" /\ pc \in {"ndbmtd", "rdata"}
              \/ w = "mysqld" /\ pc = "rmysqld"
           /\ sf'[w].gen = sc.cs.gen
  <1>1. SyncStep /\ ~Kept(w)
    <2>1. ~Kept(w)
      <3>1. Written(sf'[w]) = Written(sf[w]) => sf'[w].gen = sf[w].gen
        BY DEF Written
      <3>. QED
        BY <3>1 DEF Kept, Observed, Readied, Disturbed
    <2>. QED
      BY <2>1, SyncWrites
  <1>2. IndInv /\ sf \in [Workloads -> Sfsets]
    BY DEF Base, IndInv, TypeOK
  <1>3. CASE Created(w)
    <2>1. /\ pc \in Configured /\ pc \in {"mgmd", "ndbmtd", "rmysqld"} /\ sf'[w].gen = sc.cs.gen
      BY <1>2, <1>3, CreatedFields DEF Created
    <2>2. pc = "mgmd" => w = "mgmd"
      <3>1. pc = "mgmd" => EnsureStatefulSet("mgmd", "ndbmtd", "deletepod")
        BY <1>1, ActionAt DEF EnsureManagementServerStatefulSet
      <3>. QED
        BY <1>2, <3>1 DEF EnsureStatefulSet, CreateStatefulSet, PatchStatefulSet
    <2>3. pc = "ndbmtd" => w = "ndbmtd"
      <3>1. pc = "ndbmtd" => EnsureStatefulSet("ndbmtd", "mysqld", "status")
        BY <1>1, ActionAt DEF EnsureDataNodeStatefulSet
      <3>. QED
        BY <1>2, <3>1 DEF EnsureStatefulSet, CreateStatefulSet, PatchStatefulSet
    <2>4. pc = "rmysqld" => w = "mysqld"
      <3>1. pc = "rmysqld" => ReconcileMySQLServerStatefulSet
        BY <1>1, ActionAt
      <3>. QED
        BY <1>2, <3>1 DEF ReconcileMySQLServerStatefulSet, ReconcileStatefulSet, CreateStatefulSet,
           PatchStatefulSet
    <2>. QED
      BY <1>1, <2>1, <2>2, <2>3, <2>4
  <1>4. CASE Repatched(w)
    <2>1. PICK old \in {sfCache[w], sc.sf[w]}, new \in Sfsets :
              Wanted(w, old, new) /\ sf'[w] = Patched(w, old, new)
      BY <1>4 DEF Repatched
    <2>2. /\ old \in Sfsets /\ pc \in Configured /\ sf[w].gen <= sc.cs.gen
          /\ sf'[w].gen = Merge(sf[w].gen, old.gen, new.gen)
      BY <1>2, <1>4, <2>1, RepatchFacts, PatchedFields, SyncFacts DEF Repatched
    <2>3. new.gen # old.gen
      BY <2>2 DEF Merge
    <2>4. pc \in Retemplating(w) /\ new = UpdatedStatefulSet(w, old, sc.cs, sc.nc)
      BY <2>1, <2>2, <2>3 DEF Wanted, Sfsets
    <2>5. new.gen = sc.cs.gen
      BY <1>2, <1>4, <2>2, <2>4, RepatchFacts, UpdatedFields
    <2>6. sf'[w].gen = sc.cs.gen
      BY <2>2, <2>3, <2>5 DEF Merge
    <2>. QED
      BY <1>1, <2>2, <2>4, <2>6 DEF Retemplating, Workloads
  <1>. QED
    BY <1>1, <1>2, <1>3, <1>4, Writes

\* If syncs begin with the last status, a running cluster is never taken for
\* one that is starting; of that, only the management nodes are completed when
\* the data nodes are made.
StatusInv ==
    /\ nc.gen > 1 => nc.status.proc > 0
    /\ pc # "idle" => sc.nc.status = nc.status
    /\ pc = "ndbmtd" => rolled["mgmd"] > 0

\* The status changes when a sync has finished with success and writes it: to
\* the generation of its config, which every StatefulSet has been rolled out
\* at. Other syncs leave what it reports.
LEMMA Reported ==
    ASSUME Base, StatusInv, [Next]_vars, nc'.status.proc # nc.status.proc
    PROVE  /\ UpdateNdbClusterStatus /\ nc'.status.proc = cm.gen /\ nc.status.proc < cm.gen
           /\ \A w \in Workloads : rolled[w] = cm.gen
  <1>1. IndInv /\ nc \in NdbClusters
    BY DEF Base, IndInv, TypeOK
  <1>2. ~UpdateSpec
    BY Updated
  <1>3. UpdateNdbClusterStatus
    BY <1>2, Unspecified
  <1>4. nc'.status.proc = IF sc.success THEN sc.nc.gen ELSE sc.nc.status.proc
    <2>1. nc' = nc \/ nc' = [nc EXCEPT !.status = calculateNdbClusterStatus]
      BY <1>3 DEF UpdateNdbClusterStatus
    <2>2. nc'.status = calculateNdbClusterStatus
      BY <1>1, <2>1 DEF NdbClusters
    <2>. QED
      BY <2>2 DEF calculateNdbClusterStatus
  <1>5. pc = "status" /\ sc.nc.status = nc.status
    BY <1>3 DEF UpdateNdbClusterStatus, StatusInv
  <1>6. sc.success
    BY <1>4, <1>5
  <1>7. sc.cs.gen = sc.nc.gen /\ \A w \in Workloads : sf[w].gen = sc.cs.gen /\ sc.cs.gen <= rolled[w]
    BY <1>1, <1>6 DEF IndInv, Progress, Base, RollInv, RolloutFlow
  <1>8. ASSUME NEW w \in Workloads
        PROVE  /\ rolled[w] <= sf[w].gen /\ nc.status.proc <= rolled[w]
               /\ rolled[w] \in Nat /\ sf[w].gen <= cm.gen
    BY <1>1, RolledGrows DEF Base, RollInv, Rollouts, Claims, IndInv, Flow
  <1>9. cm.gen <= sc.nc.gen /\ cm.gen \in Nat /\ sc.nc.gen \in Nat /\ nc.status.proc \in Nat
    BY <1>1, <1>5, Numbers DEF IndInv, SyncFlow
  <1>10. "mgmd" \in Workloads
    BY DEF Workloads
  <1>11. cm.gen = sc.nc.gen /\ \A w \in Workloads : rolled[w] = cm.gen
    BY <1>7, <1>8, <1>9, <1>10
  <1>12. nc.status.proc <= cm.gen
    BY <1>8, <1>10, <1>11
  <1>. QED
    BY <1>3, <1>4, <1>6, <1>9, <1>11, <1>12

\* Whatever a status tells of, old or new, was rolled out.
LEMMA ReportedIsRolledOut ==
    ASSUME Base, [Next]_vars, UNCHANGED rolled
    PROVE  \A w \in Workloads : nc'.status.proc <= rolled[w]
  <1>1. RollInv'
    BY RollStep DEF Base
  <1>. QED
    BY <1>1 DEF RollInv, Rollouts, Claims

\* A sync begins with the copy that SyncBegin takes.
LEMMA OnlyBegins ==
    ASSUME [Next]_vars, pc = "idle", pc' = "config"
    PROVE  SyncBegin
  BY Control DEF Steps

\* A sync gets to the data nodes from the management nodes.
LEMMA EntersNodes ==
    ASSUME [Next]_vars, pc' = "ndbmtd", pc # "ndbmtd"
    PROVE  EnsureStatefulSet("mgmd", "ndbmtd", "deletepod") /\ pc = "mgmd"
  <1>1. SyncStep /\ pc \in Steps /\ pc' \in Following[pc]
    BY Control DEF SyncBegin, Goto
  <1>2. pc = "mgmd"
    BY <1>1 DEF Following, Steps
  <1>. QED
    BY <1>1, <1>2, ActionAt DEF EnsureManagementServerStatefulSet

\* Syncs work with the last status, and do not change it before they end.
LEMMA StatusKept ==
    ASSUME StaleStatus = FALSE, Base, StatusInv, [Next]_vars
    PROVE  StatusInv'
  <1>1. IndInv /\ nc \in NdbClusters /\ nc.gen \in Nat /\ nc.status.proc \in Nat
    BY Numbers DEF Base, IndInv, TypeOK
  <1>2. nc'.gen > 1 => nc'.status.proc > 0
    <2>1. CASE UpdateSpec
      <3>1. nc'.status = nc.status /\ nc.status.proc = nc.gen /\ nc.gen \in Gens
        BY <2>1, Updated
      <3>. QED
        BY <3>1, Ranges
    <2>2. CASE nc'.gen = nc.gen
      <3>1. CASE nc'.status.proc = nc.status.proc
        BY <2>2, <3>1 DEF StatusInv
      <3>2. CASE nc'.status.proc # nc.status.proc
        <4>1. nc'.status.proc > nc.status.proc /\ cm.gen \in Nat
          BY <1>1, <3>2, Reported, Numbers
        <4>. QED
          BY <1>1, <3>2, <4>1, Reported
      <3>. QED
        BY <3>1, <3>2
    <2>. QED
      BY <1>1, <2>1, <2>2, GenMoves
  <1>3. pc' # "idle" => sc'.nc.status = nc'.status
    <2>1. CASE UpdateNdbClusterStatus
      BY <2>1 DEF UpdateNdbClusterStatus
    <2>2. CASE ~UpdateNdbClusterStatus
      <3>1. nc'.status = nc.status
        BY <2>2, Updated, Unspecified
      <3>2. CASE Ended
        BY <3>2 DEF Ended
      <3>3. CASE Begun
        <4>1. SyncBegin
          BY <3>3, OnlyBegins DEF Begun
        <4>2. ncCache.status = nc.status
          BY <4>1 DEF SyncBegin
        <4>3. sc'.nc = ncCache
          BY <3>3 DEF Begun, NoSync
        <4>. QED
          BY <3>1, <4>2, <4>3
      <3>4. CASE GoesOn \/ Ignored
        BY <3>1, <3>4 DEF GoesOn, Ignored, StatusInv
      <3>. QED
        BY <1>1, <3>2, <3>3, <3>4, SyncControl
    <2>. QED
      BY <2>1, <2>2
  <1>4. pc' = "ndbmtd" => rolled'["mgmd"] > 0
    <2> SUFFICES ASSUME pc' = "ndbmtd"
                 PROVE  rolled'["mgmd"] > 0
      OBVIOUS
    <2>1. "mgmd" \in Workloads
      BY DEF Workloads
    <2>2. rolled["mgmd"] \in Nat /\ rolled'["mgmd"] \in Nat /\ rolled["mgmd"] <= rolled'["mgmd"]
      BY <1>1, <2>1, RolledGrows DEF Base, RollInv, Rollouts
    <2>3. CASE pc = "ndbmtd"
      BY <2>2, <2>3 DEF StatusInv
    <2>4. CASE pc # "ndbmtd"
      <3>1. EnsureStatefulSet("mgmd", "ndbmtd", "deletepod") /\ pc = "mgmd"
        BY <2>4, EntersNodes
      <3>2. /\ Exists(sfCache["mgmd"])
            /\ sc.nc.status.proc # 0 \/ statefulsetUpdateComplete(sfCache["mgmd"])
        BY <3>1 DEF EnsureStatefulSet, CreateStatefulSet, PatchStatefulSet, Goto
      <3>3. sc.nc.status.proc \in Claims /\ sc.nc.status.proc \in Nat
        BY <1>1, Numbers DEF Claims
      <3>4. /\ \A p \in Claims : p <= rolled["mgmd"]
            /\ \A s \in Views("mgmd") : Exists(s) /\ RolledOut(s) => s.gen <= rolled["mgmd"]
        BY <2>1 DEF Base, RollInv, Rollouts
      <3>5. CASE sc.nc.status.proc # 0
        BY <2>2, <3>3, <3>4, <3>5
      <3>6. CASE statefulsetUpdateComplete(sfCache["mgmd"])
        <4>1. sfCache["mgmd"] \in Views("mgmd") /\ RolledOut(sfCache["mgmd"])
          BY <3>6 DEF Views, statefulsetUpdateComplete, RolledOut
        <4>2. sfCache["mgmd"].gen > 0 /\ sfCache["mgmd"].gen \in Nat
          BY <2>1, <3>2, <4>1, Ranges
        <4>. QED
          BY <2>2, <3>2, <3>4, <4>1, <4>2
      <3>. QED
        BY <3>2, <3>5, <3>6
    <2>. QED
      BY <2>3, <2>4
  <1>5. QED
    BY <1>2, <1>3, <1>4 DEF StatusInv

\* Nothing is processed, and no sync has begun, at the start.
LEMMA StatusInit == Init => StatusInv
  BY DEF Init, StatusInv

\* A StatefulSet gets the generation that the ConfigMap has; the ones before it
\* are rolled out at that generation.
LEMMA DeployedInOrder ==
    ASSUME Base, StaleStatus \/ StatusInv, [Next]_vars, NEW w \in Workloads, sf'[w].gen # sf[w].gen
    PROVE  /\ sf[w].gen < cm.gen /\ sf'[w].gen = cm.gen /\ rolled[w] = sf[w].gen
           /\ \A v \in Contract!Before(w) : rolled[v] = cm.gen
  <1>1. /\ SyncStep /\ pc \in Configured
        /\ \/ w = "mgmd" /\ pc \in {"mgmd", "rmgmd"}
           \/ w = "ndbmtd" /\ pc \in {"ndbmtd", "rdata"}
           \/ w = "mysqld" /\ pc = "rmysqld"
        /\ sf'[w].gen = sc.cs.gen
    BY DeployedAt
  <1>2. rolled[w] = sf[w].gen /\ (Created(w) \/ Repatched(w))
    BY ConfigBump DEF Base, RollInv
  <1>3. sf[w].gen < cm.gen /\ sc.cs.gen = cm.gen /\ nc.gen = cm.gen
    <2>1. sf[w].gen <= sf'[w].gen
      BY NextInv DEF Forward, Base
    <2>2. /\ sf[w].gen \in Nat /\ sc.cs.gen \in Nat /\ cm.gen \in Nat /\ nc.gen \in Nat
          /\ sc.cs.gen <= cm.gen /\ cm.gen <= nc.gen /\ nc.gen <= sf[w].gen + 1
      BY <1>1, Ranges DEF Views
    <2>. QED
      BY <1>1, <2>1, <2>2
  <1>4. ASSUME NEW v \in Workloads
        PROVE  rolled[v] \in Nat /\ rolled[v] <= cm.gen /\ cm.gen \in Nat
    <2>1. rolled[v] <= sf[v].gen /\ sf[v].gen <= cm.gen
      BY DEF Base, RollInv, Rollouts, IndInv, Flow
    <2>. QED
      BY <2>1, RolledGrows, Ranges DEF Views, Base
  <1>5. ASSUME NEW v \in Workloads, pc \in PastRollout(v)
        PROVE  rolled[v] = cm.gen
    <2>1. sc.cs.gen <= rolled[v]
      BY <1>5 DEF Base, RollInv, RolloutFlow
    <2>. QED
      BY <1>3, <1>4, <2>1
  <1>6. CASE w = "mgmd"
    BY <1>1, <1>2, <1>3, <1>6 DEF Contract!Before
  <1>7. CASE w = "mysqld"
    <2>1. pc \in PastRollout("mgmd") /\ pc \in PastRollout("ndbmtd")
      BY <1>1, <1>7 DEF PastRollout
    <2>2. rolled["mgmd"] = cm.gen /\ rolled["ndbmtd"] = cm.gen
      BY <1>5, <2>1 DEF Workloads
    <2>. QED
      BY <1>1, <1>2, <1>3, <1>7, <2>2 DEF Contract!Before
  <1>9. CASE w = "ndbmtd" /\ StaleStatus
    BY <1>1, <1>2, <1>3, <1>9 DEF Contract!Before
  <1>8. CASE w = "ndbmtd" /\ StatusInv
    <2>1. rolled["mgmd"] = cm.gen
      <3>1. CASE pc = "rdata"
        BY <1>5, <3>1 DEF PastRollout, Workloads
      <3>2. CASE pc = "ndbmtd"
        <4>1. nc.gen = 1
          <5>1. CASE Created(w)
            BY <5>1, CreatedFirst
          <5>2. CASE Repatched(w)
            <6>1. EnsureStatefulSet("ndbmtd", "mysqld", "status")
              BY <1>1, <3>2, ActionAt DEF EnsureDataNodeStatefulSet
            <6>2. Exists(sf[w]) /\ sf' # sf
              BY <5>2 DEF Repatched
            <6>3. sc.nc.status.proc = 0
              BY <1>8, <6>1, <6>2 DEF EnsureStatefulSet, CreateStatefulSet
            <6>4. pc # "idle"
              BY <3>2
            <6>. QED
              BY <1>8, <6>3, <6>4, Ranges DEF StatusInv
          <5>. QED
            BY <1>2, <5>1, <5>2
        <4>2. rolled["mgmd"] > 0
          BY <1>8, <3>2 DEF StatusInv
        <4>. QED
          BY <1>3, <1>4, <4>1, <4>2 DEF Workloads
      <3>. QED
        BY <1>1, <1>8, <3>1, <3>2
    <2>. QED
      BY <1>1, <1>2, <1>3, <1>8, <2>1 DEF Contract!Before
  <1>. QED
    BY <1>1, <1>6, <1>7, <1>8, <1>9

\* A step that changes one StatefulSet deploys an update to it, completes one,
\* or is not seen.
LEMMA WorkloadStep ==
    ASSUME Base, StaleStatus \/ StatusInv, [Next]_vars, UNCHANGED <<nc, cm>>, NEW w \in Workloads,
           \A v \in Workloads : v # w => sf'[v] = sf[v]
    PROVE  Contract!Deploy(w) \/ Contract!Complete(w) \/ UNCHANGED Contract!vars
  <1> DEFINE gens == [v \in Workloads |-> sf[v].gen]
  <1>1. IndInv /\ IndInv'
    BY NextInv DEF Base
  <1>2. rolled = [v \in Workloads |-> rolled[v]] /\ rolled' = [v \in Workloads |-> rolled'[v]]
    BY <1>1 DEF IndInv, TypeOK
  <1>3. \A v \in Workloads : v # w => rolled'[v] = rolled[v]
    BY RolledAlone
  <1>4. gens' = [v \in Workloads |-> sf'[v].gen]
    OBVIOUS
  <1>5. gens' = [gens EXCEPT ![w] = sf'[w].gen]
    BY <1>4
  <1>6. rolled' = [rolled EXCEPT ![w] = rolled'[w]]
    BY <1>2, <1>3
  <1>7. rolled[w] <= sf[w].gen
    BY DEF Base, RollInv, Rollouts
  <1>8. /\ rolled[w] \in Nat /\ rolled'[w] \in Nat /\ sf[w].gen \in Nat
        /\ rolled'[w] \in {rolled[w], sf'[w].gen}
    BY <1>1, <1>7, RolledGrows, RolledMoves DEF RecordRollout
  <1>9. CASE sf'[w].gen # sf[w].gen
    <2>1. /\ sf[w].gen < cm.gen /\ sf'[w].gen = cm.gen /\ rolled[w] = sf[w].gen
          /\ \A v \in Contract!Before(w) : rolled[v] = cm.gen
      BY <1>9, DeployedInOrder
    <2>2. gens' = [gens EXCEPT ![w] = cm.gen] /\ gens[w] = sf[w].gen
      BY <1>5, <2>1
    <2>3. rolled' = rolled \/ rolled' = [rolled EXCEPT ![w] = cm.gen]
      BY <1>2, <1>6, <1>8, <2>1
    <2>. QED
      BY <2>1, <2>2, <2>3 DEF Contract!Deploy
  <1>10. CASE sf'[w].gen = sf[w].gen
    <2>1. gens' = gens /\ gens[w] = sf[w].gen
      BY <1>5, <1>10
    <2>2. CASE rolled'[w] = rolled[w]
      <3>1. rolled' = rolled
        BY <1>2, <1>3, <2>2
      <3>. QED
        BY <2>1, <3>1 DEF Contract!vars
    <2>3. CASE rolled'[w] # rolled[w]
      <3>1. rolled'[w] = sf[w].gen /\ rolled[w] < sf[w].gen
        BY <1>7, <1>8, <1>10, <2>3
      <3>2. rolled' = [rolled EXCEPT ![w] = sf[w].gen]
        BY <1>6, <3>1
      <3>. QED
        BY <2>1, <3>1, <3>2 DEF Contract!Complete
    <2>. QED
      BY <2>2, <2>3
  <1>. QED
    BY <1>9, <1>10

\* A step that changes the ConfigMap adopts an update, or is not seen.
LEMMA ConfigStep ==
    ASSUME Base, [Next]_vars, UNCHANGED <<nc, sf, rolled>>
    PROVE  Contract!Adopt \/ UNCHANGED Contract!vars
  <1>1. cm.gen <= cm'.gen /\ cm'.gen <= nc.gen /\ cm'.gen \in Nat
    <2>1. IndInv' /\ cm.gen <= cm'.gen
      BY NextInv DEF Forward, Base
    <2>2. IndInv' => /\ cm'.gen <= ncCache'.gen /\ ncCache'.gen <= nc'.gen
                     /\ cm'.gen \in Nat /\ ncCache'.gen \in Nat /\ nc'.gen \in Nat
      BY ConstantsAssumption DEF IndInv, Flow, TypeOK, NdbClusters, ConfigMaps
    <2>. QED
      BY <2>1, <2>2
  <1>2. CASE cm'.gen = cm.gen
    BY <1>2 DEF Contract!vars
  <1>3. CASE cm'.gen # cm.gen
    <2>1. cm.gen \in Nat /\ nc.gen \in Nat
      BY Ranges
    <2>2. ASSUME NEW w \in Workloads
          PROVE  rolled[w] = cm.gen /\ nc.gen = cm'.gen
      <3>1. rolled[w] <= sf[w].gen /\ sf[w].gen <= cm.gen /\ nc.gen <= rolled[w] + 1
        BY DEF Base, RollInv, Rollouts, IndInv, Flow
      <3>2. rolled[w] \in Nat /\ sf[w].gen \in Nat
        BY <3>1, RolledGrows DEF Base
      <3>. QED
        BY <1>1, <1>3, <2>1, <3>1, <3>2
    <2>3. "mgmd" \in Workloads /\ Workloads = Contract!Workloads
      BY DEF Workloads, Contract!Workloads
    <2>4. cm.gen < nc.gen /\ cm'.gen = nc.gen
      BY <1>1, <1>3, <2>1, <2>2, <2>3
    <2>. QED
      BY <2>2, <2>3, <2>4 DEF Contract!Adopt
  <1>. QED
    BY <1>2, <1>3

\* A step that changes the NdbCluster is a request or a report, or is not seen.
LEMMA ClusterStep ==
    ASSUME Base, StaleStatus \/ StatusInv, [Next]_vars, UNCHANGED <<cm, sf, rolled>>
    PROVE  Contract!Request \/ Contract!Report \/ Contract!ReportAnother \/ UNCHANGED Contract!vars
  <1>1. CASE UpdateSpec
    <2>1. nc.status.proc = nc.gen /\ nc'.gen = nc.gen + 1 /\ nc'.status.proc = nc.status.proc
      BY <1>1, Updated
    <2>. QED
      BY <2>1 DEF Contract!Request
  <1>2. CASE ~UpdateSpec
    <2>1. nc'.gen = nc.gen
      BY <1>2, GenMoves DEF Base
    <2>2. CASE nc'.status.proc = nc.status.proc
      BY <2>1, <2>2 DEF Contract!vars
    <2>3. CASE nc'.status.proc # nc.status.proc
      <3>1. Workloads = Contract!Workloads
        BY DEF Workloads, Contract!Workloads
      <3>2. CASE StatusInv
        BY <2>1, <2>3, <3>1, <3>2, Reported DEF Contract!Report
      <3>3. CASE StaleStatus
        <4>1. \A w \in Workloads : nc'.status.proc <= rolled[w]
          BY ReportedIsRolledOut
        <4>. QED
          BY <2>1, <3>1, <3>3, <4>1 DEF Contract!ReportAnother
      <3>. QED
        BY <3>2, <3>3
    <2>. QED
      BY <2>2, <2>3
  <1>. QED
    BY <1>1, <1>2

\* If no spec is erroneous, the reconciliation implements UpdateContract: with
\* caches of any age, syncs that fail anywhere, pods that go down and restarts of
\* the operator, users see updates made one at a time, workload by workload, and
\* reported when all have them.  If syncs may begin with an old status
\* (StaleStatus), an update that all have may be reported again in place of the
\* last one (syncHandler, sync).
THEOREM UpdatesKeepContract ==
    ASSUME MayFail = {}
    PROVE  Spec => ImplementsContract
  <1>1. Init => Contract!Init
    BY DEF Init, Contract!Init, Workloads, Contract!Workloads, NoStatus, NoConfigMap, NoSfset
  <1>2. Base /\ (StaleStatus \/ StatusInv) /\ [Next]_vars => [Contract!Next]_(Contract!vars)
    <2> SUFFICES ASSUME Base, StaleStatus \/ StatusInv, [Next]_vars
                 PROVE  Contract!Next \/ UNCHANGED Contract!vars
      OBVIOUS
    <2>1. CASE UNCHANGED <<cm, sf, rolled>>
      BY <2>1, ClusterStep DEF Contract!Next
    <2>2. CASE UNCHANGED <<nc, sf, rolled>>
      BY <2>2, ConfigStep DEF Contract!Next
    <2>3. ASSUME UNCHANGED <<nc, cm>>, NEW w \in Workloads,
                 \A v \in Workloads : v # w => sf'[v] = sf[v]
          PROVE  Contract!Next \/ UNCHANGED Contract!vars
      <3>1. w \in Contract!Workloads
        BY DEF Workloads, Contract!Workloads
      <3>. QED
        BY <2>3, <3>1, WorkloadStep DEF Contract!Next
    <2>. QED
      BY <2>1, <2>2, <2>3, OneObject
  <1>3. (StaleStatus \/ StatusInv) /\ Base /\ [Next]_vars => (StaleStatus \/ StatusInv)'
    BY StatusKept, ConstantsAssumption
  <1>4. Init => StaleStatus \/ StatusInv
    BY StatusInit
  <1>. QED
    BY <1>1, <1>2, <1>3, <1>4, Basis, PTL DEF Spec, ImplementsContract, Contract!Spec
=============================================================================
