------------------------ MODULE NdbReconcilerProofs ------------------------
(***************************************************************************)
(* Proofs about NdbReconciler: the generations in the ConfigMap and in the *)
(* StatefulSets never go backwards, and a processed generation is applied. *)
(***************************************************************************)
EXTENDS NdbReconciler, TLAPS

\* The steps of a sync that has read its config summary.
Configured == Steps \ {"config"}

\* The steps of a sync that has brought a StatefulSet to its config.
Last    == {"addnode", "nodegroups", "reorg", "added", "root", "rootpatch", "cmpatch"}
Past(w) == CASE w = "mgmd"   -> Last \cup {"rmysqld", "podver", "rdata"}
             [] w = "ndbmtd" -> Last \cup {"rmysqld", "podver"}
             [] w = "mysqld" -> Last

\* Generations flow from the NdbCluster into its cache, from there into the
\* ConfigMap and its cache, and only then into the StatefulSets.
Flow ==
    /\ nc.gen \in Gens /\ ncCache.gen \in Gens
    /\ ncCache.gen <= nc.gen
    /\ cm.gen <= ncCache.gen /\ cmCache.gen <= cm.gen
    /\ cm.gen = 0 => cm = NoConfigMap
    /\ cmCache.gen = 0 => cmCache = NoConfigMap
    /\ \A w \in Workloads : sf[w].gen <= cm.gen
    /\ cmCache # NoConfigMap => \A w \in Workloads : sf[w].gen <= cmCache.gen

\* A sync works with a NdbCluster that is not older than the ConfigMap, and
\* with a config that is not older than any StatefulSet.
SyncFlow ==
    /\ pc # "idle" => /\ sc.nc.gen \in Gens
                      /\ cm.gen <= sc.nc.gen /\ sc.nc.gen <= ncCache.gen
    /\ pc \in Configured => /\ sc.cs.gen \in Gens
                            /\ sc.cs.gen <= cm.gen
                            /\ cmCache # NoConfigMap => sc.cs.gen <= cmCache.gen
                            /\ \A w \in Workloads : sf[w].gen <= sc.cs.gen

\* No copy of a StatefulSet is ahead of it, no status is ahead of them.
Copies ==
    \A w \in Workloads :
        /\ sfCache[w].gen <= sf[w].gen /\ sc.sf[w].gen <= sf[w].gen
        /\ nc.status.proc <= sf[w].gen
        /\ ncCache.status.proc <= sf[w].gen
        /\ sc.nc.status.proc <= sf[w].gen

\* What a sync has established on its way to success.
Progress ==
    /\ \A w \in Workloads : pc \in Past(w) => sf[w].gen = sc.cs.gen
    /\ sc.success => /\ pc = "status"
                     /\ sc.cs.gen = sc.nc.gen
                     /\ \A w \in Workloads : sf[w].gen = sc.cs.gen

IndInv == TypeOK /\ Flow /\ SyncFlow /\ Copies /\ Progress

\* No generation goes backwards in a step.
Forward == cm'.gen >= cm.gen /\ \A w \in Workloads : sf'[w].gen >= sf[w].gen

-----------------------------------------------------------------------------
(* What the helpers return *)

\* The template of any workload, for a config that was read, is a StatefulSet
\* of the config's generation (NewStatefulSet, ReconcileStatefulSet).
LEMMA UpdatedType ==
    ASSUME specs \in [Gens -> SpecContent], NEW w \in Workloads, NEW old \in Sfsets,
           NEW cs \in ConfigMaps, NEW n \in NdbClusters, cs.gen \in Gens, n.gen \in Gens
    PROVE  /\ NewStatefulSet(w, cs, n) \in Sfsets
           /\ NewStatefulSet(w, cs, n).gen = cs.gen
           /\ UpdatedStatefulSet(w, old, cs, n) \in Sfsets
           /\ UpdatedStatefulSet(w, old, cs, n).gen = cs.gen
  <1>1. Replicas(w, cs.gen, n.gen) \in Nat
    BY DEF Replicas, SpecContent, Workloads
  <1>2. NoSfset \in Sfsets
    BY ConstantsAssumption DEF NoSfset, Sfsets
  <1>3. /\ NewStatefulSet(w, cs, n) \in Sfsets
        /\ NewStatefulSet(w, cs, n).gen = cs.gen
    BY <1>1, <1>2 DEF NewStatefulSet, Sfsets, ConfigMaps, NdbClusters, NoSfset
  <1>. QED
    BY <1>3 DEF UpdatedStatefulSet, Sfsets

\* A patch changes the generation only if the new object's differs from the
\* cached one's (patchStatefulSet).
LEMMA PatchedType ==
    ASSUME NEW w \in Workloads, sf \in [Workloads -> Sfsets],
           NEW old \in Sfsets, NEW new \in Sfsets
    PROVE  /\ Patched(w, old, new) \in Sfsets
           /\ Patched(w, old, new).gen = Merge(sf[w].gen, old.gen, new.gen)
  <1> DEFINE m == [sf[w] EXCEPT !.gen  = Merge(@, old.gen, new.gen),
                                !.from = Merge(@, old.from, new.from),
                                !.init = Merge(@, old.init, new.init),
                                !.add  = Merge(@, old.add, new.add),
                                !.root = Merge(@, old.root, new.root),
                                !.host = Merge(@, old.host, new.host),
                                !.reps = Merge(@, old.reps, new.reps)]
             retemplated == Template(w, m) # Template(w, sf[w])
  <1>1. /\ m \in Sfsets
        /\ m.gen = Merge(sf[w].gen, old.gen, new.gen)
    BY DEF Sfsets, Merge
  <1>2. Patched(w, old, new) =
            IF retemplated \/ m.reps # sf[w].reps
            THEN [m EXCEPT !.spec = @ + 1, !.seen = FALSE,
                           !.outdated = IF retemplated THEN Redundancy ELSE @]
            ELSE m
    BY DEF Patched
  <1> DEFINE n == m.spec + 1
             o == IF retemplated THEN Redundancy ELSE m.outdated
  <1>3. n \in Nat /\ o \in 0..Redundancy
    BY <1>1, ConstantsAssumption DEF Sfsets
  <1>4. [m EXCEPT !.spec = @ + 1, !.seen = FALSE,
                  !.outdated = IF retemplated THEN Redundancy ELSE @]
        = [m EXCEPT !.spec = n, !.seen = FALSE, !.outdated = o]
    BY <1>1 DEF Sfsets
  <1> HIDE DEF m, retemplated, n, o
  <1>5. /\ [m EXCEPT !.spec = n, !.seen = FALSE, !.outdated = o] \in Sfsets
        /\ [m EXCEPT !.spec = n, !.seen = FALSE, !.outdated = o].gen = m.gen
    BY <1>1, <1>3 DEF Sfsets
  <1>. QED
    BY <1>1, <1>2, <1>4, <1>5

-----------------------------------------------------------------------------
(* Effects of the two ways a sync writes a StatefulSet *)

\* History keeps its type.
LEMMA RolloutType ==
    ASSUME TypeOK, sf' \in [Workloads -> Sfsets], RecordRollout
    PROVE  rolled' \in [Workloads -> 0..MaxGen]
  BY DEF RecordRollout, TypeOK, Sfsets

\* A patch from a copy that is not ahead of the StatefulSet, with the copy's
\* generation or the config's, moves it forward, to the config's at most.
LEMMA PatchEffect ==
    ASSUME TypeOK, NEW w \in Workloads, NEW old \in Sfsets, NEW new \in Sfsets,
           NEW next, NEW stop,
           PatchStatefulSet(w, old, new, next, stop),
           sc.cs.gen \in Gens,
           \A v \in Workloads : sf[v].gen <= sc.cs.gen,
           old.gen <= sf[w].gen,
           new.gen = old.gen \/ new.gen = sc.cs.gen
    PROVE  /\ sf' \in [Workloads -> Sfsets]
           /\ rolled' \in [Workloads -> 0..MaxGen]
           /\ pc' = next \/ pc' = stop
           /\ \A v \in Workloads : sf'[v].gen >= sf[v].gen /\ sf'[v].gen <= sc.cs.gen
           /\ new.gen = sc.cs.gen => sf'[w].gen = sc.cs.gen
  <1>1. sf \in [Workloads -> Sfsets]
    BY DEF TypeOK
  <1>2. /\ Patched(w, old, new) \in Sfsets
        /\ Patched(w, old, new).gen = Merge(sf[w].gen, old.gen, new.gen)
    BY <1>1, PatchedType
  <1>3. /\ sf' = [sf EXCEPT ![w] = Patched(w, old, new)]
        /\ RecordRollout
        /\ pc' = next \/ pc' = stop
    BY DEF PatchStatefulSet
  <1>4. sf' \in [Workloads -> Sfsets]
    BY <1>1, <1>2, <1>3
  <1>5. rolled' \in [Workloads -> 0..MaxGen]
    BY <1>3, <1>4, RolloutType
  <1>6. /\ \A v \in Workloads : sf[v].gen \in Nat
        /\ old.gen \in Nat /\ new.gen \in Nat /\ sc.cs.gen \in Nat
    BY <1>1, ConstantsAssumption DEF Sfsets, Gens
  <1>7. /\ sf'[w].gen = Merge(sf[w].gen, old.gen, new.gen)
        /\ \A v \in Workloads : v # w => sf'[v] = sf[v]
    BY <1>1, <1>2, <1>3
  <1>8. /\ sf'[w].gen >= sf[w].gen /\ sf'[w].gen <= sc.cs.gen
        /\ new.gen = sc.cs.gen => sf'[w].gen = sc.cs.gen
    BY <1>6, <1>7 DEF Merge
  <1>9. \A v \in Workloads : sf'[v].gen >= sf[v].gen /\ sf'[v].gen <= sc.cs.gen
    BY <1>6, <1>7, <1>8
  <1>. QED
    BY <1>3, <1>4, <1>5, <1>8, <1>9

\* A StatefulSet that is created gets the config's generation.
LEMMA CreateEffect ==
    ASSUME TypeOK, NEW w \in Workloads, CreateStatefulSet(w),
           sc.cs.gen \in Gens, sc.nc.gen \in Gens,
           \A v \in Workloads : sf[v].gen <= sc.cs.gen
    PROVE  /\ sf' \in [Workloads -> Sfsets]
           /\ rolled' = rolled
           /\ \A v \in Workloads : sf'[v].gen >= sf[v].gen /\ sf'[v].gen <= sc.cs.gen
  <1>1. /\ sf \in [Workloads -> Sfsets] /\ specs \in [Gens -> SpecContent]
        /\ sc.cs \in ConfigMaps /\ sc.nc \in NdbClusters
    BY DEF TypeOK
  <1> DEFINE new == NewStatefulSet(w, sc.cs, sc.nc)
  <1>2. new \in Sfsets /\ new.gen = sc.cs.gen
    BY <1>1, UpdatedType
  <1> HIDE DEF new
  <1>3. [new EXCEPT !.spec = 1] \in Sfsets /\ [new EXCEPT !.spec = 1].gen = sc.cs.gen
    BY <1>2 DEF Sfsets
  <1>4. /\ sf' = sf \/ sf' = [sf EXCEPT ![w] = [new EXCEPT !.spec = 1]]
        /\ rolled' = rolled
    BY DEF CreateStatefulSet, new
  <1>5. /\ \A v \in Workloads : sf[v].gen \in Nat
        /\ sc.cs.gen \in Nat
    BY <1>1, ConstantsAssumption DEF Sfsets, Gens
  <1> DEFINE made == [new EXCEPT !.spec = 1]
  <1> HIDE DEF made
  <1>6. made \in Sfsets /\ made.gen = sc.cs.gen
    BY <1>3 DEF made
  <1>7. CASE sf' = sf
    BY <1>1, <1>4, <1>5, <1>7
  <1>8. CASE sf' = [sf EXCEPT ![w] = made]
    BY <1>1, <1>4, <1>5, <1>6, <1>8
  <1>. QED
    BY <1>4, <1>7, <1>8 DEF made

-----------------------------------------------------------------------------
(* Kinds of steps that preserve the invariant *)

SyncContexts ==
    [nc : NdbClusters, cs : ConfigMaps, sf : [Workloads -> Sfsets], success : BOOLEAN]

\* What no step of a running sync but the last ones touches.
SyncFrame ==
    /\ UNCHANGED <<nc, specs, cm, ncCache, cmCache, sfCache, errCache, faults>>
    /\ ndb' \in [groups : Nat, spread : Nat, roots : SUBSET Nat]
    /\ events' \in SUBSET (Workloads \cup {"cm"})
    /\ dirty' \in BOOLEAN

\* A step inside a sync may move StatefulSets forward, up to its config.
LEMMA SyncMoves ==
    ASSUME IndInv, SyncFrame, pc \in Configured, pc # "status",
           sf' \in [Workloads -> Sfsets],
           rolled' \in [Workloads -> 0..MaxGen],
           \A w \in Workloads : sf'[w].gen >= sf[w].gen /\ sf'[w].gen <= sc.cs.gen,
           pc' \in Configured,
           \A w \in Workloads : pc' \in Past(w) => sf'[w].gen = sc.cs.gen,
           sc' \in SyncContexts,
           sc'.nc = sc.nc, sc'.cs = sc.cs, sc'.success = sc.success,
           \A w \in Workloads : sc'.sf[w].gen <= sf'[w].gen
    PROVE  IndInv' /\ Forward
  <1>1. TypeOK'
    BY DEF IndInv, TypeOK, SyncFrame, SyncContexts, Configured
  <1>2. /\ \A w \in Workloads : sf[w].gen \in Nat /\ sf'[w].gen \in Nat /\ sfCache[w].gen \in Nat
        /\ cm.gen \in Nat /\ cmCache.gen \in Nat /\ sc.cs.gen \in Nat
        /\ nc.status.proc \in Nat /\ ncCache.status.proc \in Nat /\ sc.nc.status.proc \in Nat
    BY ConstantsAssumption
       DEF IndInv, TypeOK, Sfsets, ConfigMaps, NdbClusters, StatusType
  <1>3. pc # "idle" /\ pc' # "idle"
    BY DEF Configured, Steps
  <1>4. Flow'
    BY <1>2 DEF IndInv, Flow, SyncFlow, SyncFrame
  <1>5. SyncFlow'
    BY <1>2, <1>3 DEF IndInv, SyncFlow, SyncFrame
  <1>6. Copies'
    BY <1>2 DEF IndInv, Copies, SyncFrame
  <1>7. Progress'
    BY DEF IndInv, Progress, SyncFrame
  <1>8. Forward
    BY <1>2 DEF IndInv, Forward, SyncFrame
  <1>. QED
    BY <1>1, <1>4, <1>5, <1>6, <1>7, <1>8 DEF IndInv

\* A sync may end without an effect: it failed, or its status update did.
LEMMA SyncEnds ==
    ASSUME IndInv, pc' = "idle", sc' = NoSync,
           UNCHANGED <<nc, specs, cm, sf, rolled, ncCache, cmCache, sfCache, errCache, events>>,
           ndb' \in [groups : Nat, spread : Nat, roots : SUBSET Nat],
           dirty' \in BOOLEAN, faults' \in [Faults -> Nat]
    PROVE  IndInv' /\ Forward
  <1>1. /\ sc' \in SyncContexts /\ sc'.nc.status.proc = 0 /\ sc'.success = FALSE
        /\ \A w \in Workloads : sc'.sf[w].gen = 0
    BY ConstantsAssumption
       DEF NoSync, NoConfigMap, NoStatus, NoSfset, SyncContexts, NdbClusters, ConfigMaps,
           StatusType, Sfsets
  <1>2. TypeOK'
    BY <1>1 DEF IndInv, TypeOK, SyncContexts
  <1>3. /\ \A w \in Workloads : sf[w].gen \in Nat
        /\ cm.gen \in Nat
    BY ConstantsAssumption DEF IndInv, TypeOK, Sfsets, ConfigMaps
  <1>4. Flow' /\ SyncFlow'
    BY DEF IndInv, Flow, SyncFlow, Configured, Steps
  <1>5. Copies'
    BY <1>1, <1>3 DEF IndInv, Copies
  <1>6. Progress'
    BY <1>1 DEF Progress, Past, Last, Workloads
  <1>7. Forward
    BY <1>3 DEF Forward
  <1>. QED
    BY <1>2, <1>4, <1>5, <1>6, <1>7 DEF IndInv

\* The StatefulSet controller and the pods change no generation.
LEMMA StatusMoves ==
    ASSUME IndInv,
           UNCHANGED <<nc, specs, cm, ncCache, cmCache, sfCache, errCache, dirty, pc, sc>>,
           sf' \in [Workloads -> Sfsets], rolled' \in [Workloads -> 0..MaxGen],
           \A w \in Workloads : sf'[w].gen = sf[w].gen,
           ndb' \in [groups : Nat, spread : Nat, roots : SUBSET Nat],
           events' \in SUBSET (Workloads \cup {"cm"}), faults' \in [Faults -> Nat]
    PROVE  IndInv' /\ Forward
  <1>1. TypeOK'
    BY DEF IndInv, TypeOK
  <1>2. /\ \A w \in Workloads : sf[w].gen \in Nat
        /\ cm.gen \in Nat
    BY ConstantsAssumption DEF IndInv, TypeOK, Sfsets, ConfigMaps
  <1>3. Flow' /\ SyncFlow'
    BY DEF IndInv, Flow, SyncFlow
  <1>4. Copies' /\ Progress'
    BY DEF IndInv, Copies, Progress
  <1>5. Forward
    BY <1>2 DEF Forward
  <1>. QED
    BY <1>1, <1>3, <1>4, <1>5 DEF IndInv

-----------------------------------------------------------------------------
(* The steps of a sync *)

\* What every step that stays inside a sync may rely on.
LEMMA SyncFacts ==
    ASSUME IndInv, pc \in Configured
    PROVE  /\ sc.cs.gen \in Gens /\ sc.nc.gen \in Gens
           /\ sc \in SyncContexts
           /\ sf \in [Workloads -> Sfsets] /\ rolled \in [Workloads -> 0..MaxGen]
           /\ sfCache \in [Workloads -> Sfsets] /\ specs \in [Gens -> SpecContent]
           /\ \A w \in Workloads :
                 /\ sf[w].gen \in Nat /\ sf[w].gen <= sc.cs.gen
                 /\ sc.sf[w].gen <= sf[w].gen /\ sfCache[w].gen <= sf[w].gen
                 /\ pc \in Past(w) => sf[w].gen = sc.cs.gen
  <1>1. pc # "idle"
    BY DEF Configured, Steps
  <1>2. /\ sc.cs.gen \in Gens /\ sc.nc.gen \in Gens
        /\ \A w \in Workloads : sf[w].gen <= sc.cs.gen
    BY <1>1 DEF IndInv, SyncFlow
  <1>3. /\ sc \in SyncContexts
        /\ sf \in [Workloads -> Sfsets] /\ rolled \in [Workloads -> 0..MaxGen]
        /\ sfCache \in [Workloads -> Sfsets] /\ specs \in [Gens -> SpecContent]
    BY DEF IndInv, TypeOK, SyncContexts
  <1>4. \A w \in Workloads : sf[w].gen \in Nat
    BY <1>3, ConstantsAssumption DEF Sfsets
  <1>5. \A w \in Workloads :
           /\ sc.sf[w].gen <= sf[w].gen /\ sfCache[w].gen <= sf[w].gen
           /\ pc \in Past(w) => sf[w].gen = sc.cs.gen
    BY DEF IndInv, Copies, Progress
  <1>. QED
    BY <1>2, <1>3, <1>4, <1>5

\* A step that writes no StatefulSet and goes on, with the SyncContext it has
\* or with another copy of the StatefulSets.
LEMMA QuietStep ==
    ASSUME IndInv, pc \in Configured, pc # "status", pc' \in Configured,
           SyncFrame, UNCHANGED <<sf, rolled>>,
           \A w \in Workloads :
              pc' \in Past(w) => pc \in Past(w) \/ sc.sf[w].gen = sc.cs.gen,
           sc' \in SyncContexts,
           sc'.nc = sc.nc, sc'.cs = sc.cs, sc'.success = sc.success,
           \A w \in Workloads : sc'.sf[w].gen <= sf[w].gen
    PROVE  IndInv' /\ Forward
  <1>1. \A w \in Workloads : /\ sf[w].gen \in Nat /\ sf[w].gen <= sc.cs.gen
                             /\ sc.sf[w].gen <= sf[w].gen
                             /\ pc \in Past(w) => sf[w].gen = sc.cs.gen
                             /\ sc.sf[w].gen \in Nat
    BY SyncFacts, ConstantsAssumption DEF SyncContexts, Sfsets
  <1>2. sc.cs.gen \in Nat
    BY SyncFacts, ConstantsAssumption DEF Gens
  <1>3. \A w \in Workloads : pc' \in Past(w) => sf'[w].gen = sc.cs.gen
    BY <1>1, <1>2
  <1>4. /\ sf' \in [Workloads -> Sfsets] /\ rolled' \in [Workloads -> 0..MaxGen]
        /\ \A w \in Workloads : sf'[w].gen >= sf[w].gen /\ sf'[w].gen <= sc.cs.gen
        /\ \A w \in Workloads : sc'.sf[w].gen <= sf'[w].gen
    BY <1>1, SyncFacts
  <1>. QED
    BY <1>3, <1>4, SyncMoves

\* A step that patches a StatefulSet, and goes on or stops the sync.
LEMMA PatchStep ==
    ASSUME IndInv, pc \in Configured, pc # "status", SyncFrame,
           NEW w \in Workloads, NEW old \in Sfsets, NEW new \in Sfsets,
           NEW next \in Configured, NEW stop \in Configured,
           PatchStatefulSet(w, old, new, next, stop),
           old.gen <= sf[w].gen,
           new.gen = old.gen \/ new.gen = sc.cs.gen,
           \A v \in Workloads : next \in Past(v) \/ stop \in Past(v) =>
                pc \in Past(v) \/ (v = w /\ new.gen = sc.cs.gen),
           sc' \in SyncContexts,
           sc'.nc = sc.nc, sc'.cs = sc.cs, sc'.success = sc.success,
           \A v \in Workloads : sc'.sf[v].gen <= sf[v].gen
    PROVE  IndInv' /\ Forward
  <1>1. /\ TypeOK /\ sc.cs.gen \in Gens
        /\ \A v \in Workloads : sf[v].gen <= sc.cs.gen
    BY SyncFacts DEF IndInv
  <1>2. /\ sf' \in [Workloads -> Sfsets]
        /\ rolled' \in [Workloads -> 0..MaxGen]
        /\ pc' = next \/ pc' = stop
        /\ \A v \in Workloads : sf'[v].gen >= sf[v].gen /\ sf'[v].gen <= sc.cs.gen
        /\ new.gen = sc.cs.gen => sf'[w].gen = sc.cs.gen
    BY <1>1, PatchEffect
  <1>3. /\ sc.cs.gen \in Nat
        /\ \A v \in Workloads : sf[v].gen \in Nat /\ sf'[v].gen \in Nat /\ sc'.sf[v].gen \in Nat
    <2>1. sc.cs.gen \in Nat
      BY <1>1, ConstantsAssumption DEF Gens
    <2>2. \A v \in Workloads : sf[v].gen \in Nat
      BY SyncFacts
    <2>3. \A v \in Workloads : sf'[v].gen \in Nat
      BY <1>2, ConstantsAssumption DEF Sfsets
    <2>4. \A v \in Workloads : sc'.sf[v].gen \in Nat
      BY ConstantsAssumption DEF Sfsets, SyncContexts
    <2>. QED
      BY <2>1, <2>2, <2>3, <2>4
  <1>4. \A v \in Workloads : pc \in Past(v) => sf[v].gen = sc.cs.gen
    BY SyncFacts
  <1>5. ASSUME NEW v \in Workloads, pc' \in Past(v)
        PROVE  sf'[v].gen = sc.cs.gen
    <2>1. pc \in Past(v) \/ (v = w /\ new.gen = sc.cs.gen)
      BY <1>2, <1>5
    <2>2. CASE pc \in Past(v)
      <3>1. sf[v].gen = sc.cs.gen
        BY <1>4, <2>2
      <3>2. sf'[v].gen >= sf[v].gen /\ sf'[v].gen <= sc.cs.gen
        BY <1>2
      <3>3. sf'[v].gen \in Nat /\ sf[v].gen \in Nat
        BY <1>3
      <3>. QED
        BY ONLY <3>1, <3>2, <3>3
    <2>3. CASE v = w /\ new.gen = sc.cs.gen
      BY <1>2, <2>3
    <2>. QED
      BY <2>1, <2>2, <2>3
  <1>6. \A v \in Workloads : sc'.sf[v].gen <= sf'[v].gen
    BY <1>2, <1>3
  <1>. QED
    BY <1>2, <1>5, <1>6, SyncMoves

\* DeletePodOnStsUpdate only stops the sync.
LEMMA DeletePodStep ==
    ASSUME IndInv, DeletePodOnStsUpdate
    PROVE  IndInv' /\ Forward
  <1>1. /\ pc \in Configured /\ pc # "status" /\ pc' \in Configured
        /\ \A w \in Workloads : pc' \notin Past(w)
    BY DEF DeletePodOnStsUpdate, Goto, Configured, Steps, Past, Last, Workloads
  <1>2. SyncFrame /\ UNCHANGED <<sf, rolled, sc>>
    BY DEF DeletePodOnStsUpdate, cluster, caches, SyncFrame, IndInv, TypeOK
  <1>. QED
    BY <1>1, <1>2, SyncFacts, QuietStep

\* ValidateMySQLServerStatefulSet reads a StatefulSet from the cache.
LEMMA ValidateStep ==
    ASSUME IndInv, ValidateMySQLServerStatefulSet
    PROVE  IndInv' /\ Forward
  <1>1. /\ pc \in Configured /\ pc # "status" /\ pc' \in Configured
        /\ \A w \in Workloads : pc' \notin Past(w)
    BY DEF ValidateMySQLServerStatefulSet, Goto, Configured, Steps, Past, Last, Workloads
  <1>2. SyncFrame /\ UNCHANGED <<sf, rolled>>
    BY DEF ValidateMySQLServerStatefulSet, cluster, caches, SyncFrame, IndInv, TypeOK
  <1>3. sc' = [sc EXCEPT !.sf["mysqld"] = sfCache["mysqld"]]
    BY DEF ValidateMySQLServerStatefulSet
  <1>4. /\ sc' \in SyncContexts
        /\ sc'.nc = sc.nc /\ sc'.cs = sc.cs /\ sc'.success = sc.success
        /\ \A w \in Workloads : sc'.sf[w].gen <= sf[w].gen
    BY <1>1, <1>3, SyncFacts DEF SyncContexts, Workloads
  <1>. QED
    BY <1>1, <1>2, <1>4, QuietStep

\* HandleScaleDown patches the number of MySQL Servers, or nothing.
LEMMA ScaleDownStep ==
    ASSUME IndInv, HandleScaleDown
    PROVE  IndInv' /\ Forward
  <1> DEFINE s == sc.sf["mysqld"]
             count == specs[sc.cs.gen].servers
             new == [s EXCEPT !.reps = count]
  <1>1. /\ pc \in Configured /\ pc # "status"
        /\ SyncFrame /\ sc' = sc
    BY DEF HandleScaleDown, Configured, Steps, caches, SyncFrame, IndInv, TypeOK
  <1>2. s \in Sfsets /\ count \in Nat
    BY <1>1, SyncFacts DEF SyncContexts, SpecContent, Workloads
  <1>3. new \in Sfsets /\ new.gen = s.gen
    BY <1>2 DEF Sfsets
  <1>4. "mysqld" \in Workloads /\ "rmgmd" \in Configured /\ "status" \in Configured
        /\ \A w \in Workloads : "rmgmd" \notin Past(w) /\ "status" \notin Past(w)
    BY DEF Configured, Steps, Past, Last, Workloads
  <1>5. \/ pc' = "rmgmd" /\ UNCHANGED <<sf, rolled>>
        \/ PatchStatefulSet("mysqld", s, new, "rmgmd", "status")
    BY DEF HandleScaleDown, Goto
  <1> HIDE DEF s, count, new
  <1>6. CASE pc' = "rmgmd" /\ UNCHANGED <<sf, rolled>>
    BY <1>1, <1>4, <1>6, SyncFacts, QuietStep
  <1>7. CASE PatchStatefulSet("mysqld", s, new, "rmgmd", "status")
    <2>1. s.gen <= sf["mysqld"].gen
      BY <1>1, <1>4, SyncFacts DEF s
    <2>. QED
      BY <1>1, <1>2, <1>3, <1>4, <1>7, <2>1, SyncFacts, PatchStep
  <1>. QED
    BY <1>5, <1>6, <1>7

\* ReconcileStatefulSet leaves a StatefulSet at the config's generation.
LEMMA ReconcileStep ==
    ASSUME IndInv, pc \in Configured, pc # "status", SyncFrame, sc' = sc,
           NEW w \in Workloads, NEW upToDate,
           NEW next \in Configured, NEW stop \in Configured,
           ReconcileStatefulSet(w, upToDate, next, stop),
           upToDate => workloadHasConfigGeneration(sc.sf[w], sc.cs.gen),
           \A v \in Workloads : next \in Past(v) \/ stop \in Past(v) => pc \in Past(v) \/ v = w
    PROVE  IndInv' /\ Forward
  <1> DEFINE s == sc.sf[w]
             new == UpdatedStatefulSet(w, s, sc.cs, sc.nc)
  <1>1. /\ s \in Sfsets /\ s.gen <= sf[w].gen
        /\ sc.cs \in ConfigMaps /\ sc.nc \in NdbClusters
        /\ sc.cs.gen \in Gens /\ sc.nc.gen \in Gens
    BY SyncFacts DEF SyncContexts
  <1>2. new \in Sfsets /\ new.gen = sc.cs.gen
    BY <1>1, SyncFacts, UpdatedType
  <1>3. \/ upToDate /\ pc' = next /\ UNCHANGED <<sf, rolled>>
        \/ PatchStatefulSet(w, s, new, next, stop)
    BY DEF ReconcileStatefulSet, Goto
  <1> HIDE DEF s, new
  <1>4. CASE upToDate /\ pc' = next /\ UNCHANGED <<sf, rolled>>
    <2>1. sc.sf[w].gen = sc.cs.gen
      BY <1>4 DEF workloadHasConfigGeneration
    <2>2. \A v \in Workloads : pc' \in Past(v) => pc \in Past(v) \/ sc.sf[v].gen = sc.cs.gen
      BY <1>4, <2>1
    <2>. QED
      BY <1>4, <2>2, SyncFacts, QuietStep
  <1>5. CASE PatchStatefulSet(w, s, new, next, stop)
    <2>1. \A v \in Workloads : next \in Past(v) \/ stop \in Past(v) =>
              pc \in Past(v) \/ (v = w /\ new.gen = sc.cs.gen)
      BY <1>2
    <2>2. /\ sc' \in SyncContexts
          /\ sc'.nc = sc.nc /\ sc'.cs = sc.cs /\ sc'.success = sc.success
          /\ \A v \in Workloads : sc'.sf[v].gen <= sf[v].gen
      BY SyncFacts
    <2>. QED
      BY <1>1, <1>2, <1>5, <2>1, <2>2, PatchStep
  <1>. QED
    BY <1>3, <1>4, <1>5

\* The three workloads are reconciled one after the other.
LEMMA ReconcileManagementStep ==
    ASSUME IndInv, ReconcileManagementNodeStatefulSet
    PROVE  IndInv' /\ Forward
  <1> DEFINE up == workloadHasConfigGeneration(sc.sf["mgmd"], sc.cs.gen)
             stop == IF HasSyncError(sc.nc) THEN "deletepod" ELSE "status"
  <1>1. /\ pc \in Configured /\ pc # "status"
        /\ SyncFrame /\ sc' = sc
    BY DEF ReconcileManagementNodeStatefulSet, Configured, Steps, caches, SyncFrame, IndInv, TypeOK
  <1>2. ReconcileStatefulSet("mgmd", up, "rdata", stop)
    BY DEF ReconcileManagementNodeStatefulSet
  <1>3. /\ "mgmd" \in Workloads /\ "rdata" \in Configured /\ stop \in Configured
        /\ \A v \in Workloads : "rdata" \in Past(v) \/ stop \in Past(v) => v = "mgmd"
    BY DEF Configured, Steps, Past, Last, Workloads
  <1> HIDE DEF stop
  <1>. QED
    BY <1>1, <1>2, <1>3, ReconcileStep

\* The data nodes' StatefulSet is patched too to drop the --initial flag.
LEMMA ReconcileDataNodeStep ==
    ASSUME IndInv, ReconcileDataNodeStatefulSet
    PROVE  IndInv' /\ Forward
  <1> DEFINE up == /\ workloadHasConfigGeneration(sc.sf["ndbmtd"], sc.cs.gen)
                   /\ ~(isInitialFlagSet(sc.sf["ndbmtd"]) /\ ~sc.cs.init)
  <1>1. /\ pc \in Configured /\ pc # "status" /\ pc = "rdata"
        /\ SyncFrame /\ sc' = sc
    BY DEF ReconcileDataNodeStatefulSet, Configured, Steps, caches, SyncFrame, IndInv, TypeOK
  <1>2. ReconcileStatefulSet("ndbmtd", up, "podver", "status")
    BY DEF ReconcileDataNodeStatefulSet
  <1>3. /\ "ndbmtd" \in Workloads /\ "podver" \in Configured /\ "status" \in Configured
        /\ \A v \in Workloads : "podver" \in Past(v) \/ "status" \in Past(v) =>
                                    "rdata" \in Past(v) \/ v = "ndbmtd"
    BY DEF Configured, Steps, Past, Last, Workloads
  <1>4. up => workloadHasConfigGeneration(sc.sf["ndbmtd"], sc.cs.gen)
    OBVIOUS
  <1> HIDE DEF up
  <1>. QED
    BY <1>1, <1>2, <1>3, <1>4, ReconcileStep

\* The MySQL Servers' StatefulSet is created when there is none.
LEMMA ReconcileMySQLStep ==
    ASSUME IndInv, ReconcileMySQLServerStatefulSet
    PROVE  IndInv' /\ Forward
  <1> DEFINE up == workloadHasConfigGeneration(sc.sf["mysqld"], sc.cs.gen)
  <1>1. /\ pc \in Configured /\ pc # "status" /\ pc = "rmysqld"
        /\ SyncFrame /\ sc' = sc
    BY DEF ReconcileMySQLServerStatefulSet, Configured, Steps, caches, SyncFrame, IndInv, TypeOK
  <1>2. \/ CreateStatefulSet("mysqld") /\ pc' = "status"
        \/ ReconcileStatefulSet("mysqld", up, "addnode", "status")
    BY DEF ReconcileMySQLServerStatefulSet, Goto
  <1>3. /\ "mysqld" \in Workloads /\ "addnode" \in Configured /\ "status" \in Configured
        /\ \A v \in Workloads : /\ "addnode" \in Past(v) => "rmysqld" \in Past(v) \/ v = "mysqld"
                                /\ "status" \notin Past(v)
    BY DEF Configured, Steps, Past, Last, Workloads
  <1>4. CASE CreateStatefulSet("mysqld") /\ pc' = "status"
    <2>1. /\ sf' \in [Workloads -> Sfsets] /\ rolled' = rolled
          /\ \A v \in Workloads : sf'[v].gen >= sf[v].gen /\ sf'[v].gen <= sc.cs.gen
      BY <1>1, <1>3, <1>4, SyncFacts, CreateEffect DEF IndInv
    <2>2. \A v \in Workloads : sc'.sf[v].gen \in Nat /\ sf[v].gen \in Nat /\ sf'[v].gen \in Nat
      BY <1>1, <2>1, SyncFacts, ConstantsAssumption DEF SyncContexts, Sfsets
    <2>3. \A v \in Workloads : sc'.sf[v].gen <= sf[v].gen
      BY <1>1, SyncFacts
    <2>4. \A v \in Workloads : sc'.sf[v].gen <= sf'[v].gen
      BY <2>1, <2>2, <2>3
    <2>. QED
      BY <1>1, <1>3, <1>4, <2>1, <2>4, SyncFacts, SyncMoves
  <1>5. CASE ReconcileStatefulSet("mysqld", up, "addnode", "status")
    BY <1>1, <1>3, <1>5, ReconcileStep
  <1>. QED
    BY <1>2, <1>4, <1>5

\* Patches of the last steps keep the generation of the copy they start from.
LEMMA LastPatchStep ==
    ASSUME IndInv, pc \in Last, SyncFrame, sc' = sc,
           NEW w \in Workloads, NEW new \in Sfsets, new.gen = sc.sf[w].gen,
           NEW next \in Last,
           PatchStatefulSet(w, sc.sf[w], new, next, "status")
    PROVE  IndInv' /\ Forward
  <1>1. /\ pc \in Configured /\ pc # "status"
        /\ next \in Configured /\ "status" \in Configured
    BY DEF Configured, Steps, Last
  <1>2. \A v \in Workloads : pc \in Past(v)
    BY DEF Past, Workloads
  <1>3. /\ sc' \in SyncContexts
        /\ sc'.nc = sc.nc /\ sc'.cs = sc.cs /\ sc'.success = sc.success
        /\ \A v \in Workloads : sc'.sf[v].gen <= sf[v].gen
    BY <1>1, SyncFacts
  <1>4. sc.sf[w] \in Sfsets /\ sc.sf[w].gen <= sf[w].gen
    BY <1>1, SyncFacts DEF SyncContexts
  <1> DEFINE old == sc.sf[w]
  <1>5. /\ old \in Sfsets /\ old.gen <= sf[w].gen /\ new.gen = old.gen
        /\ PatchStatefulSet(w, old, new, next, "status")
    BY <1>4
  <1> HIDE DEF old
  <1>. QED
    BY <1>1, <1>2, <1>3, <1>5, PatchStep

\* A last step that writes no StatefulSet.
LEMMA LastQuietStep ==
    ASSUME IndInv, pc \in Last, SyncFrame, sc' = sc, UNCHANGED <<sf, rolled>>,
           pc' \in Last \cup {"status"}
    PROVE  IndInv' /\ Forward
  <1>1. /\ pc \in Configured /\ pc # "status" /\ pc' \in Configured
        /\ \A v \in Workloads : pc \in Past(v)
    BY DEF Configured, Steps, Last, Past, Workloads
  <1>2. /\ sc' \in SyncContexts
        /\ sc'.nc = sc.nc /\ sc'.cs = sc.cs /\ sc'.success = sc.success
        /\ \A v \in Workloads : sc'.sf[v].gen <= sf[v].gen
    BY <1>1, SyncFacts
  <1>. QED
    BY <1>1, <1>2, QuietStep

\* A step that fails the sync.
LEMMA FailStep ==
    ASSUME IndInv, FailSync,
           UNCHANGED <<nc, specs, cm, sf, rolled, ncCache, cmCache, sfCache, errCache, events>>,
           ndb' \in [groups : Nat, spread : Nat, roots : SUBSET Nat],
           faults' \in [Faults -> Nat]
    PROVE  IndInv' /\ Forward
  BY SyncEnds DEF FailSync

\* A fault is counted.
LEMMA FaultType ==
    ASSUME TypeOK, NEW f \in Faults, Fault(f)
    PROVE  faults' \in [Faults -> Nat]
  BY DEF TypeOK, Fault

\* StartNewDataNodes patches the number of data nodes, or nothing.
LEMMA StartNewDataNodesStep ==
    ASSUME IndInv, StartNewDataNodes
    PROVE  IndInv' /\ Forward
  <1> DEFINE s == sc.sf["ndbmtd"]
             count == specs[sc.cs.gen].nodes
             new == [s EXCEPT !.reps = count]
  <1>1. /\ pc \in Last /\ pc \in Configured
        /\ SyncFrame /\ sc' = sc
        /\ "ndbmtd" \in Workloads /\ "nodegroups" \in Last /\ "root" \in Last
    BY DEF StartNewDataNodes, Configured, Steps, Last, caches, SyncFrame, IndInv, TypeOK, Workloads
  <1>2. s \in Sfsets /\ count \in Nat
    BY <1>1, SyncFacts DEF SyncContexts, SpecContent
  <1>3. new \in Sfsets /\ new.gen = s.gen
    BY <1>2 DEF Sfsets
  <1>4. \/ pc' \in Last /\ UNCHANGED <<sf, rolled>>
        \/ PatchStatefulSet("ndbmtd", sc.sf["ndbmtd"], new, "nodegroups", "status")
    BY <1>1 DEF StartNewDataNodes, Goto
  <1> HIDE DEF new
  <1>5. CASE pc' \in Last /\ UNCHANGED <<sf, rolled>>
    BY <1>1, <1>5, LastQuietStep
  <1>6. CASE PatchStatefulSet("ndbmtd", sc.sf["ndbmtd"], new, "nodegroups", "status")
    BY <1>1, <1>3, <1>6, LastPatchStep
  <1>. QED
    BY <1>4, <1>5, <1>6

\* Node groups are created in the MySQL Cluster only.
LEMMA CreateNodeGroupsStep ==
    ASSUME IndInv, CreateNodeGroups
    PROVE  IndInv' /\ Forward
  <1>1. /\ pc \in Last /\ pc' \in Last
        /\ UNCHANGED <<nc, specs, cm, sf, rolled, caches, sc, dirty, faults>>
    BY DEF CreateNodeGroups, Goto, Last
  <1>2. PICK g \in ndb.groups..sf["ndbmtd"].stat : ndb' = [ndb EXCEPT !.groups = g]
    BY DEF CreateNodeGroups
  <1>3. /\ ndb \in [groups : Nat, spread : Nat, roots : SUBSET Nat]
        /\ sf["ndbmtd"].stat \in Nat
    BY DEF IndInv, TypeOK, Sfsets, Workloads
  <1>4. g \in Nat
    BY <1>3
  <1>5. ndb' \in [groups : Nat, spread : Nat, roots : SUBSET Nat]
    BY <1>2, <1>3, <1>4
  <1>6. SyncFrame
    BY <1>1, <1>5 DEF SyncFrame, caches, IndInv, TypeOK
  <1>. QED
    BY <1>1, <1>6, LastQuietStep

\* Some node groups are created before the sync fails.
LEMMA CreateNodeGroupFailsStep ==
    ASSUME IndInv, CreateNodeGroupFails
    PROVE  IndInv' /\ Forward
  <1>1. /\ FailSync
        /\ UNCHANGED <<nc, specs, cm, sf, rolled, caches>>
    BY DEF CreateNodeGroupFails
  <1>2. PICK g \in ndb.groups..sf["ndbmtd"].stat : ndb' = [ndb EXCEPT !.groups = g]
    BY DEF CreateNodeGroupFails
  <1>3. /\ ndb \in [groups : Nat, spread : Nat, roots : SUBSET Nat]
        /\ sf["ndbmtd"].stat \in Nat
    BY DEF IndInv, TypeOK, Sfsets, Workloads
  <1>4. g \in Nat
    BY <1>3
  <1>5. ndb' \in [groups : Nat, spread : Nat, roots : SUBSET Nat]
    BY <1>2, <1>3, <1>4
  <1>6. faults' \in [Faults -> Nat]
    BY FaultType DEF CreateNodeGroupFails, IndInv, Faults
  <1>. QED
    BY <1>1, <1>5, <1>6, FailStep DEF caches

\* A SQL statement keeps the type of what it changes, and goes on.
LEMMA SQLType ==
    ASSUME IndInv, NEW users \in SUBSET Nat, NEW spread \in Nat, SQLRuns(users, spread)
    PROVE  /\ ndb' \in [groups : Nat, spread : Nat, roots : SUBSET Nat]
           /\ UNCHANGED <<sc, dirty>>
  BY DEF IndInv, TypeOK, SQLRuns

\* ReorgNdbTables changes where the tables are, or fails.
LEMMA ReorgStep ==
    ASSUME IndInv, ReorgNdbTables
    PROVE  IndInv' /\ Forward
  <1>1. /\ UNCHANGED <<nc, specs, cm, sf, rolled, caches, faults>>
        /\ pc \in Last /\ "added" \in Last
        /\ \/ FailSync /\ UNCHANGED ndb
           \/ SQLRuns(ndb.roots, ndb.groups) /\ pc' = "added"
    BY DEF ReorgNdbTables, SQLFails, Goto, Last
  <1>2. ndb \in [groups : Nat, spread : Nat, roots : SUBSET Nat] /\ faults \in [Faults -> Nat]
    BY DEF IndInv, TypeOK
  <1>3. CASE FailSync /\ UNCHANGED ndb
    BY <1>1, <1>2, <1>3, FailStep DEF caches
  <1>4. CASE SQLRuns(ndb.roots, ndb.groups) /\ pc' = "added"
    <2>1. /\ ndb' \in [groups : Nat, spread : Nat, roots : SUBSET Nat]
          /\ UNCHANGED <<sc, dirty>>
      BY <1>2, <1>4, SQLType
    <2>2. SyncFrame
      BY <1>1, <2>1 DEF SyncFrame, caches, IndInv, TypeOK
    <2>. QED
      BY <1>1, <1>4, <2>1, <2>2, LastQuietStep
  <1>. QED
    BY <1>1, <1>3, <1>4

\* RemoveAddNodeAnnotation patches an annotation.
LEMMA RemoveAddNodeStep ==
    ASSUME IndInv, RemoveAddNodeAnnotation
    PROVE  IndInv' /\ Forward
  <1> DEFINE s == sc.sf["ndbmtd"]
             new == [s EXCEPT !.add = FALSE]
  <1>1. /\ pc \in Last /\ pc \in Configured
        /\ SyncFrame /\ sc' = sc
        /\ "ndbmtd" \in Workloads /\ "root" \in Last
    BY DEF RemoveAddNodeAnnotation, Configured, Steps, Last, caches, SyncFrame, IndInv, TypeOK,
           Workloads
  <1>2. s \in Sfsets
    BY <1>1, SyncFacts DEF SyncContexts
  <1>3. new \in Sfsets /\ new.gen = s.gen
    BY <1>2 DEF Sfsets
  <1>4. PatchStatefulSet("ndbmtd", sc.sf["ndbmtd"], new, "root", "status")
    BY DEF RemoveAddNodeAnnotation
  <1> HIDE DEF new
  <1>. QED
    BY <1>1, <1>3, <1>4, LastPatchStep

\* ReconcileRootUser creates or renames a user, does nothing, or fails.
LEMMA RootUserStep ==
    ASSUME IndInv, ReconcileRootUser
    PROVE  IndInv' /\ Forward
  <1> DEFINE s    == sc.sf["mysqld"]
             host == specs[sc.nc.gen].host
  <1>1. /\ UNCHANGED <<nc, specs, cm, sf, rolled, caches, faults>>
        /\ pc \in Last /\ pc \in Configured /\ "rootpatch" \in Last /\ "cmpatch" \in Last
        /\ \/ pc' \in Last /\ UNCHANGED <<ndb, sc, dirty>>
           \/ FailSync /\ UNCHANGED ndb
           \/ SQLRuns(ndb.roots \cup {host}, ndb.spread) /\ pc' \in Last
           \/ SQLRuns((ndb.roots \ {s.host}) \cup {host}, ndb.spread) /\ pc' \in Last
    BY DEF ReconcileRootUser, SQLFails, Goto, Last, Configured, Steps
  <1>2. ndb \in [groups : Nat, spread : Nat, roots : SUBSET Nat] /\ faults \in [Faults -> Nat]
    BY DEF IndInv, TypeOK
  <1>3. host \in Nat
    BY <1>1, SyncFacts DEF SpecContent
  <1> HIDE DEF s, host
  <1>4. ASSUME ndb' \in [groups : Nat, spread : Nat, roots : SUBSET Nat],
               UNCHANGED <<sc, dirty>>, pc' \in Last
        PROVE  IndInv' /\ Forward
    <2>1. SyncFrame
      BY <1>1, <1>4 DEF SyncFrame, caches, IndInv, TypeOK
    <2>. QED
      BY <1>1, <1>4, <2>1, LastQuietStep
  <1>5. CASE pc' \in Last /\ UNCHANGED <<ndb, sc, dirty>>
    BY <1>2, <1>4, <1>5
  <1>6. CASE FailSync /\ UNCHANGED ndb
    BY <1>1, <1>2, <1>6, FailStep DEF caches
  <1>7. CASE SQLRuns(ndb.roots \cup {host}, ndb.spread) /\ pc' \in Last
    <2>1. ndb.roots \cup {host} \in SUBSET Nat /\ ndb.spread \in Nat
      BY <1>2, <1>3
    <2>. QED
      BY <1>4, <1>7, <2>1, SQLType
  <1>8. CASE SQLRuns((ndb.roots \ {s.host}) \cup {host}, ndb.spread) /\ pc' \in Last
    <2>1. (ndb.roots \ {s.host}) \cup {host} \in SUBSET Nat /\ ndb.spread \in Nat
      BY <1>2, <1>3
    <2>. QED
      BY <1>4, <1>8, <2>1, SQLType
  <1>. QED
    BY <1>1, <1>5, <1>6, <1>7, <1>8

\* PatchRootAnnotations patches two annotations.
LEMMA PatchRootStep ==
    ASSUME IndInv, PatchRootAnnotations
    PROVE  IndInv' /\ Forward
  <1> DEFINE s == sc.sf["mysqld"]
             host == specs[sc.nc.gen].host
             new == [s EXCEPT !.root = sc.cs.gen, !.host = host]
  <1>1. /\ pc \in Last /\ pc \in Configured
        /\ SyncFrame /\ sc' = sc
        /\ "mysqld" \in Workloads /\ "cmpatch" \in Last
    BY DEF PatchRootAnnotations, Configured, Steps, Last, caches, SyncFrame, IndInv, TypeOK,
           Workloads
  <1>2. s \in Sfsets /\ host \in Nat /\ sc.cs.gen \in 0..MaxGen
    BY <1>1, SyncFacts DEF SyncContexts, SpecContent, Gens
  <1>3. new \in Sfsets /\ new.gen = s.gen
    BY <1>2 DEF Sfsets
  <1>4. PatchStatefulSet("mysqld", sc.sf["mysqld"], new, "cmpatch", "status")
    BY DEF PatchRootAnnotations
  <1> HIDE DEF new
  <1>. QED
    BY <1>1, <1>3, <1>4, LastPatchStep

\* EnsureStatefulSet creates a StatefulSet, reads it or patches it.
LEMMA EnsureStep ==
    ASSUME IndInv, NEW w \in Workloads, NEW next \in Configured, NEW stop \in Configured,
           w \in Configured, w # "status",
           \A v \in Workloads : next \notin Past(v) /\ stop \notin Past(v) /\ "status" \notin Past(v),
           EnsureStatefulSet(w, next, stop)
    PROVE  IndInv' /\ Forward
  <1> DEFINE s == sfCache[w]
             new == UpdatedStatefulSet(w, s, sc.cs, sc.nc)
             copied == [sc EXCEPT !.sf[w] = s]
  <1>1. /\ pc \in Configured /\ pc # "status" /\ "status" \in Configured
        /\ SyncFrame
    BY DEF EnsureStatefulSet, Configured, Steps, caches, SyncFrame, IndInv, TypeOK
  <1>2. \/ CreateStatefulSet(w) /\ pc' = "status" /\ sc' = sc
        \/ sc' = copied /\ PatchStatefulSet(w, s, new, "status", stop)
        \/ sc' = copied /\ pc' \in {"status", next} /\ UNCHANGED <<sf, rolled>>
    BY DEF EnsureStatefulSet, Goto
  <1>3. /\ s \in Sfsets /\ s.gen <= sf[w].gen
        /\ sc.cs \in ConfigMaps /\ sc.nc \in NdbClusters
        /\ sc.cs.gen \in Gens /\ sc.nc.gen \in Gens
    BY <1>1, SyncFacts DEF SyncContexts
  <1>4. new \in Sfsets /\ new.gen = sc.cs.gen
    BY <1>1, <1>3, SyncFacts, UpdatedType
  <1>5. /\ copied \in SyncContexts
        /\ copied.nc = sc.nc /\ copied.cs = sc.cs /\ copied.success = sc.success
        /\ \A v \in Workloads : copied.sf[v].gen <= sf[v].gen
    BY <1>1, <1>3, SyncFacts DEF SyncContexts
  <1> HIDE DEF s, new, copied
  <1>6. CASE CreateStatefulSet(w) /\ pc' = "status" /\ sc' = sc
    <2>1. /\ sf' \in [Workloads -> Sfsets] /\ rolled' = rolled
          /\ \A v \in Workloads : sf'[v].gen >= sf[v].gen /\ sf'[v].gen <= sc.cs.gen
      BY <1>1, <1>3, <1>6, SyncFacts, CreateEffect DEF IndInv
    <2>2. \A v \in Workloads : sc'.sf[v].gen \in Nat /\ sf[v].gen \in Nat /\ sf'[v].gen \in Nat
      BY <1>1, <1>6, <2>1, SyncFacts, ConstantsAssumption DEF SyncContexts, Sfsets
    <2>3. \A v \in Workloads : sc'.sf[v].gen <= sf[v].gen
      BY <1>1, <1>6, SyncFacts
    <2>4. \A v \in Workloads : sc'.sf[v].gen <= sf'[v].gen
      BY <2>1, <2>2, <2>3
    <2>. QED
      BY <1>1, <1>6, <2>1, <2>4, SyncFacts, SyncMoves
  <1>7. CASE sc' = copied /\ PatchStatefulSet(w, s, new, "status", stop)
    BY <1>1, <1>3, <1>4, <1>5, <1>7, PatchStep
  <1>8. CASE sc' = copied /\ pc' \in {"status", next} /\ UNCHANGED <<sf, rolled>>
    BY <1>1, <1>5, <1>8, QuietStep
  <1>. QED
    BY <1>2, <1>6, <1>7, <1>8

\* The two workloads that are started first.
LEMMA EnsureSteps ==
    ASSUME IndInv, EnsureManagementServerStatefulSet \/ EnsureDataNodeStatefulSet
    PROVE  IndInv' /\ Forward
  <1>1. /\ {"mgmd", "ndbmtd"} \subseteq Workloads
        /\ {"mgmd", "ndbmtd", "mysqld", "deletepod", "status"} \subseteq Configured
        /\ \A v \in Workloads : \A x \in {"ndbmtd", "mysqld", "deletepod", "status"} : x \notin Past(v)
    BY DEF Workloads, Configured, Steps, Past, Last
  <1>2. CASE EnsureManagementServerStatefulSet
    BY <1>1, <1>2, EnsureStep DEF EnsureManagementServerStatefulSet
  <1>3. CASE EnsureDataNodeStatefulSet
    BY <1>1, <1>3, EnsureStep DEF EnsureDataNodeStatefulSet
  <1>. QED
    BY <1>2, <1>3

\* A round of the rolling restart touches the status of the data nodes only.
LEMMA PodVersionStep ==
    ASSUME IndInv, EnsureDataNodePodVersion
    PROVE  IndInv' /\ Forward
  <1> DEFINE e == Erroneous("ndbmtd", sf["ndbmtd"])
             o == IF sf["ndbmtd"].outdated > 0 THEN sf["ndbmtd"].outdated - 1 ELSE 0
             r == [sf["ndbmtd"] EXCEPT !.up = FALSE, !.bad = e, !.outdated = o]
  <1>1. /\ pc = "podver" /\ pc \in Configured /\ pc # "status"
        /\ {"rmysqld", "status"} \subseteq Configured
        /\ \A v \in Workloads : /\ "rmysqld" \in Past(v) => "podver" \in Past(v)
                                /\ "status" \notin Past(v)
        /\ UNCHANGED <<nc, specs, cm, ndb, rolled, ncCache, cmCache, sfCache, errCache, faults>>
    BY DEF EnsureDataNodePodVersion, Configured, Steps, Past, Last, Workloads
  <1>2. /\ sf \in [Workloads -> Sfsets] /\ sf["ndbmtd"] \in Sfsets /\ "ndbmtd" \in Workloads
    BY DEF IndInv, TypeOK, Workloads
  <1>3. e \in BOOLEAN
    BY DEF Erroneous
  <1>4. o \in 0..Redundancy
    BY <1>2, ConstantsAssumption DEF Sfsets
  <1>5. \/ pc' = "rmysqld" /\ UNCHANGED <<sf, sc, dirty, events>>
        \/ FailSync /\ UNCHANGED <<sf, events>>
        \/ /\ sf' = [sf EXCEPT !["ndbmtd"] = r]
           /\ events' = events \cup {"ndbmtd"}
           /\ pc' = "status"
           /\ UNCHANGED <<sc, dirty>>
    BY <1>2 DEF EnsureDataNodePodVersion, Goto
  <1> HIDE DEF e, o
  <1>6. r \in Sfsets /\ r.gen = sf["ndbmtd"].gen
    BY <1>2, <1>3, <1>4 DEF Sfsets
  <1> HIDE DEF r
  <1>7. CASE pc' = "rmysqld" /\ UNCHANGED <<sf, sc, dirty, events>>
    <2>1. SyncFrame
      BY <1>1, <1>7 DEF SyncFrame, IndInv, TypeOK
    <2>. QED
      BY <1>1, <1>7, <2>1, SyncFacts, QuietStep
  <1>8. CASE FailSync /\ UNCHANGED <<sf, events>>
    <2>1. ndb' \in [groups : Nat, spread : Nat, roots : SUBSET Nat] /\ faults' \in [Faults -> Nat]
      BY <1>1 DEF IndInv, TypeOK
    <2>. QED
      BY <1>1, <1>8, <2>1, FailStep
  <1>9. CASE /\ sf' = [sf EXCEPT !["ndbmtd"] = r]
             /\ events' = events \cup {"ndbmtd"}
             /\ pc' = "status"
             /\ UNCHANGED <<sc, dirty>>
    <2>1. SyncFrame
      BY <1>1, <1>2, <1>9 DEF SyncFrame, IndInv, TypeOK
    <2>2. /\ sf' \in [Workloads -> Sfsets]
          /\ \A v \in Workloads : sf'[v].gen = sf[v].gen
      BY <1>2, <1>6, <1>9
    <2>3. sc.cs.gen \in Nat /\ \A v \in Workloads : sf[v].gen \in Nat
      BY <1>1, SyncFacts, ConstantsAssumption DEF Gens
    <2>4. \A v \in Workloads : /\ sf'[v].gen >= sf[v].gen /\ sf'[v].gen <= sc.cs.gen
                               /\ sc'.sf[v].gen <= sf'[v].gen
      BY <1>1, <1>9, <2>2, <2>3, SyncFacts
    <2>. QED
      BY <1>1, <1>9, <2>1, <2>2, <2>4, SyncFacts, SyncMoves
  <1>. QED
    BY <1>5, <1>7, <1>8, <1>9

-----------------------------------------------------------------------------
(* The steps that write the ConfigMap and the status *)

\* The numbers that the orderings of the invariant are about.
LEMMA Numbers ==
    ASSUME IndInv
    PROVE  /\ nc.gen \in Nat /\ ncCache.gen \in Nat /\ cm.gen \in Nat /\ cmCache.gen \in Nat
           /\ nc.status.proc \in Nat /\ ncCache.status.proc \in Nat
           /\ sc.nc.gen \in Nat /\ sc.cs.gen \in Nat /\ sc.nc.status.proc \in Nat
           /\ \A w \in Workloads : sf[w].gen \in Nat /\ sfCache[w].gen \in Nat /\ sc.sf[w].gen \in Nat
  <1>1. /\ nc.gen \in Nat /\ ncCache.gen \in Nat /\ cm.gen \in Nat /\ cmCache.gen \in Nat
        /\ nc.status.proc \in Nat /\ ncCache.status.proc \in Nat
    BY ConstantsAssumption DEF IndInv, TypeOK, NdbClusters, StatusType, ConfigMaps
  <1>2. sc.nc.gen \in Nat /\ sc.cs.gen \in Nat /\ sc.nc.status.proc \in Nat
    BY ConstantsAssumption DEF IndInv, TypeOK, NdbClusters, StatusType, ConfigMaps
  <1>3. \A w \in Workloads : sf[w].gen \in Nat /\ sfCache[w].gen \in Nat /\ sc.sf[w].gen \in Nat
    BY ConstantsAssumption DEF IndInv, TypeOK, Sfsets
  <1>. QED
    BY <1>1, <1>2, <1>3

\* EnsureConfigMap reads the config, or creates it from the NdbCluster.
LEMMA EnsureConfigMapStep ==
    ASSUME IndInv, EnsureConfigMap
    PROVE  IndInv' /\ Forward
  <1> DEFINE new == [gen |-> sc.nc.gen, init |-> FALSE]
  <1>1. /\ pc = "config" /\ pc # "idle" /\ pc # "status" /\ pc \notin Configured
        /\ "errorpatch" \in Configured /\ "mgmd" \in Configured
        /\ \A v \in Workloads : "errorpatch" \notin Past(v) /\ "mgmd" \notin Past(v)
        /\ UNCHANGED <<nc, specs, sf, ndb, rolled, caches, faults>>
    BY DEF EnsureConfigMap, Configured, Steps, Past, Last, Workloads
  <1>2. /\ sc.nc.gen \in Gens /\ cm.gen <= sc.nc.gen /\ sc.nc.gen <= ncCache.gen
        /\ sc.success = FALSE
        /\ sc \in SyncContexts /\ cmCache \in ConfigMaps
    BY <1>1 DEF IndInv, SyncFlow, Progress, TypeOK, SyncContexts
  <1>3. new \in ConfigMaps /\ new.gen = sc.nc.gen
    BY <1>2 DEF ConfigMaps, Gens
  <1>4. \/ /\ cmCache # NoConfigMap /\ UNCHANGED <<cm, dirty>>
           /\ sc' = [sc EXCEPT !.cs = cmCache]
           /\ pc' \in {"errorpatch", "mgmd"}
        \/ /\ cmCache = NoConfigMap /\ cm = NoConfigMap /\ cm' = new /\ UNCHANGED dirty
           /\ sc' = [sc EXCEPT !.cs = new]
           /\ pc' \in {"errorpatch", "mgmd"}
        \/ FailSync /\ UNCHANGED cm
    BY DEF EnsureConfigMap, Goto
  <1> HIDE DEF new
  <1>5. ASSUME NEW c \in ConfigMaps, sc' = [sc EXCEPT !.cs = c], cm' \in ConfigMaps,
               pc' \in {"errorpatch", "mgmd"}, UNCHANGED dirty
        PROVE  /\ TypeOK'
               /\ sc'.nc = sc.nc /\ sc'.cs = c /\ sc'.success = FALSE /\ sc'.sf = sc.sf
               /\ pc' \in Configured /\ pc' # "idle"
    <2>1. /\ sc' \in SyncContexts
          /\ sc'.nc = sc.nc /\ sc'.cs = c /\ sc'.success = FALSE /\ sc'.sf = sc.sf
      BY <1>2, <1>5 DEF SyncContexts
    <2>2. pc' \in Configured /\ pc' # "idle" /\ pc' \in Steps
      BY <1>1, <1>5 DEF Configured
    <2>3. TypeOK'
      BY <1>1, <1>5, <2>1, <2>2 DEF IndInv, TypeOK, SyncContexts, caches
    <2>. QED
      BY <2>1, <2>2, <2>3
  <1>6. CASE /\ cmCache # NoConfigMap /\ UNCHANGED <<cm, dirty>>
             /\ sc' = [sc EXCEPT !.cs = cmCache]
             /\ pc' \in {"errorpatch", "mgmd"}
    <2>1. cm' \in ConfigMaps
      BY <1>6 DEF IndInv, TypeOK
    <2>2. /\ TypeOK'
          /\ sc'.nc = sc.nc /\ sc'.cs = cmCache /\ sc'.success = FALSE /\ sc'.sf = sc.sf
          /\ pc' \in Configured /\ pc' # "idle"
      BY <1>2, <1>5, <1>6, <2>1
    <2>3. cmCache.gen \in Gens
      BY <1>2, <1>6 DEF IndInv, Flow, ConfigMaps, Gens
    <2>4. Flow'
      BY <1>1, <1>6 DEF IndInv, Flow, caches
    <2>5. SyncFlow'
      BY <1>1, <1>2, <1>6, <2>2, <2>3, Numbers DEF IndInv, Flow, SyncFlow, caches
    <2>6. Copies' /\ Progress'
      BY <1>1, <1>6, <2>2 DEF IndInv, Copies, Progress, caches
    <2>7. Forward
      BY <1>1, <1>6, Numbers DEF Forward
    <2>. QED
      BY <2>2, <2>4, <2>5, <2>6, <2>7 DEF IndInv
  <1>7. CASE /\ cmCache = NoConfigMap /\ cm = NoConfigMap /\ cm' = new /\ UNCHANGED dirty
             /\ sc' = [sc EXCEPT !.cs = new]
             /\ pc' \in {"errorpatch", "mgmd"}
    <2>1. cm' \in ConfigMaps /\ cm'.gen = sc.nc.gen /\ cm.gen = 0 /\ cmCache.gen = 0
      BY <1>3, <1>7 DEF NoConfigMap
    <2>2. /\ TypeOK'
          /\ sc'.nc = sc.nc /\ sc'.cs = new /\ sc'.success = FALSE /\ sc'.sf = sc.sf
          /\ pc' \in Configured /\ pc' # "idle"
      BY <1>3, <1>5, <1>7, <2>1
    <2>3. sc.nc.gen > 0 /\ \A w \in Workloads : sf[w].gen = 0
      BY <1>2, <2>1, Numbers DEF IndInv, Flow, Gens
    <2>4. Flow'
      BY <1>1, <1>2, <1>7, <2>1, <2>3, Numbers DEF IndInv, Flow, caches
    <2>5. SyncFlow'
      BY <1>1, <1>2, <1>3, <1>7, <2>1, <2>2, <2>3, Numbers DEF IndInv, SyncFlow, caches
    <2>6. Copies' /\ Progress'
      BY <1>1, <1>7, <2>2 DEF IndInv, Copies, Progress, caches
    <2>7. Forward
      BY <1>1, <2>1, <2>3, Numbers DEF Forward
    <2>. QED
      BY <2>2, <2>4, <2>5, <2>6, <2>7 DEF IndInv
  <1>8. CASE FailSync /\ UNCHANGED cm
    <2>1. ndb' \in [groups : Nat, spread : Nat, roots : SUBSET Nat] /\ faults' \in [Faults -> Nat]
      BY <1>1 DEF IndInv, TypeOK
    <2>. QED
      BY <1>1, <1>8, <2>1, FailStep DEF caches
  <1>. QED
    BY <1>4, <1>6, <1>7, <1>8

\* PatchConfigMap moves the ConfigMap to the generation the sync works with,
\* which is not older.
LEMMA PatchConfigMapStep ==
    ASSUME IndInv, pc \in Configured, pc # "status", PatchConfigMap
    PROVE  IndInv' /\ Forward
  <1> DEFINE new == GetUpdatedConfigMap(cmCache)
  <1>1. /\ cm \in ConfigMaps /\ cmCache \in ConfigMaps /\ sc \in SyncContexts
        /\ specs \in [Gens -> SpecContent] /\ sc.cs.gen \in Gens /\ sc.nc.gen \in Gens
        /\ cm.gen <= sc.nc.gen /\ sc.nc.gen <= ncCache.gen /\ sc.cs.gen <= cm.gen
        /\ sc.success = FALSE
        /\ pc # "idle"
    BY SyncFacts DEF IndInv, TypeOK, SyncFlow, Progress, SyncContexts, Configured, Steps
  <1>2. /\ new \in ConfigMaps
        /\ new.gen = cmCache.gen \/ new.gen = sc.nc.gen
    <2> DEFINE b == cmCache.init \/ specs[sc.cs.gen].tde # specs[sc.nc.gen].tde
    <2>1. b \in BOOLEAN
      OBVIOUS
    <2>2. \/ new = [cmCache EXCEPT !.init = FALSE]
          \/ new = [gen |-> sc.nc.gen, init |-> b]
      BY DEF GetUpdatedConfigMap
    <2> HIDE DEF b, new
    <2>3. sc.nc.gen \in 0..MaxGen
      BY <1>1 DEF Gens
    <2>4. CASE new = [cmCache EXCEPT !.init = FALSE]
      BY <1>1, <2>4 DEF ConfigMaps
    <2>5. CASE new = [gen |-> sc.nc.gen, init |-> b]
      BY <2>1, <2>3, <2>5 DEF ConfigMaps
    <2>. QED
      BY <2>2, <2>4, <2>5
  <1>3. /\ cm' = [gen  |-> Merge(cm.gen, cmCache.gen, new.gen),
                  init |-> Merge(cm.init, cmCache.init, new.init)]
        /\ events' = events \/ events' = events \cup {"cm"}
        /\ pc' = "status"
        /\ UNCHANGED <<nc, specs, sf, ndb, rolled, ncCache, cmCache, sfCache, errCache,
                       sc, dirty, faults>>
    BY DEF PatchConfigMap, Goto
  <1> HIDE DEF new
  <1>4. cm' \in ConfigMaps /\ (cm'.gen = cm.gen \/ cm'.gen = sc.nc.gen)
    BY <1>1, <1>2, <1>3 DEF Merge, ConfigMaps
  <1>5. cm'.gen \in Nat /\ cm'.gen >= cm.gen /\ cm'.gen <= sc.nc.gen /\ cm'.gen > 0
    BY <1>1, <1>4, Numbers DEF Gens
  <1>6. TypeOK'
    BY <1>3, <1>4 DEF IndInv, TypeOK, Steps
  <1>7. Flow'
    BY <1>1, <1>3, <1>5, Numbers DEF IndInv, Flow
  <1>8. SyncFlow'
    BY <1>1, <1>3, <1>5, Numbers DEF IndInv, SyncFlow
  <1>9. Copies'
    BY <1>3 DEF IndInv, Copies
  <1>10. Progress'
    BY <1>1, <1>3 DEF Progress, Past, Last, Workloads
  <1>11. Forward
    BY <1>3, <1>5, Numbers DEF Forward
  <1>. QED
    BY <1>6, <1>7, <1>8, <1>9, <1>10, <1>11 DEF IndInv

\* ensureAllResources goes on, or patches the ConfigMap early.
LEMMA PatchOnErrorStep ==
    ASSUME IndInv, PatchConfigMapOnError
    PROVE  IndInv' /\ Forward
  <1>1. /\ pc \in Configured /\ pc # "status" /\ "mgmd" \in Configured
        /\ \A v \in Workloads : "mgmd" \notin Past(v)
    BY DEF PatchConfigMapOnError, Configured, Steps, Past, Last, Workloads
  <1>2. \/ PatchConfigMap
        \/ pc' = "mgmd" /\ UNCHANGED <<cluster, caches, sc, dirty, faults>>
    BY DEF PatchConfigMapOnError, Goto
  <1>3. CASE pc' = "mgmd" /\ UNCHANGED <<cluster, caches, sc, dirty, faults>>
    <2>1. SyncFrame /\ UNCHANGED <<sf, rolled, sc>>
      BY <1>3 DEF SyncFrame, cluster, caches, IndInv, TypeOK
    <2>. QED
      BY <1>1, <1>3, <2>1, SyncFacts, QuietStep
  <1>. QED
    BY <1>1, <1>2, <1>3, PatchConfigMapStep

\* The end of sync: success means that every StatefulSet has the generation.
LEMMA FinishStep ==
    ASSUME IndInv, FinishSync
    PROVE  IndInv' /\ Forward
  <1>1. /\ pc \in Configured /\ pc # "status" /\ pc \in Last
        /\ pc # "idle" /\ "status" \in Configured
        /\ \A v \in Workloads : pc \in Past(v) /\ "status" \notin Past(v)
    BY DEF FinishSync, Configured, Steps, Past, Last, Workloads
  <1>2. \/ PatchConfigMap
        \/ /\ sc.cs.gen = sc.nc.gen
           /\ sc' = [sc EXCEPT !.success = TRUE] /\ pc' = "status"
           /\ UNCHANGED <<cluster, caches, dirty, faults>>
    BY DEF FinishSync, Goto
  <1>3. CASE /\ sc.cs.gen = sc.nc.gen
             /\ sc' = [sc EXCEPT !.success = TRUE] /\ pc' = "status"
             /\ UNCHANGED <<cluster, caches, dirty, faults>>
    <2>1. /\ sc' \in SyncContexts
          /\ sc'.nc = sc.nc /\ sc'.cs = sc.cs /\ sc'.sf = sc.sf
      BY <1>1, <1>3, SyncFacts DEF SyncContexts
    <2>2. \A v \in Workloads : sf[v].gen = sc.cs.gen
      BY <1>1, SyncFacts
    <2>3. TypeOK'
      BY <1>3, <2>1 DEF IndInv, TypeOK, SyncContexts, cluster, caches, Steps
    <2>4. Flow' /\ SyncFlow'
      BY <1>1, <1>3, <2>1 DEF IndInv, Flow, SyncFlow, cluster, caches
    <2>5. Copies' /\ Progress'
      BY <1>1, <1>3, <2>1, <2>2 DEF IndInv, Copies, Progress, cluster, caches
    <2>6. Forward
      BY <1>3, Numbers DEF Forward, cluster
    <2>. QED
      BY <2>3, <2>4, <2>5, <2>6 DEF IndInv
  <1>. QED
    BY <1>1, <1>2, <1>3, PatchConfigMapStep

\* The status has its type, and no generation that is not in every StatefulSet.
LEMMA StatusCalculated ==
    ASSUME IndInv, pc = "status"
    PROVE  /\ calculateNdbClusterStatus \in StatusType
           /\ \A w \in Workloads : calculateNdbClusterStatus.proc <= sf[w].gen
  <1> DEFINE p == IF sc.success THEN sc.nc.gen ELSE sc.nc.status.proc
             r == CASE sc.success              -> "SyncSuccess"
                    [] ~sc.success /\ errCache  -> "SyncError"
                    [] ~sc.success /\ ~errCache -> "InProgress"
             o == IF r = "SyncError" THEN 0 ELSE sc.nc.gen
             d == {w \in Workloads : Exists(sc.sf[w]) /\ sc.sf[w].up}
  <1>1. calculateNdbClusterStatus = [proc |-> p, reason |-> r, of |-> o, ready |-> d]
    BY DEF calculateNdbClusterStatus
  <1>2. sc.nc.gen \in 0..MaxGen /\ sc.nc.status.proc \in 0..MaxGen
    BY DEF IndInv, TypeOK, NdbClusters, StatusType
  <1>3. /\ p \in 0..MaxGen /\ d \in SUBSET Workloads
        /\ r \in {"None", "SyncSuccess", "InProgress", "SyncError"}
    BY <1>2 DEF IndInv, TypeOK
  <1>4. o \in 0..MaxGen
    BY <1>2, ConstantsAssumption
  <1>5. \A w \in Workloads : p <= sf[w].gen
    <2>1. CASE sc.success
      BY <1>2, <2>1, Numbers DEF IndInv, Progress
    <2>2. CASE ~sc.success
      BY <2>2 DEF IndInv, Copies
    <2>. QED
      BY <2>1, <2>2
  <1> HIDE DEF p, r, o, d
  <1>. QED
    BY <1>1, <1>3, <1>4, <1>5 DEF StatusType

\* The status update writes nothing else, and ends the sync.
LEMMA StatusStep ==
    ASSUME IndInv, UpdateNdbClusterStatus
    PROVE  IndInv' /\ Forward
  <1> DEFINE st == calculateNdbClusterStatus
  <1>1. /\ pc = "status" /\ pc' = "idle" /\ sc' = NoSync
        /\ UNCHANGED <<specs, cm, sf, ndb, rolled, caches, dirty, faults>>
        /\ nc' = nc \/ nc' = [nc EXCEPT !.status = st]
    BY DEF UpdateNdbClusterStatus
  <1>2. st \in StatusType /\ \A w \in Workloads : st.proc <= sf[w].gen
    BY <1>1, StatusCalculated
  <1> HIDE DEF st
  <1>3. /\ nc' \in NdbClusters /\ nc'.gen = nc.gen
        /\ \A w \in Workloads : nc'.status.proc <= sf[w].gen
    <2>1. nc \in NdbClusters /\ \A w \in Workloads : nc.status.proc <= sf[w].gen
      BY DEF IndInv, TypeOK, Copies
    <2>. QED
      BY <1>1, <1>2, <2>1 DEF NdbClusters
  <1>4. /\ sc' \in SyncContexts /\ sc'.nc.status.proc = 0 /\ sc'.success = FALSE
        /\ \A w \in Workloads : sc'.sf[w].gen = 0
    BY <1>1, ConstantsAssumption
       DEF NoSync, NoConfigMap, NoStatus, NoSfset, SyncContexts, NdbClusters, ConfigMaps,
           StatusType, Sfsets
  <1>5. TypeOK'
    BY <1>1, <1>3, <1>4 DEF IndInv, TypeOK, SyncContexts, caches
  <1>6. Flow'
    BY <1>1, <1>3 DEF IndInv, Flow, caches
  <1>7. SyncFlow'
    BY <1>1 DEF SyncFlow, Configured, Steps
  <1>8. Copies'
    BY <1>1, <1>3, <1>4, Numbers DEF IndInv, Copies, caches
  <1>9. Progress'
    BY <1>1, <1>4 DEF Progress, Past, Last, Workloads
  <1>10. Forward
    BY <1>1, Numbers DEF Forward
  <1>. QED
    BY <1>5, <1>6, <1>7, <1>8, <1>9, <1>10 DEF IndInv

\* A sync that fails, or whose status update fails, leaves the objects alone.
LEMMA FailureSteps ==
    ASSUME IndInv, StatusUpdateFails \/ StepFails
    PROVE  IndInv' /\ Forward
  <1>1. /\ pc' = "idle" /\ sc' = NoSync /\ UNCHANGED <<cluster, caches>>
        /\ dirty' \in BOOLEAN
    BY DEF StatusUpdateFails, StepFails, FailSync, IndInv, TypeOK
  <1>2. faults' \in [Faults -> Nat]
    BY FaultType DEF StatusUpdateFails, StepFails, IndInv, Faults
  <1>3. ndb' \in [groups : Nat, spread : Nat, roots : SUBSET Nat]
    BY <1>1 DEF cluster, IndInv, TypeOK
  <1>. QED
    BY <1>1, <1>2, <1>3, SyncEnds DEF cluster, caches

\* A sync begins with the cached NdbCluster.
LEMMA BeginStep ==
    ASSUME IndInv, SyncBegin
    PROVE  IndInv' /\ Forward
  <1>1. /\ pc = "idle" /\ pc' = "config" /\ dirty' = FALSE
        /\ sc' = [NoSync EXCEPT !.nc = ncCache]
        /\ UNCHANGED <<cluster, caches, faults>>
    BY DEF SyncBegin, Goto
  <1>2. NoSync \in SyncContexts /\ NoSync.success = FALSE /\ \A w \in Workloads : NoSync.sf[w].gen = 0
    BY ConstantsAssumption
       DEF NoSync, NoConfigMap, NoStatus, NoSfset, SyncContexts, NdbClusters, ConfigMaps,
           StatusType, Sfsets
  <1>3. ncCache \in NdbClusters
    BY DEF IndInv, TypeOK
  <1>4. /\ sc' \in SyncContexts /\ sc'.nc = ncCache /\ sc'.success = FALSE
        /\ \A w \in Workloads : sc'.sf[w].gen = 0
    BY <1>1, <1>2, <1>3 DEF SyncContexts
  <1>5. pc' # "idle" /\ pc' \notin Configured /\ \A w \in Workloads : pc' \notin Past(w)
    BY <1>1 DEF Configured, Past, Last, Workloads
  <1>6. TypeOK'
    BY <1>1, <1>4 DEF IndInv, TypeOK, SyncContexts, cluster, caches, Steps
  <1>7. Flow'
    BY <1>1 DEF IndInv, Flow, cluster, caches
  <1>8. SyncFlow'
    BY <1>1, <1>4, <1>5, Numbers DEF IndInv, Flow, SyncFlow, cluster, caches
  <1>9. Copies'
    BY <1>1, <1>4, Numbers DEF IndInv, Copies, cluster, caches
  <1>10. Progress'
    BY <1>4, <1>5 DEF Progress
  <1>11. Forward
    BY <1>1, Numbers DEF Forward, cluster
  <1>. QED
    BY <1>6, <1>7, <1>8, <1>9, <1>10, <1>11 DEF IndInv

-----------------------------------------------------------------------------
(* The informers, Kubernetes and the user *)

\* A cache moves to the present.
LEMMA InformerSteps ==
    ASSUME IndInv, Informers \/ RelistStatefulSets
    PROVE  IndInv' /\ Forward
  <1>1. UNCHANGED <<cluster, pc, sc>>
    BY DEF Informers, RelistStatefulSets, DeliverNdbCluster, Resync, DeliverConfigMap,
           DeliverStatefulSets, DeliverPods, caches
  <1>2. /\ ncCache' \in {ncCache, nc} /\ cmCache' \in {cmCache, cm} /\ sfCache' \in {sfCache, sf}
        /\ events' \subseteq events
    BY DEF Informers, RelistStatefulSets, DeliverNdbCluster, Resync, DeliverConfigMap,
           DeliverStatefulSets, DeliverPods, caches
  <1>3. errCache' \in BOOLEAN /\ dirty' \in BOOLEAN
    BY DEF Informers, RelistStatefulSets, DeliverNdbCluster, Resync, DeliverConfigMap,
           DeliverStatefulSets, DeliverPods, caches, PodErrors, IndInv, TypeOK
  <1>4. faults' \in [Faults -> Nat]
    BY FaultType DEF Informers, RelistStatefulSets, DeliverNdbCluster, Resync, DeliverConfigMap,
           DeliverStatefulSets, DeliverPods, caches, Faults, IndInv, TypeOK
  <1>5. TypeOK'
    BY <1>1, <1>2, <1>3, <1>4 DEF IndInv, TypeOK, cluster
  <1>6. Flow'
    BY <1>1, <1>2, Numbers DEF IndInv, Flow, cluster
  <1>7. SyncFlow'
    BY <1>1, <1>2, Numbers DEF IndInv, Flow, SyncFlow, cluster
  <1>8. Copies'
    BY <1>1, <1>2, Numbers DEF IndInv, Copies, cluster
  <1>9. Progress'
    BY <1>1 DEF IndInv, Progress, cluster
  <1>10. Forward
    BY <1>1, Numbers DEF Forward, cluster
  <1>. QED
    BY <1>5, <1>6, <1>7, <1>8, <1>9, <1>10 DEF IndInv

\* A restart loses the sync and brings every cache to the present.
LEMMA RestartStep ==
    ASSUME IndInv, OperatorRestart
    PROVE  IndInv' /\ Forward
  <1>1. /\ UNCHANGED cluster /\ pc' = "idle" /\ sc' = NoSync
        /\ ncCache' = nc /\ cmCache' = cm /\ sfCache' = sf /\ events' = {} /\ dirty' = TRUE
    BY DEF OperatorRestart
  <1>2. errCache' \in BOOLEAN
    BY DEF OperatorRestart, PodErrors
  <1>3. faults' \in [Faults -> Nat]
    BY FaultType DEF OperatorRestart, Faults, IndInv
  <1>4. /\ sc' \in SyncContexts /\ sc'.nc.status.proc = 0 /\ sc'.success = FALSE
        /\ \A w \in Workloads : sc'.sf[w].gen = 0
    BY <1>1, ConstantsAssumption
       DEF NoSync, NoConfigMap, NoStatus, NoSfset, SyncContexts, NdbClusters, ConfigMaps,
           StatusType, Sfsets
  <1>5. TypeOK'
    BY <1>1, <1>2, <1>3, <1>4 DEF IndInv, TypeOK, SyncContexts, cluster
  <1>6. Flow'
    BY <1>1, Numbers DEF IndInv, Flow, cluster
  <1>7. SyncFlow'
    BY <1>1 DEF SyncFlow, Configured, Steps
  <1>8. Copies'
    BY <1>1, <1>4, Numbers DEF IndInv, Copies, cluster
  <1>9. Progress'
    BY <1>1, <1>4 DEF Progress, Past, Last, Workloads
  <1>10. Forward
    BY <1>1, Numbers DEF Forward, cluster
  <1>. QED
    BY <1>5, <1>6, <1>7, <1>8, <1>9, <1>10 DEF IndInv

\* An accepted update is a spec.
LEMMA ChangedType ==
    ASSUME NEW s \in SpecContent, NEW c, NEW b \in SUBSET Workloads
    PROVE  Changed(s, c, b) \in SpecContent
  <1> DEFINE new == IF "addnode" \in c THEN Workloads ELSE c \cap Workloads
             v == [w \in Workloads |-> IF w \in new THEN s.ver[w] + 1 ELSE s.ver[w]]
             bad == (s.bad \ new) \cup (b \cap new)
             nodes == IF "addnode" \in c THEN s.nodes + 2 ELSE s.nodes
             servers == CASE "scaleup" \in c   -> s.servers + 1
                          [] "scaledown" \in c /\ "scaleup" \notin c /\ s.servers > 1 -> s.servers - 1
                          [] OTHER -> s.servers
             tde == IF "tde" \in c THEN s.tde + 1 ELSE s.tde
             host == CASE "roothost" \in c -> s.host + 1
                       [] "oldhost" \in c /\ "roothost" \notin c /\ s.host > 1 -> s.host - 1
                       [] OTHER -> s.host
  <1>1. Changed(s, c, b) = [ver |-> v, bad |-> bad, nodes |-> nodes, servers |-> servers,
                            tde |-> tde, host |-> host]
    BY DEF Changed
  <1>2. s.ver \in [Workloads -> Nat] /\ s.bad \in SUBSET Workloads
        /\ s.nodes \in Nat /\ s.servers \in Nat /\ s.tde \in Nat /\ s.host \in Nat
    BY DEF SpecContent
  <1>3. v \in [Workloads -> Nat]
    BY <1>2
  <1>4. bad \in SUBSET Workloads
    BY <1>2
  <1>5. nodes \in Nat /\ tde \in Nat
    BY <1>2
  <1>6. servers \in Nat /\ host \in Nat
    <2>1. servers \in Nat
      BY <1>2
    <2>2. host \in Nat
      BY <1>2
    <2>. QED
      BY <2>1, <2>2
  <1> HIDE DEF v, bad, nodes, servers, tde, host
  <1>. QED
    BY <1>1, <1>3, <1>4, <1>5, <1>6 DEF SpecContent

\* The user makes a new generation.
LEMMA UpdateStep ==
    ASSUME IndInv, UpdateSpec
    PROVE  IndInv' /\ Forward
  <1>1. /\ nc.gen < MaxGen /\ nc' = [nc EXCEPT !.gen = nc.gen + 1]
        /\ UNCHANGED <<cm, sf, ndb, rolled, caches, dirty, pc, sc, faults>>
    BY DEF UpdateSpec
  <1>2. PICK c \in Changes, b \in SUBSET MayFail :
            specs' = [specs EXCEPT ![nc.gen + 1] = Changed(specs[nc.gen], c, b)]
    BY DEF UpdateSpec
  <1>3. /\ nc \in NdbClusters /\ specs \in [Gens -> SpecContent] /\ nc.gen \in Gens
        /\ b \in SUBSET Workloads
    BY ConstantsAssumption DEF IndInv, TypeOK, Flow
  <1>4. specs' \in [Gens -> SpecContent]
    BY <1>2, <1>3, ChangedType
  <1> DEFINE g == nc.gen + 1
  <1>5. g \in Gens /\ g \in 0..MaxGen /\ nc.gen <= g
    BY <1>1, <1>3, ConstantsAssumption DEF Gens
  <1>6. nc' = [nc EXCEPT !.gen = g]
    BY <1>1
  <1> HIDE DEF g
  <1>7. nc' \in NdbClusters /\ nc'.gen = g /\ nc'.status = nc.status
    BY <1>3, <1>5, <1>6 DEF NdbClusters
  <1>8. TypeOK'
    BY <1>1, <1>4, <1>7 DEF IndInv, TypeOK, caches
  <1>9. Flow'
    BY <1>1, <1>5, <1>7, Numbers, ConstantsAssumption DEF IndInv, Flow, caches, Gens
  <1>10. SyncFlow' /\ Progress'
    BY <1>1 DEF IndInv, SyncFlow, Progress, caches
  <1>11. Copies'
    BY <1>1, <1>7 DEF IndInv, Copies, caches
  <1>12. Forward
    BY <1>1, Numbers DEF Forward
  <1>. QED
    BY <1>8, <1>9, <1>10, <1>11, <1>12 DEF IndInv

\* One StatefulSet gets another status.
LEMMA StatusChange ==
    ASSUME IndInv, NEW w \in Workloads, NEW s \in Sfsets, s.gen = sf[w].gen,
           sf' = [sf EXCEPT ![w] = s],
           RecordRollout \/ rolled' = rolled,
           UNCHANGED <<nc, specs, cm, ncCache, cmCache, sfCache, errCache, dirty, pc, sc>>,
           events' = events \cup {w},
           ndb' \in [groups : Nat, spread : Nat, roots : SUBSET Nat],
           faults' \in [Faults -> Nat]
    PROVE  IndInv' /\ Forward
  <1>1. sf \in [Workloads -> Sfsets] /\ rolled \in [Workloads -> 0..MaxGen] /\ TypeOK
    BY DEF IndInv, TypeOK
  <1>2. sf' \in [Workloads -> Sfsets] /\ \A v \in Workloads : sf'[v].gen = sf[v].gen
    BY <1>1
  <1>3. rolled' \in [Workloads -> 0..MaxGen]
    BY <1>1, <1>2, RolloutType
  <1>4. events' \in SUBSET (Workloads \cup {"cm"})
    BY DEF IndInv, TypeOK
  <1>. QED
    BY <1>2, <1>3, <1>4, StatusMoves

\* The StatefulSet controller observes a spec.
LEMMA ObserveStep ==
    ASSUME IndInv, NEW w \in Workloads, ObserveStatefulSet(w)
    PROVE  IndInv' /\ Forward
  <1> DEFINE f == IF w # "ndbmtd" THEN Erroneous(w, sf[w])
                  ELSE (sf[w].bad /\ ~sf[w].up) \/ (Erroneous(w, sf[w]) /\ sf[w].stat < sf[w].reps)
             u == sf[w].up /\ sf[w].stat = sf[w].reps /\ (w = "ndbmtd" \/ sf[w].outdated = 0)
             s == [sf[w] EXCEPT !.seen = TRUE, !.bad = f, !.up = u]
  <1>1. /\ sf \in [Workloads -> Sfsets] /\ sf[w] \in Sfsets
        /\ ndb \in [groups : Nat, spread : Nat, roots : SUBSET Nat] /\ faults \in [Faults -> Nat]
    BY DEF IndInv, TypeOK
  <1>2. f \in BOOLEAN /\ u \in BOOLEAN
    <2>1. Erroneous(w, sf[w]) \in BOOLEAN
      BY DEF Erroneous
    <2>2. f \in BOOLEAN
      BY <2>1, Zenon
    <2>3. u \in BOOLEAN
      BY Zenon
    <2>. QED
      BY <2>2, <2>3
  <1>3. sf' = [sf EXCEPT ![w].seen = TRUE, ![w].bad = f, ![w].up = u]
    BY DEF ObserveStatefulSet
  <1>4. /\ events' = events \cup {w} /\ RecordRollout
        /\ UNCHANGED <<nc, specs, cm, ndb, ncCache, cmCache, sfCache, errCache, dirty, pc, sc, faults>>
    BY DEF ObserveStatefulSet
  <1> HIDE DEF f, u
  <1>5. sf' = [sf EXCEPT ![w] = s]
    BY <1>1, <1>3
  <1>6. s \in Sfsets /\ s.gen = sf[w].gen
    BY <1>1, <1>2 DEF Sfsets
  <1> HIDE DEF s
  <1>. QED
    BY <1>1, <1>4, <1>5, <1>6, StatusChange

\* The pods become ready; the first start makes the node groups.
LEMMA ReadyStep ==
    ASSUME IndInv, NEW w \in Workloads, PodsBecomeReady(w)
    PROVE  IndInv' /\ Forward
  <1> DEFINE o == IF w = "ndbmtd" THEN sf[w].outdated ELSE 0
             r == sf[w].reps
             s == [sf[w] EXCEPT !.up = TRUE, !.stat = r, !.outdated = o]
  <1>1. /\ sf \in [Workloads -> Sfsets] /\ sf[w] \in Sfsets
        /\ ndb \in [groups : Nat, spread : Nat, roots : SUBSET Nat] /\ faults \in [Faults -> Nat]
    BY DEF IndInv, TypeOK
  <1>2. o \in 0..Redundancy /\ r \in Nat
    BY <1>1, ConstantsAssumption DEF Sfsets
  <1>3. /\ sf' = [sf EXCEPT ![w].up = TRUE, ![w].stat = r, ![w].outdated = o]
        /\ ndb' = ndb \/ ndb' = [ndb EXCEPT !.groups = r, !.spread = r]
    BY <1>1 DEF PodsBecomeReady
  <1>4. /\ events' = events \cup {w} /\ RecordRollout
        /\ UNCHANGED <<nc, specs, cm, ncCache, cmCache, sfCache, errCache, dirty, pc, sc, faults>>
    BY DEF PodsBecomeReady
  <1> HIDE DEF o, r
  <1>5. sf' = [sf EXCEPT ![w] = s]
    BY <1>1, <1>3
  <1>6. s \in Sfsets /\ s.gen = sf[w].gen
    BY <1>1, <1>2 DEF Sfsets
  <1>7. ndb' \in [groups : Nat, spread : Nat, roots : SUBSET Nat]
    BY <1>1, <1>2, <1>3
  <1> HIDE DEF s
  <1>. QED
    BY <1>1, <1>4, <1>5, <1>6, <1>7, StatusChange

\* A pod becomes unready.
LEMMA DisruptedStep ==
    ASSUME IndInv, NEW w \in Workloads, PodDisrupted(w)
    PROVE  IndInv' /\ Forward
  <1> DEFINE s == [sf[w] EXCEPT !.up = FALSE]
  <1>1. /\ sf \in [Workloads -> Sfsets] /\ sf[w] \in Sfsets
        /\ ndb \in [groups : Nat, spread : Nat, roots : SUBSET Nat]
    BY DEF IndInv, TypeOK
  <1>2. /\ sf' = [sf EXCEPT ![w] = s] /\ rolled' = rolled /\ ndb' = ndb
        /\ events' = events \cup {w}
        /\ UNCHANGED <<nc, specs, cm, ncCache, cmCache, sfCache, errCache, dirty, pc, sc>>
    BY <1>1 DEF PodDisrupted
  <1>3. faults' \in [Faults -> Nat]
    BY FaultType DEF PodDisrupted, IndInv, Faults
  <1>4. s \in Sfsets /\ s.gen = sf[w].gen
    BY <1>1 DEF Sfsets
  <1> HIDE DEF s
  <1>. QED
    BY <1>1, <1>2, <1>3, <1>4, StatusChange

-----------------------------------------------------------------------------
(* The invariant is inductive *)

\* A resource that was just created satisfies the invariant.
LEMMA InitInv == Init => IndInv
  <1> SUFFICES ASSUME Init
               PROVE  IndInv
    OBVIOUS
  <1>1. /\ NoStatus \in StatusType /\ NoStatus.proc = 0
        /\ NoConfigMap \in ConfigMaps /\ NoConfigMap.gen = 0
        /\ NoSfset \in Sfsets /\ NoSfset.gen = 0
    BY ConstantsAssumption DEF NoStatus, StatusType, NoConfigMap, ConfigMaps, NoSfset, Sfsets
  <1>2. 0 \in 0..MaxGen /\ 1 \in 0..MaxGen /\ 1 \in Gens
    BY ConstantsAssumption DEF Gens
  <1>3. /\ nc \in NdbClusters /\ nc.gen = 1 /\ nc.status = NoStatus
        /\ ncCache \in NdbClusters /\ ncCache.gen = 1 /\ ncCache.status = NoStatus
        /\ cm = NoConfigMap /\ cmCache = NoConfigMap
    BY <1>1, <1>2 DEF Init, NdbClusters
  <1>4. /\ sf \in [Workloads -> Sfsets] /\ sfCache \in [Workloads -> Sfsets]
        /\ \A w \in Workloads : sf[w].gen = 0 /\ sfCache[w].gen = 0
    BY <1>1 DEF Init
  <1>5. /\ sc \in SyncContexts /\ sc.nc.status.proc = 0 /\ sc.success = FALSE
        /\ \A w \in Workloads : sc.sf[w].gen = 0
    BY ConstantsAssumption
       DEF Init, NoSync, NoConfigMap, NoStatus, NoSfset, SyncContexts, NdbClusters, ConfigMaps,
           StatusType, Sfsets
  <1>6. specs \in [Gens -> SpecContent]
    <2>1. PICK b \in SUBSET MayFail : specs = [g \in Gens |-> [FirstSpec EXCEPT !.bad = b]]
      BY DEF Init
    <2>2. FirstSpec \in SpecContent /\ b \in SUBSET Workloads
      BY ConstantsAssumption DEF FirstSpec, SpecContent
    <2>3. [FirstSpec EXCEPT !.bad = b] \in SpecContent
      BY <2>2 DEF SpecContent
    <2>. QED
      BY <2>1, <2>3
  <1>7. TypeOK
    BY <1>1, <1>2, <1>3, <1>4, <1>5, <1>6 DEF Init, TypeOK, SyncContexts
  <1>8. pc = "idle"
    BY DEF Init
  <1>9. Flow
    BY <1>1, <1>2, <1>3, <1>4 DEF Flow
  <1>10. SyncFlow /\ Progress
    BY <1>5, <1>8 DEF SyncFlow, Progress, Configured, Steps, Past, Last, Workloads
  <1>11. Copies
    BY <1>1, <1>3, <1>4, <1>5 DEF Copies
  <1>. QED
    BY <1>7, <1>9, <1>10, <1>11 DEF IndInv

\* Every step of the system preserves the invariant and moves forward.
LEMMA NextInv == IndInv /\ [Next]_vars => IndInv' /\ Forward
  <1> SUFFICES ASSUME IndInv, [Next]_vars
               PROVE  IndInv' /\ Forward
    OBVIOUS
  <1>1. CASE UNCHANGED vars
    <2>1. IndInv'
      BY <1>1 DEF vars, cluster, caches, IndInv, TypeOK, Flow, SyncFlow, Copies, Progress
    <2>2. Forward
      BY <1>1, Numbers DEF vars, cluster, Forward
    <2>. QED
      BY <2>1, <2>2
  <1>2. CASE SyncStep
    BY <1>2, EnsureConfigMapStep, PatchOnErrorStep, EnsureSteps, DeletePodStep, ValidateStep,
       ScaleDownStep, ReconcileManagementStep, ReconcileDataNodeStep, PodVersionStep,
       ReconcileMySQLStep, StartNewDataNodesStep, CreateNodeGroupsStep, ReorgStep,
       RemoveAddNodeStep, RootUserStep, PatchRootStep, FinishStep, StatusStep
       DEF SyncStep
  <1>3. CASE SyncBegin
    BY <1>3, BeginStep
  <1>4. CASE Informers \/ RelistStatefulSets
    BY <1>4, InformerSteps
  <1>5. CASE Kubernetes
    BY <1>5, ObserveStep, ReadyStep DEF Kubernetes
  <1>6. CASE UpdateSpec
    BY <1>6, UpdateStep
  <1>7. CASE StepFails \/ StatusUpdateFails
    BY <1>7, FailureSteps
  <1>8. CASE CreateNodeGroupFails
    BY <1>8, CreateNodeGroupFailsStep
  <1>9. CASE OperatorRestart
    BY <1>9, RestartStep
  <1>10. CASE \E w \in Workloads : PodDisrupted(w)
    BY <1>10, DisruptedStep
  <1>. QED
    BY <1>1, <1>2, <1>3, <1>4, <1>5, <1>6, <1>7, <1>8, <1>9, <1>10 DEF Next

\* The inductive invariant holds in every reachable state, whatever the
\* number of updates, faults and rounds of a rolling restart.
THEOREM Invariance == Spec => []IndInv
  BY InitInv, NextInv, PTL DEF Spec

\* Every variable keeps its type: no step of the controller, its informers,
\* Kubernetes or the user writes a generation the NdbCluster never had.
THEOREM TypeCorrect == Spec => []TypeOK
  <1>1. IndInv => TypeOK
    BY DEF IndInv
  <1>. QED
    BY <1>1, Invariance, PTL

\* updateNdbClusterStatus never claims a generation that the ConfigMap or a
\* StatefulSet in the API server does not carry, however stale the caches
\* and the copies were that the sync read.
THEOREM AppliedBeforeProcessed == Spec => []ProcessedIsApplied
  <1>1. IndInv => ProcessedIsApplied
    <2> SUFFICES ASSUME IndInv
                 PROVE  ProcessedIsApplied
      OBVIOUS
    <2>1. \A w \in Workloads : nc.status.proc <= sf[w].gen
      BY DEF IndInv, Copies
    <2>2. "mgmd" \in Workloads /\ sf["mgmd"].gen <= cm.gen
      BY DEF IndInv, Flow, Workloads
    <2>3. nc.status.proc <= cm.gen
      BY <2>1, <2>2, Numbers
    <2>. QED
      BY <2>1, <2>3 DEF ProcessedIsApplied
  <1>. QED
    BY <1>1, Invariance, PTL

\* No patch, computed from whatever cached object by PatchConfigMap or
\* patchStatefulSet, takes the ConfigMap or a StatefulSet back to an older
\* generation: crashes, failed calls and stale caches included.
THEOREM GenerationsOnlyAdvance == Spec => NeverBackwards
  <1>1. IndInv /\ [Next]_vars =>
            [cm'.gen >= cm.gen /\ \A w \in Workloads : sf'[w].gen >= sf[w].gen]_vars
    BY NextInv DEF Forward
  <1>. QED
    BY <1>1, Invariance, PTL DEF Spec, NeverBackwards
=============================================================================
