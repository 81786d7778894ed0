------------------------ MODULE NdbReconcilerSafety ------------------------
(***************************************************************************)
(* More proofs about NdbReconciler: what a processed generation promises   *)
(* beyond the generations themselves.                                      *)
(***************************************************************************)
EXTENDS NdbReconcilerProofs

-----------------------------------------------------------------------------
(* What a step writes *)

\* The fields of a StatefulSet that only a sync writes.
Written(s) == <<s.spec, s.gen, s.from, s.init, s.add, s.root, s.host, s.reps>>

\* A StatefulSet and the copies of it.
Views(w) == {sf[w], sfCache[w], sc.sf[w]}

\* The steps in which a sync brings a StatefulSet to its config.
Retemplating(w) == CASE w = "mgmd"   -> {"mgmd", "rmgmd"}
                     [] w = "ndbmtd" -> {"ndbmtd", "rdata"}
                     [] w = "mysqld" -> {"rmysqld"}

\* The object that the step at hand patches a copy of a StatefulSet to.
Wanted(w, old, new) ==
    \/ /\ pc \in Retemplating(w)
       /\ new = UpdatedStatefulSet(w, old, sc.cs, sc.nc)
    \/ /\ pc = "scaledown" /\ w = "mysqld"
       /\ new = [old EXCEPT !.reps = specs[sc.cs.gen].servers]
    \/ /\ pc = "addnode" /\ w = "ndbmtd"
       /\ new = [old EXCEPT !.reps = specs[sc.cs.gen].nodes]
    \/ /\ pc = "added" /\ w = "ndbmtd"
       /\ new = [old EXCEPT !.add = FALSE]
    \/ /\ pc = "rootpatch" /\ w = "mysqld"
       /\ new = [old EXCEPT !.root = sc.cs.gen, !.host = specs[sc.nc.gen].host]

\* The StatefulSet controller and the pods write the rest: a spec is
\* observed, the pods become ready, or one of them goes down.
Observed(w) ==
    LET s == sf[w]  t == sf'[w]
    IN /\ Written(t) = Written(s) /\ RecordRollout
       /\ t.stat = s.stat /\ t.outdated = s.outdated /\ (t.up => s.up /\ s.stat = s.reps)
       /\ t.bad => s.bad \/ (Erroneous(w, s) /\ Exists(s))
Readied(w) ==
    LET s == sf[w]  t == sf'[w]
    IN /\ Written(t) = Written(s) /\ RecordRollout
       /\ t.seen /\ t.up /\ t.stat = s.reps /\ t.outdated = (IF w = "ndbmtd" THEN s.outdated ELSE 0)
       /\ t.bad = s.bad
Disturbed(w) ==
    LET s == sf[w]  t == sf'[w]
    IN /\ Written(t) = Written(s) /\ rolled' = rolled
       /\ ~t.up /\ t.stat = s.stat
       /\ t.bad => s.bad \/ (Erroneous(w, s) /\ s.gen \in Gens)

\* The ways a step may change a StatefulSet.
Kept(w)    == sf'[w] = sf[w] \/ Observed(w) \/ Readied(w) \/ Disturbed(w)
Created(w) == /\ pc \in Configured /\ pc \in {"mgmd", "ndbmtd", "rmysqld"}
              /\ ~Exists(sf[w])
              /\ sf'[w] = [NewStatefulSet(w, sc.cs, sc.nc) EXCEPT !.spec = 1]
Repatched(w) ==
    /\ pc \in Configured
    /\ Exists(sf[w]) /\ RecordRollout
    /\ \E old \in {sfCache[w], sc.sf[w]}, new \in Sfsets :
          /\ Wanted(w, old, new)
          /\ pc # w => old = sc.sf[w]
          /\ sf'[w] = Patched(w, old, new)

\* The fields a patch leaves behind, and when it makes a new
\* metadata.generation (patchStatefulSet).
LEMMA PatchedFields ==
    ASSUME NEW w \in Workloads, sf \in [Workloads -> Sfsets],
           NEW old \in Sfsets, NEW new \in Sfsets, NEW p, p = Patched(w, old, new)
    PROVE  /\ p \in Sfsets
           /\ p.gen  = Merge(sf[w].gen, old.gen, new.gen)
           /\ p.from = Merge(sf[w].from, old.from, new.from)
           /\ p.init = Merge(sf[w].init, old.init, new.init)
           /\ p.add  = Merge(sf[w].add, old.add, new.add)
           /\ p.root = Merge(sf[w].root, old.root, new.root)
           /\ p.host = Merge(sf[w].host, old.host, new.host)
           /\ p.reps = Merge(sf[w].reps, old.reps, new.reps)
           /\ p.up = sf[w].up /\ p.stat = sf[w].stat /\ p.bad = sf[w].bad
           /\ \/ /\ p.spec = sf[w].spec /\ p.seen = sf[w].seen
                 /\ p.outdated = sf[w].outdated
                 /\ p.init = sf[w].init /\ p.reps = sf[w].reps
                 /\ Template(w, p) = Template(w, sf[w])
              \/ /\ p.spec = sf[w].spec + 1 /\ ~p.seen
                 /\ \/ p.outdated = Redundancy
                    \/ /\ p.init = sf[w].init /\ p.reps # sf[w].reps
                       /\ p.outdated = sf[w].outdated
  <1> DEFINE m == [sf[w] EXCEPT !.gen  = Merge(@, old.gen, new.gen),
                                !.from = Merge(@, old.from, new.from),
                                !.init = Merge(@, old.init, new.init),
                                !.add  = Merge(@, old.add, new.add),
                                !.root = Merge(@, old.root, new.root),
                                !.host = Merge(@, old.host, new.host),
                                !.reps = Merge(@, old.reps, new.reps)]
             retemplated == Template(w, m) # Template(w, sf[w])
  <1>1. /\ m \in Sfsets
        /\ m.gen = Merge(sf[w].gen, old.gen, new.gen)
    BY DEF Sfsets, Merge
  <1>2. /\ m.gen  = Merge(sf[w].gen, old.gen, new.gen)
        /\ m.from = Merge(sf[w].from, old.from, new.from)
        /\ m.init = Merge(sf[w].init, old.init, new.init)
        /\ m.add  = Merge(sf[w].add, old.add, new.add)
        /\ m.root = Merge(sf[w].root, old.root, new.root)
        /\ m.host = Merge(sf[w].host, old.host, new.host)
        /\ m.reps = Merge(sf[w].reps, old.reps, new.reps)
        /\ m.spec = sf[w].spec /\ m.seen = sf[w].seen /\ m.up = sf[w].up
        /\ m.stat = sf[w].stat /\ m.outdated = sf[w].outdated /\ m.bad = sf[w].bad
    BY DEF Sfsets
  <1> DEFINE n == m.spec + 1
             o == IF retemplated THEN Redundancy ELSE m.outdated
             b == [m EXCEPT !.spec = n, !.seen = FALSE, !.outdated = o]
  <1>3. p = IF retemplated \/ m.reps # sf[w].reps THEN b ELSE m
    BY <1>1 DEF Patched, Sfsets
  <1>4. m.init # sf[w].init => retemplated
    BY DEF Template
  <1>5. n \in Nat /\ o \in 0..Redundancy
    BY <1>1, ConstantsAssumption DEF Sfsets
  <1>6. ~retemplated => Template(w, m) = Template(w, sf[w])
    OBVIOUS
  <1>7. n = m.spec + 1 /\ (IF retemplated THEN o = Redundancy ELSE o = m.outdated)
    OBVIOUS
  <1> HIDE DEF m, n, o, retemplated
  <1>8. /\ b \in Sfsets
        /\ b.gen = m.gen /\ b.from = m.from /\ b.init = m.init /\ b.add = m.add
        /\ b.root = m.root /\ b.host = m.host /\ b.reps = m.reps
        /\ b.spec = n /\ ~b.seen /\ b.outdated = o
        /\ b.up = m.up /\ b.stat = m.stat /\ b.bad = m.bad
    BY <1>1, <1>5 DEF Sfsets
  <1> HIDE DEF b
  <1>9. CASE retemplated \/ m.reps # sf[w].reps
    <2>1. p = b
      BY <1>3, <1>9
    <2>2. \/ p.outdated = Redundancy
          \/ p.init = sf[w].init /\ p.reps # sf[w].reps /\ p.outdated = sf[w].outdated
      BY <1>2, <1>4, <1>7, <1>8, <1>9, <2>1
    <2>3. p.spec = sf[w].spec + 1 /\ ~p.seen
      BY <1>2, <1>7, <1>8, <2>1
    <2>. QED
      BY <1>2, <1>8, <2>1, <2>2, <2>3
  <1>10. CASE ~(retemplated \/ m.reps # sf[w].reps)
    <2>1. p = m
      BY <1>3, <1>10
    <2>2. p.init = sf[w].init /\ p.reps = sf[w].reps /\ Template(w, p) = Template(w, sf[w])
      BY <1>4, <1>6, <1>10, <2>1
    <2>. QED
      BY <1>1, <1>2, <2>1, <2>2
  <1>. QED
    BY <1>9, <1>10

\* A patch changes one StatefulSet.
LEMMA PatchWrites ==
    ASSUME TypeOK, pc \in Configured, NEW v \in Workloads,
           NEW old \in {sfCache[v], sc.sf[v]}, NEW new \in Sfsets, NEW next, NEW stop,
           pc # v => old = sc.sf[v],
           Wanted(v, old, new),
           PatchStatefulSet(v, old, new, next, stop)
    PROVE  \A w \in Workloads : Kept(w) \/ Repatched(w)
  <1>1. /\ Exists(sf[v]) /\ RecordRollout
        /\ sf' = [sf EXCEPT ![v] = Patched(v, old, new)]
    BY DEF PatchStatefulSet
  <1>2. sf \in [Workloads -> Sfsets]
    BY DEF TypeOK
  <1>3. sf'[v] = Patched(v, old, new) /\ \A w \in Workloads : w # v => sf'[w] = sf[w]
    BY <1>1, <1>2
  <1>4. Repatched(v)
    BY <1>1, <1>3 DEF Repatched
  <1>. QED
    BY <1>3, <1>4 DEF Kept

\* A creation changes one StatefulSet.
LEMMA CreateWrites ==
    ASSUME TypeOK, pc \in Configured, pc \in {"mgmd", "ndbmtd", "rmysqld"},
           NEW v \in Workloads, CreateStatefulSet(v)
    PROVE  \A w \in Workloads : Kept(w) \/ Created(w)
  <1>1. sf' = IF Exists(sf[v]) THEN sf
              ELSE [sf EXCEPT ![v] = [NewStatefulSet(v, sc.cs, sc.nc) EXCEPT !.spec = 1]]
    BY DEF CreateStatefulSet
  <1>2. sf \in [Workloads -> Sfsets]
    BY DEF TypeOK
  <1>3. CASE Exists(sf[v])
    BY <1>1, <1>3 DEF Kept
  <1>4. CASE ~Exists(sf[v])
    <2>1. /\ sf'[v] = [NewStatefulSet(v, sc.cs, sc.nc) EXCEPT !.spec = 1]
          /\ \A w \in Workloads : w # v => sf'[w] = sf[w]
      BY <1>1, <1>2, <1>4
    <2>2. Created(v)
      BY <1>4, <2>1 DEF Created
    <2>. QED
      BY <2>1, <2>2 DEF Kept
  <1>. QED
    BY <1>3, <1>4

\* The two StatefulSets that ensureAllResources creates or patches.
LEMMA EnsureWrites ==
    ASSUME IndInv, NEW v \in {"mgmd", "ndbmtd"}, NEW next, NEW stop,
           EnsureStatefulSet(v, next, stop)
    PROVE  \A w \in Workloads : Kept(w) \/ Created(w) \/ Repatched(w)
  <1> DEFINE s == sfCache[v]
             new == UpdatedStatefulSet(v, s, sc.cs, sc.nc)
  <1>1. /\ v \in Workloads /\ pc = v /\ pc \in Configured
        /\ pc \in {"mgmd", "ndbmtd", "rmysqld"} /\ pc \in Retemplating(v) /\ TypeOK
    BY DEF EnsureStatefulSet, Configured, Steps, Workloads, Retemplating, IndInv
  <1>2. \/ CreateStatefulSet(v)
        \/ PatchStatefulSet(v, s, new, "status", stop)
        \/ sf' = sf
    BY DEF EnsureStatefulSet
  <1>3. s \in Sfsets /\ s \in {sfCache[v], sc.sf[v]}
    BY <1>1 DEF TypeOK
  <1>4. new \in Sfsets /\ Wanted(v, s, new)
    <2>1. /\ specs \in [Gens -> SpecContent] /\ sc.cs \in ConfigMaps /\ sc.nc \in NdbClusters
          /\ sc.cs.gen \in Gens /\ sc.nc.gen \in Gens
      BY <1>1, SyncFacts DEF SyncContexts
    <2>2. new \in Sfsets
      BY <1>1, <1>3, <2>1, UpdatedType
    <2>. QED
      BY <1>1, <2>2 DEF Wanted
  <1> HIDE DEF s, new
  <1>5. CASE CreateStatefulSet(v)
    BY <1>1, <1>5, CreateWrites
  <1>6. CASE PatchStatefulSet(v, s, new, "status", stop)
    BY <1>1, <1>3, <1>4, <1>6, PatchWrites
  <1>7. CASE sf' = sf
    BY <1>7 DEF Kept
  <1>. QED
    BY <1>2, <1>5, <1>6, <1>7

\* The three reconcile steps.
LEMMA ReconcileWrites ==
    ASSUME IndInv, NEW v \in Workloads, NEW upToDate, NEW next, NEW stop,
           pc \in {"rmgmd", "rdata", "rmysqld"}, pc \in Retemplating(v),
           ReconcileStatefulSet(v, upToDate, next, stop)
    PROVE  \A w \in Workloads : Kept(w) \/ Repatched(w)
  <1> DEFINE s == sc.sf[v]
             new == UpdatedStatefulSet(v, s, sc.cs, sc.nc)
  <1>1. pc \in Configured /\ TypeOK
    BY DEF Configured, Steps, IndInv
  <1>2. \/ PatchStatefulSet(v, s, new, next, stop)
        \/ sf' = sf
    BY DEF ReconcileStatefulSet
  <1>3. s \in Sfsets /\ s \in {sfCache[v], sc.sf[v]} /\ s = sc.sf[v]
    BY <1>1 DEF TypeOK
  <1>4. new \in Sfsets /\ Wanted(v, s, new)
    <2>1. /\ specs \in [Gens -> SpecContent] /\ sc.cs \in ConfigMaps /\ sc.nc \in NdbClusters
          /\ sc.cs.gen \in Gens /\ sc.nc.gen \in Gens
      BY <1>1, SyncFacts DEF SyncContexts
    <2>2. new \in Sfsets
      BY <1>3, <2>1, UpdatedType
    <2>. QED
      BY <2>2 DEF Wanted
  <1> HIDE DEF s, new
  <1>5. CASE PatchStatefulSet(v, s, new, next, stop)
    BY <1>1, <1>3, <1>4, <1>5, PatchWrites
  <1>6. CASE sf' = sf
    BY <1>6 DEF Kept
  <1>. QED
    BY <1>2, <1>5, <1>6

\* The other patches keep the generation of the copy they start from.
LEMMA FieldWrites ==
    ASSUME IndInv, \/ HandleScaleDown \/ StartNewDataNodes
                   \/ RemoveAddNodeAnnotation \/ PatchRootAnnotations
    PROVE  \A w \in Workloads : Kept(w) \/ Repatched(w)
  <1>1. pc \in {"scaledown", "addnode", "added", "rootpatch"}
    BY DEF HandleScaleDown, StartNewDataNodes, RemoveAddNodeAnnotation, PatchRootAnnotations
  <1>2. pc \in Configured /\ TypeOK /\ "mysqld" \in Workloads /\ "ndbmtd" \in Workloads
    BY <1>1 DEF Configured, Steps, IndInv, Workloads
  <1>3. /\ specs \in [Gens -> SpecContent] /\ sc.cs.gen \in Gens /\ sc.nc.gen \in Gens
        /\ sc.sf["mysqld"] \in Sfsets /\ sc.sf["ndbmtd"] \in Sfsets
        /\ sc.cs.gen \in 0..MaxGen
    BY <1>2, SyncFacts, ConstantsAssumption DEF SyncContexts, Gens
  <1>4. CASE HandleScaleDown
    <2> DEFINE s == sc.sf["mysqld"]
               k == specs[sc.cs.gen].servers
               new == [s EXCEPT !.reps = k]
    <2>1. sf' = sf \/ PatchStatefulSet("mysqld", s, new, "rmgmd", "status")
      BY <1>4 DEF HandleScaleDown
    <2>2. k \in Nat /\ s \in Sfsets /\ pc = "scaledown"
      BY <1>3, <1>4 DEF SpecContent, HandleScaleDown
    <2>3. new \in Sfsets
      BY <2>2 DEF Sfsets
    <2>4. Wanted("mysqld", s, new)
      BY <2>2 DEF Wanted
    <2> HIDE DEF new
    <2>. QED
      BY <1>2, <2>1, <2>3, <2>4, PatchWrites DEF Kept
  <1>5. CASE StartNewDataNodes
    <2> DEFINE s == sc.sf["ndbmtd"]
               k == specs[sc.cs.gen].nodes
               new == [s EXCEPT !.reps = k]
    <2>1. sf' = sf \/ PatchStatefulSet("ndbmtd", s, new, "nodegroups", "status")
      BY <1>5 DEF StartNewDataNodes
    <2>2. k \in Nat /\ s \in Sfsets /\ pc = "addnode"
      BY <1>3, <1>5 DEF SpecContent, StartNewDataNodes
    <2>3. new \in Sfsets
      BY <2>2 DEF Sfsets
    <2>4. Wanted("ndbmtd", s, new)
      BY <2>2 DEF Wanted
    <2> HIDE DEF new
    <2>. QED
      BY <1>2, <2>1, <2>3, <2>4, PatchWrites DEF Kept
  <1>6. CASE RemoveAddNodeAnnotation
    <2> DEFINE s == sc.sf["ndbmtd"]
               new == [s EXCEPT !.add = FALSE]
    <2>1. PatchStatefulSet("ndbmtd", s, new, "root", "status")
      BY <1>6 DEF RemoveAddNodeAnnotation
    <2>2. s \in Sfsets /\ pc = "added"
      BY <1>3, <1>6 DEF RemoveAddNodeAnnotation
    <2>3. new \in Sfsets
      BY <2>2 DEF Sfsets
    <2>4. Wanted("ndbmtd", s, new)
      BY <2>2 DEF Wanted
    <2> HIDE DEF new
    <2>. QED
      BY <1>2, <2>1, <2>3, <2>4, PatchWrites DEF Kept
  <1>7. CASE PatchRootAnnotations
    <2> DEFINE s == sc.sf["mysqld"]
               g == sc.cs.gen
               h == specs[sc.nc.gen].host
               new == [s EXCEPT !.root = g, !.host = h]
    <2>1. PatchStatefulSet("mysqld", s, new, "cmpatch", "status")
      BY <1>7 DEF PatchRootAnnotations
    <2>2. s \in Sfsets /\ pc = "rootpatch" /\ g \in 0..MaxGen /\ h \in Nat
      BY <1>3, <1>7 DEF PatchRootAnnotations, SpecContent
    <2>3. new \in Sfsets
      BY <2>2 DEF Sfsets
    <2>4. Wanted("mysqld", s, new)
      BY <2>2 DEF Wanted
    <2> HIDE DEF new
    <2>. QED
      BY <1>2, <2>1, <2>3, <2>4, PatchWrites DEF Kept
  <1>. QED
    BY <1>4, <1>5, <1>6, <1>7

\* The StatefulSet controller, the pods and the deletion of a pod change the
\* status only.
LEMMA PodWrites ==
    ASSUME IndInv, NEW v \in Workloads,
           \/ ObserveStatefulSet(v) \/ PodsBecomeReady(v) \/ PodDisrupted(v)
           \/ v = "ndbmtd" /\ EnsureDataNodePodVersion
    PROVE  \A w \in Workloads : Kept(w)
  <1>1. TypeOK /\ sf \in [Workloads -> Sfsets] /\ sf[v] \in Sfsets
    BY DEF IndInv, TypeOK
  <1>2. CASE sf' = sf
    BY <1>2 DEF Kept
  <1>3. ASSUME NEW s, sf' = [sf EXCEPT ![v] = s], sf'[v] = s => Kept(v)
        PROVE  \A w \in Workloads : Kept(w)
    <2>1. sf'[v] = s /\ \A w \in Workloads : w # v => sf'[w] = sf[w]
      BY <1>1, <1>3
    <2>. QED
      BY <1>3, <2>1 DEF Kept
  <1>4. CASE ObserveStatefulSet(v)
    <2> DEFINE f == IF v # "ndbmtd" THEN Erroneous(v, sf[v])
                    ELSE (sf[v].bad /\ ~sf[v].up) \/ (Erroneous(v, sf[v]) /\ sf[v].stat < sf[v].reps)
               u == /\ sf[v].up /\ sf[v].stat = sf[v].reps
                    /\ v = "ndbmtd" \/ sf[v].outdated = 0
               s == [sf[v] EXCEPT !.seen = TRUE, !.bad = f, !.up = u]
    <2>1. /\ sf' = [sf EXCEPT ![v].seen = TRUE, ![v].bad = f, ![v].up = u]
          /\ Exists(sf[v]) /\ RecordRollout
      BY <1>4 DEF ObserveStatefulSet
    <2>2. (f => sf[v].bad \/ Erroneous(v, sf[v])) /\ (u => sf[v].up /\ sf[v].stat = sf[v].reps)
      OBVIOUS
    <2> HIDE DEF f, u
    <2>3. sf' = [sf EXCEPT ![v] = s]
      BY <1>1, <2>1
    <2>4. /\ Written(s) = Written(sf[v]) /\ s.stat = sf[v].stat /\ s.outdated = sf[v].outdated
          /\ s.up = u /\ s.bad = f
      BY <1>1 DEF Written, Sfsets
    <2> HIDE DEF s
    <2>5. sf'[v] = s => Observed(v)
      BY <2>1, <2>2, <2>4 DEF Observed
    <2>. QED
      BY <1>3, <2>3, <2>5 DEF Kept
  <1>5. CASE PodsBecomeReady(v)
    <2> DEFINE o == IF v = "ndbmtd" THEN sf[v].outdated ELSE 0
               s == [sf[v] EXCEPT !.up = TRUE, !.stat = sf[v].reps, !.outdated = o]
    <2>1. /\ sf' = [sf EXCEPT ![v].up = TRUE, ![v].stat = sf[v].reps, ![v].outdated = o]
          /\ sf[v].seen /\ RecordRollout
      BY <1>1, <1>5 DEF PodsBecomeReady
    <2>2. sf' = [sf EXCEPT ![v] = s]
      BY <1>1, <2>1
    <2>3. /\ Written(s) = Written(sf[v]) /\ s.seen /\ s.up /\ s.stat = sf[v].reps
          /\ s.outdated = (IF v = "ndbmtd" THEN sf[v].outdated ELSE 0) /\ s.bad = sf[v].bad
      BY <1>1, <2>1 DEF Written, Sfsets
    <2> HIDE DEF s
    <2>4. sf'[v] = s => Readied(v)
      BY <2>1, <2>3 DEF Readied
    <2>. QED
      BY <1>3, <2>2, <2>4 DEF Kept
  <1>6. CASE PodDisrupted(v)
    <2> DEFINE s == [sf[v] EXCEPT !.up = FALSE]
    <2>1. sf' = [sf EXCEPT ![v] = s] /\ rolled' = rolled
      BY <1>1, <1>6 DEF PodDisrupted
    <2>2. Written(s) = Written(sf[v]) /\ ~s.up /\ s.stat = sf[v].stat /\ s.bad = sf[v].bad
      BY <1>1 DEF Written, Sfsets
    <2> HIDE DEF s
    <2>3. sf'[v] = s => Disturbed(v)
      BY <2>1, <2>2 DEF Disturbed
    <2>. QED
      BY <1>3, <2>1, <2>3 DEF Kept
  <1>7. CASE v = "ndbmtd" /\ EnsureDataNodePodVersion
    <2> DEFINE b == Erroneous("ndbmtd", sf["ndbmtd"])
               o == IF sf["ndbmtd"].outdated > 0 THEN sf["ndbmtd"].outdated - 1 ELSE 0
               s == [sf[v] EXCEPT !.up = FALSE, !.bad = b, !.outdated = o]
    <2>1. /\ \/ sf' = sf
             \/ sf' = [sf EXCEPT !["ndbmtd"].up = FALSE, !["ndbmtd"].bad = b, !["ndbmtd"].outdated = o]
          /\ rolled' = rolled /\ pc = "podver"
      BY <1>1, <1>7 DEF EnsureDataNodePodVersion
    <2>2. sf[v].gen \in Gens
      <3>1. pc \in Configured /\ pc \in Past(v)
        BY <1>7, <2>1 DEF Configured, Steps, Past
      <3>. QED
        BY <3>1, SyncFacts
    <2> HIDE DEF b, o
    <2>3. sf' = sf \/ sf' = [sf EXCEPT ![v] = s]
      BY <1>1, <1>7, <2>1
    <2>4. Written(s) = Written(sf[v]) /\ ~s.up /\ s.stat = sf[v].stat /\ s.bad = b
      BY <1>1 DEF Written, Sfsets
    <2> HIDE DEF s
    <2>5. sf'[v] = s => Disturbed(v)
      BY <1>7, <2>1, <2>2, <2>4 DEF Disturbed, b
    <2>. QED
      BY <1>2, <1>3, <2>3, <2>5 DEF Kept
  <1>. QED
    BY <1>4, <1>5, <1>6, <1>7

\* Every step keeps what a sync has written of a StatefulSet, creates it, or
\* patches it from a copy.
LEMMA Writes ==
    ASSUME IndInv, [Next]_vars
    PROVE  \A w \in Workloads : Kept(w) \/ Created(w) \/ Repatched(w)
  <1>1. CASE sf' = sf
    BY <1>1 DEF Kept
  <1>2. CASE EnsureManagementServerStatefulSet \/ EnsureDataNodeStatefulSet
    BY <1>2, EnsureWrites DEF EnsureManagementServerStatefulSet, EnsureDataNodeStatefulSet
  <1>3. CASE ReconcileManagementNodeStatefulSet
    <2>1. "mgmd" \in Workloads /\ pc = "rmgmd" /\ pc \in Retemplating("mgmd")
      BY <1>3 DEF Workloads, Retemplating, ReconcileManagementNodeStatefulSet
    <2>. QED
      BY <1>3, <2>1, ReconcileWrites DEF ReconcileManagementNodeStatefulSet
  <1>4. CASE ReconcileDataNodeStatefulSet
    <2>1. "ndbmtd" \in Workloads /\ pc = "rdata" /\ pc \in Retemplating("ndbmtd")
      BY <1>4 DEF Workloads, Retemplating, ReconcileDataNodeStatefulSet
    <2> DEFINE up == /\ workloadHasConfigGeneration(sc.sf["ndbmtd"], sc.cs.gen)
                     /\ ~(isInitialFlagSet(sc.sf["ndbmtd"]) /\ ~sc.cs.init)
    <2>2. ReconcileStatefulSet("ndbmtd", up, "podver", "status")
      BY <1>4 DEF ReconcileDataNodeStatefulSet
    <2> HIDE DEF up
    <2>. QED
      BY <2>1, <2>2, ReconcileWrites
  <1>5. CASE ReconcileMySQLServerStatefulSet
    <2>1. /\ "mysqld" \in Workloads /\ pc = "rmysqld" /\ pc \in Retemplating("mysqld")
          /\ pc \in Configured /\ TypeOK
      BY <1>5 DEF Workloads, Retemplating, ReconcileMySQLServerStatefulSet, Configured, Steps, IndInv
    <2>2. \/ CreateStatefulSet("mysqld")
          \/ ReconcileStatefulSet("mysqld",
                workloadHasConfigGeneration(sc.sf["mysqld"], sc.cs.gen), "addnode", "status")
      BY <1>5 DEF ReconcileMySQLServerStatefulSet
    <2>3. CASE CreateStatefulSet("mysqld")
      BY <2>1, <2>3, CreateWrites
    <2>4. CASE ReconcileStatefulSet("mysqld",
                workloadHasConfigGeneration(sc.sf["mysqld"], sc.cs.gen), "addnode", "status")
      BY <2>1, <2>4, ReconcileWrites
    <2>. QED
      BY <2>2, <2>3, <2>4
  <1>6. CASE HandleScaleDown \/ StartNewDataNodes \/ RemoveAddNodeAnnotation \/ PatchRootAnnotations
    BY <1>6, FieldWrites
  <1>7. CASE EnsureDataNodePodVersion
    BY <1>7, PodWrites DEF Workloads
  <1>8. CASE Kubernetes \/ \E v \in Workloads : PodDisrupted(v)
    BY <1>8, PodWrites DEF Kubernetes
  <1>9. SyncBegin \/ EnsureConfigMap \/ PatchConfigMapOnError \/ DeletePodOnStsUpdate
            \/ ValidateMySQLServerStatefulSet \/ CreateNodeGroups \/ ReorgNdbTables
            \/ ReconcileRootUser \/ FinishSync \/ UpdateNdbClusterStatus
        => sf' = sf
    BY DEF SyncBegin, EnsureConfigMap, PatchConfigMapOnError, PatchConfigMap, DeletePodOnStsUpdate,
           ValidateMySQLServerStatefulSet, CreateNodeGroups, ReorgNdbTables,
           ReconcileRootUser, FinishSync, UpdateNdbClusterStatus, cluster
  <1>10. Informers \/ UpdateSpec \/ StepFails \/ CreateNodeGroupFails \/ StatusUpdateFails
            \/ RelistStatefulSets \/ OperatorRestart \/ UNCHANGED vars
         => sf' = sf
    BY DEF Informers, DeliverNdbCluster, Resync, DeliverConfigMap, DeliverStatefulSets, DeliverPods,
           UpdateSpec, StepFails, CreateNodeGroupFails, StatusUpdateFails, RelistStatefulSets,
           OperatorRestart, cluster, vars
  <1>. QED
    BY <1>1, <1>2, <1>3, <1>4, <1>5, <1>6, <1>7, <1>8, <1>9, <1>10 DEF Next, SyncStep

\* A sync ends, begins, goes on, or is left alone.
Ended   == pc' = "idle" /\ sc' = NoSync /\ ncCache'.gen >= ncCache.gen
Begun   == /\ pc = "idle" /\ pc' = "config" /\ sc' = [NoSync EXCEPT !.nc = ncCache]
           /\ ncCache' = ncCache
GoesOn  == /\ pc # "idle" /\ pc' # "idle" /\ ncCache' = ncCache
           /\ sc'.nc = sc.nc /\ (pc # "config" => sc'.cs = sc.cs)
           /\ \A w \in Workloads : sc'.sf[w] \in {sc.sf[w], sfCache[w]}
Ignored == pc' = pc /\ sc' = sc /\ ncCache'.gen >= ncCache.gen

\* No step of a sync writes a copy that is not in the cache.
LEMMA SyncControl ==
    ASSUME IndInv, [Next]_vars
    PROVE  Ended \/ Begun \/ GoesOn \/ Ignored
  <1>1. /\ sc \in SyncContexts /\ ncCache.gen \in Nat /\ nc.gen \in Nat
        /\ nc.gen >= ncCache.gen
    BY Numbers, ConstantsAssumption DEF IndInv, TypeOK, SyncContexts, Flow, Gens
  <1>2. CASE FailSync /\ ncCache' = ncCache
    BY <1>1, <1>2 DEF FailSync, Ended
  <1>3. CASE SyncBegin
    BY <1>3 DEF SyncBegin, Begun, Goto, caches
  <1>4. CASE EnsureConfigMap
    <2>1. pc = "config" /\ ncCache' = ncCache
      BY <1>4 DEF EnsureConfigMap, caches
    <2>2. FailSync \/ (pc' # "idle" /\ \E c : sc' = [sc EXCEPT !.cs = c])
      BY <1>4 DEF EnsureConfigMap, Goto
    <2>3. CASE FailSync
      BY <1>2, <2>1, <2>3
    <2>4. CASE pc' # "idle" /\ \E c : sc' = [sc EXCEPT !.cs = c]
      <3>1. sc'.nc = sc.nc /\ sc'.sf = sc.sf
        BY <1>1, <2>4 DEF SyncContexts
      <3>. QED
        BY <2>1, <2>4, <3>1 DEF GoesOn
    <2>. QED
      BY <2>2, <2>3, <2>4
  <1>5. CASE PatchConfigMapOnError \/ DeletePodOnStsUpdate \/ HandleScaleDown
             \/ ReconcileManagementNodeStatefulSet \/ ReconcileDataNodeStatefulSet
             \/ ReconcileMySQLServerStatefulSet \/ StartNewDataNodes \/ CreateNodeGroups
             \/ RemoveAddNodeAnnotation \/ PatchRootAnnotations
    <2>1. sc' = sc /\ ncCache' = ncCache
      BY <1>5 DEF PatchConfigMapOnError, PatchConfigMap, DeletePodOnStsUpdate, HandleScaleDown,
             ReconcileManagementNodeStatefulSet, ReconcileDataNodeStatefulSet,
             ReconcileMySQLServerStatefulSet, StartNewDataNodes, CreateNodeGroups,
             RemoveAddNodeAnnotation, PatchRootAnnotations, caches
    <2>2. pc # "idle" /\ pc' # "idle"
      BY <1>5 DEF PatchConfigMapOnError, PatchConfigMap, DeletePodOnStsUpdate, HandleScaleDown,
             ReconcileManagementNodeStatefulSet, ReconcileDataNodeStatefulSet,
             ReconcileMySQLServerStatefulSet, StartNewDataNodes, CreateNodeGroups,
             RemoveAddNodeAnnotation, PatchRootAnnotations, ReconcileStatefulSet,
             PatchStatefulSet, Goto
    <2>. QED
      BY <2>1, <2>2 DEF GoesOn
  <1>6. CASE EnsureManagementServerStatefulSet \/ EnsureDataNodeStatefulSet
    <2>1. PICK v \in Workloads : EnsureStatefulSet(v, "ndbmtd", "deletepod")
                                  \/ EnsureStatefulSet(v, "mysqld", "status")
      BY <1>6 DEF EnsureManagementServerStatefulSet, EnsureDataNodeStatefulSet, Workloads
    <2>2. pc # "idle" /\ pc' # "idle" /\ ncCache' = ncCache
      BY <2>1 DEF EnsureStatefulSet, PatchStatefulSet, Goto, caches, Workloads
    <2>3. sc' = sc \/ sc' = [sc EXCEPT !.sf[v] = sfCache[v]]
      BY <2>1 DEF EnsureStatefulSet
    <2>. QED
      BY <1>1, <2>2, <2>3 DEF GoesOn, SyncContexts
  <1>7. CASE ValidateMySQLServerStatefulSet
    <2>1. /\ pc # "idle" /\ pc' # "idle" /\ ncCache' = ncCache
          /\ sc' = [sc EXCEPT !.sf["mysqld"] = sfCache["mysqld"]]
      BY <1>7 DEF ValidateMySQLServerStatefulSet, Goto, caches
    <2>. QED
      BY <1>1, <2>1 DEF GoesOn, SyncContexts
  <1>8. CASE EnsureDataNodePodVersion \/ ReorgNdbTables \/ ReconcileRootUser
    <2>1. ncCache' = ncCache /\ pc # "idle"
      BY <1>8 DEF EnsureDataNodePodVersion, ReorgNdbTables, ReconcileRootUser, caches
    <2>2. FailSync \/ (sc' = sc /\ pc' # "idle")
      BY <1>8 DEF EnsureDataNodePodVersion, ReorgNdbTables, ReconcileRootUser, SQLFails, SQLRuns, Goto
    <2>. QED
      BY <1>2, <2>1, <2>2 DEF GoesOn
  <1>9. CASE FinishSync
    <2>1. /\ pc # "idle" /\ pc' # "idle" /\ ncCache' = ncCache
          /\ sc' = sc \/ sc' = [sc EXCEPT !.success = TRUE]
      BY <1>9 DEF FinishSync, PatchConfigMap, Goto, caches
    <2>. QED
      BY <1>1, <2>1 DEF GoesOn, SyncContexts
  <1>10. CASE UpdateNdbClusterStatus \/ StepFails \/ CreateNodeGroupFails \/ StatusUpdateFails
              \/ OperatorRestart
    BY <1>1, <1>10 DEF UpdateNdbClusterStatus, StepFails, CreateNodeGroupFails, StatusUpdateFails,
           OperatorRestart, FailSync, Ended, caches
  <1>11. CASE Informers \/ UpdateSpec \/ RelistStatefulSets \/ UNCHANGED vars
    <2>1. pc' = pc /\ sc' = sc
      BY <1>11 DEF Informers, DeliverNdbCluster, Resync, DeliverConfigMap, DeliverStatefulSets,
           DeliverPods, UpdateSpec, RelistStatefulSets, caches, vars
    <2>2. ncCache' = ncCache \/ ncCache' = nc
      BY <1>11 DEF Informers, DeliverNdbCluster, Resync, DeliverConfigMap, DeliverStatefulSets,
           DeliverPods, UpdateSpec, RelistStatefulSets, caches, vars
    <2>. QED
      BY <1>1, <2>1, <2>2 DEF Ignored
  <1>12. CASE Kubernetes \/ \E w \in Workloads : PodDisrupted(w)
    <2>1. pc' = pc /\ sc' = sc /\ ncCache' = ncCache
      BY <1>12 DEF Kubernetes, ObserveStatefulSet, PodsBecomeReady, PodDisrupted
    <2>. QED
      BY <1>1, <2>1 DEF Ignored
  <1>. QED
    BY <1>3, <1>4, <1>5, <1>6, <1>7, <1>8, <1>9, <1>10, <1>11, <1>12 DEF Next, SyncStep

\* The steps that may follow a step of a sync, other than its end.
Following ==
    [s \in Steps |->
        CASE s = "config"     -> {"errorpatch", "mgmd"}
          [] s = "errorpatch" -> {"mgmd", "status"}
          [] s = "mgmd"       -> {"ndbmtd", "deletepod", "status"}
          [] s = "ndbmtd"     -> {"mysqld", "status"}
          [] s = "deletepod"  -> {"status"}
          [] s = "mysqld"     -> {"scaledown", "status"}
          [] s = "scaledown"  -> {"rmgmd", "status"}
          [] s = "rmgmd"      -> {"rdata", "deletepod", "status"}
          [] s = "rdata"      -> {"podver", "status"}
          [] s = "podver"     -> {"rmysqld", "status"}
          [] s = "rmysqld"    -> {"addnode", "status"}
          [] s = "addnode"    -> {"nodegroups", "root", "status"}
          [] s = "nodegroups" -> {"reorg"}
          [] s = "reorg"      -> {"added"}
          [] s = "added"      -> {"root", "status"}
          [] s = "root"       -> {"rootpatch", "cmpatch"}
          [] s = "rootpatch"  -> {"cmpatch", "status"}
          [] s = "cmpatch"    -> {"status"}
          [] s = "status"     -> {}]

\* A sync takes its steps in this order, whatever happens around it.
LEMMA Control ==
    ASSUME [Next]_vars
    PROVE  \/ pc' = "idle"
           \/ pc' = pc /\ sc' = sc
           \/ SyncBegin
           \/ SyncStep /\ pc \in Steps /\ pc' \in Following[pc]
  <1>1. CASE SyncStep
    <2>1. CASE EnsureConfigMap \/ PatchConfigMapOnError \/ DeletePodOnStsUpdate
               \/ ValidateMySQLServerStatefulSet \/ FinishSync \/ CreateNodeGroups
      BY <1>1, <2>1 DEF EnsureConfigMap, PatchConfigMapOnError, PatchConfigMap, DeletePodOnStsUpdate,
           ValidateMySQLServerStatefulSet, FinishSync, CreateNodeGroups, Goto, FailSync,
           Following, Steps
    <2>2. CASE EnsureManagementServerStatefulSet \/ EnsureDataNodeStatefulSet
      BY <1>1, <2>2 DEF EnsureManagementServerStatefulSet, EnsureDataNodeStatefulSet,
           EnsureStatefulSet, PatchStatefulSet, Goto, Following, Steps
    <2>3. CASE HandleScaleDown \/ StartNewDataNodes \/ RemoveAddNodeAnnotation \/ PatchRootAnnotations
      BY <1>1, <2>3 DEF HandleScaleDown, StartNewDataNodes, RemoveAddNodeAnnotation,
           PatchRootAnnotations, PatchStatefulSet, Goto, Following, Steps
    <2>4. CASE ReconcileManagementNodeStatefulSet \/ ReconcileDataNodeStatefulSet
               \/ ReconcileMySQLServerStatefulSet
      BY <1>1, <2>4 DEF ReconcileManagementNodeStatefulSet, ReconcileDataNodeStatefulSet,
           ReconcileMySQLServerStatefulSet, ReconcileStatefulSet, PatchStatefulSet, Goto,
           Following, Steps
    <2>5. CASE EnsureDataNodePodVersion \/ ReorgNdbTables \/ ReconcileRootUser
               \/ UpdateNdbClusterStatus
      BY <1>1, <2>5 DEF EnsureDataNodePodVersion, ReorgNdbTables, ReconcileRootUser,
           UpdateNdbClusterStatus, SQLFails, SQLRuns, FailSync, Goto, Following, Steps
    <2>. QED
      BY <1>1, <2>1, <2>2, <2>3, <2>4, <2>5 DEF SyncStep
  <1>2. CASE ~SyncStep
    BY <1>2 DEF Next, Informers, DeliverNdbCluster, Resync, DeliverConfigMap,
           DeliverStatefulSets, DeliverPods, Kubernetes, ObserveStatefulSet, PodsBecomeReady,
           UpdateSpec, StepFails, CreateNodeGroupFails, StatusUpdateFails, RelistStatefulSets,
           OperatorRestart, PodDisrupted, FailSync, caches, vars
  <1>. QED
    BY <1>1, <1>2

\* The step determines the action.
LEMMA ActionAt ==
    ASSUME SyncStep
    PROVE  /\ pc = "config"     => EnsureConfigMap
           /\ pc = "errorpatch" => PatchConfigMapOnError
           /\ pc = "mgmd"       => EnsureManagementServerStatefulSet
           /\ pc = "ndbmtd"     => EnsureDataNodeStatefulSet
           /\ pc = "deletepod"  => DeletePodOnStsUpdate
           /\ pc = "mysqld"     => ValidateMySQLServerStatefulSet
           /\ pc = "scaledown"  => HandleScaleDown
           /\ pc = "rmgmd"      => ReconcileManagementNodeStatefulSet
           /\ pc = "rdata"      => ReconcileDataNodeStatefulSet
           /\ pc = "podver"     => EnsureDataNodePodVersion
           /\ pc = "rmysqld"    => ReconcileMySQLServerStatefulSet
           /\ pc = "addnode"    => StartNewDataNodes
           /\ pc = "nodegroups" => CreateNodeGroups
           /\ pc = "reorg"      => ReorgNdbTables
           /\ pc = "added"      => RemoveAddNodeAnnotation
           /\ pc = "root"       => ReconcileRootUser
           /\ pc = "rootpatch"  => PatchRootAnnotations
           /\ pc = "cmpatch"    => FinishSync
           /\ pc = "status"     => UpdateNdbClusterStatus
  BY DEF SyncStep, EnsureConfigMap, PatchConfigMapOnError, EnsureManagementServerStatefulSet,
         EnsureDataNodeStatefulSet, EnsureStatefulSet, DeletePodOnStsUpdate,
         ValidateMySQLServerStatefulSet, HandleScaleDown, ReconcileManagementNodeStatefulSet,
         ReconcileDataNodeStatefulSet, EnsureDataNodePodVersion, ReconcileMySQLServerStatefulSet,
         StartNewDataNodes, CreateNodeGroups, ReorgNdbTables, RemoveAddNodeAnnotation,
         ReconcileRootUser, PatchRootAnnotations, FinishSync, UpdateNdbClusterStatus

\* Only the user changes the spec, only the end of a sync the status.
LEMMA Unspecified ==
    ASSUME [Next]_vars, ~UpdateSpec
    PROVE  specs' = specs /\ (~UpdateNdbClusterStatus => nc' = nc)
  <1>1. CASE SyncStep
    BY <1>1 DEF SyncStep, EnsureConfigMap, PatchConfigMapOnError, PatchConfigMap,
           EnsureManagementServerStatefulSet, EnsureDataNodeStatefulSet, EnsureStatefulSet,
           DeletePodOnStsUpdate, ValidateMySQLServerStatefulSet, HandleScaleDown,
           ReconcileManagementNodeStatefulSet, ReconcileDataNodeStatefulSet,
           EnsureDataNodePodVersion, ReconcileMySQLServerStatefulSet, StartNewDataNodes,
           CreateNodeGroups, ReorgNdbTables, RemoveAddNodeAnnotation, ReconcileRootUser,
           PatchRootAnnotations, FinishSync, UpdateNdbClusterStatus, cluster
  <1>2. CASE ~SyncStep
    BY <1>2 DEF Next, SyncBegin, Informers, DeliverNdbCluster, Resync, DeliverConfigMap,
           DeliverStatefulSets, DeliverPods, Kubernetes, ObserveStatefulSet, PodsBecomeReady,
           StepFails, CreateNodeGroupFails, StatusUpdateFails, RelistStatefulSets,
           OperatorRestart, PodDisrupted, cluster, vars
  <1>. QED
    BY <1>1, <1>2

\* The generation of the NdbCluster that the running sync, or else the next
\* one, works for.
Level == IF pc = "idle" THEN ncCache.gen ELSE sc.nc.gen

\* It only grows, and no spec up to it changes.
LEMMA LevelGrows ==
    ASSUME IndInv, [Next]_vars
    PROVE  /\ Level \in Gens /\ Level' \in Gens /\ Level <= Level'
           /\ Level <= nc.gen /\ Level' <= nc'.gen /\ cm.gen <= Level
           /\ nc.gen \in Gens /\ nc'.gen \in Gens /\ nc.gen <= nc'.gen
           /\ \A g \in Gens : g <= nc.gen => specs'[g] = specs[g]
  <1>1. IndInv'
    BY NextInv
  <1>2. /\ nc.gen \in Nat /\ ncCache.gen \in Nat /\ cm.gen \in Nat /\ sc.nc.gen \in Nat
        /\ (nc.gen)' \in Nat /\ (ncCache.gen)' \in Nat /\ (sc.nc.gen)' \in Nat
    <2>1. IndInv' => /\ (nc.gen)' \in Nat /\ (ncCache.gen)' \in Nat /\ (sc.nc.gen)' \in Nat
      BY ConstantsAssumption DEF IndInv, TypeOK, NdbClusters
    <2>. QED
      BY <1>1, <2>1, Numbers
  <1>3. /\ nc.gen \in Gens /\ ncCache.gen \in Gens /\ ncCache.gen <= nc.gen /\ cm.gen <= ncCache.gen
        /\ pc # "idle" => sc.nc.gen \in Gens /\ cm.gen <= sc.nc.gen /\ sc.nc.gen <= ncCache.gen
    BY DEF IndInv, Flow, SyncFlow
  <1>4. /\ nc'.gen \in Gens /\ ncCache'.gen \in Gens /\ ncCache'.gen <= nc'.gen
        /\ pc' # "idle" => sc'.nc.gen \in Gens /\ sc'.nc.gen <= ncCache'.gen
    BY <1>1 DEF IndInv, Flow, SyncFlow
  <1>5. Level <= Level'
    <2>1. CASE Ended
      BY <1>2, <1>3, <2>1 DEF Ended, Level
    <2>2. CASE Begun
      <3>1. sc'.nc = ncCache
        BY <2>2 DEF Begun, NoSync
      <3>. QED
        BY <1>2, <2>2, <3>1 DEF Begun, Level
    <2>3. CASE GoesOn
      BY <1>2, <2>3 DEF GoesOn, Level
    <2>4. CASE Ignored
      BY <1>2, <2>4 DEF Ignored, Level
    <2>. QED
      BY <2>1, <2>2, <2>3, <2>4, SyncControl
  <1>6. /\ nc.gen <= nc'.gen
        /\ \A g \in Gens : g <= nc.gen => specs'[g] = specs[g]
    <2>1. CASE UpdateSpec
      <3>1. nc'.gen = nc.gen + 1
        BY <2>1 DEF UpdateSpec, IndInv, TypeOK, NdbClusters
      <3>2. PICK c \in Changes, b \in SUBSET MayFail :
                specs' = [specs EXCEPT ![nc.gen + 1] = Changed(specs[nc.gen], c, b)]
        BY <2>1 DEF UpdateSpec
      <3>3. specs \in [Gens -> SpecContent]
        BY DEF IndInv, TypeOK
      <3>4. ASSUME NEW g \in Gens, g <= nc.gen
            PROVE  specs'[g] = specs[g]
        BY <1>2, <3>2, <3>3, <3>4 DEF Gens
      <3>. QED
        BY <1>2, <3>1, <3>4
    <2>2. CASE UpdateNdbClusterStatus
      BY <1>2, <2>2 DEF UpdateNdbClusterStatus, IndInv, TypeOK, NdbClusters
    <2>3. CASE ~UpdateSpec /\ ~UpdateNdbClusterStatus
      <3>1. UNCHANGED <<nc, specs>>
        BY <2>3, Unspecified
      <3>. QED
        BY <1>2, <3>1
    <2>. QED
      BY <2>1, <2>2, <2>3
  <1>. QED
    BY <1>2, <1>3, <1>4, <1>5, <1>6 DEF Level

\* A copy of a StatefulSet is replaced by a newer one, or dropped.
LEMMA CopyMoves ==
    ASSUME IndInv, [Next]_vars
    PROVE  \A w \in Workloads : /\ sfCache'[w] \in {sfCache[w], sf[w]}
                                /\ sc'.sf[w] \in {sc.sf[w], sfCache[w], NoSfset}
  <1>1. sfCache' = sfCache \/ sfCache' = sf
    <2>1. CASE SyncStep
      BY <2>1 DEF SyncStep, EnsureConfigMap, PatchConfigMapOnError, PatchConfigMap,
           EnsureManagementServerStatefulSet, EnsureDataNodeStatefulSet, EnsureStatefulSet,
           DeletePodOnStsUpdate, ValidateMySQLServerStatefulSet, HandleScaleDown,
           ReconcileManagementNodeStatefulSet, ReconcileDataNodeStatefulSet,
           EnsureDataNodePodVersion, ReconcileMySQLServerStatefulSet, StartNewDataNodes,
           CreateNodeGroups, ReorgNdbTables, RemoveAddNodeAnnotation, ReconcileRootUser,
           PatchRootAnnotations, FinishSync, UpdateNdbClusterStatus, caches
    <2>2. CASE ~SyncStep
      BY <2>2 DEF Next, SyncBegin, Informers, DeliverNdbCluster, Resync, DeliverConfigMap,
           DeliverStatefulSets, DeliverPods, Kubernetes, ObserveStatefulSet, PodsBecomeReady,
           UpdateSpec, StepFails, CreateNodeGroupFails, StatusUpdateFails, RelistStatefulSets,
           OperatorRestart, PodDisrupted, caches, vars
    <2>. QED
      BY <2>1, <2>2
  <1>2. \A w \in Workloads : NoSync.sf[w] = NoSfset
    BY DEF NoSync
  <1>3. Begun => sc'.sf = NoSync.sf
    BY DEF Begun, NoSync
  <1>4. \A w \in Workloads : sc'.sf[w] \in {sc.sf[w], sfCache[w], NoSfset}
    BY <1>2, <1>3, SyncControl DEF Ended, GoesOn, Ignored
  <1>. QED
    BY <1>1, <1>4

-----------------------------------------------------------------------------
(* A processed generation is that of every template *)

\* What a template for the config at hand consists of (NewStatefulSet,
\* ReconcileStatefulSet): the annotations of the root user are not in it.
LEMMA UpdatedFields ==
    ASSUME specs \in [Gens -> SpecContent], NEW w \in Workloads, NEW old \in Sfsets,
           NEW cs \in ConfigMaps, NEW n \in NdbClusters, cs.gen \in Gens, n.gen \in Gens,
           NEW new, new = UpdatedStatefulSet(w, old, cs, n)
    PROVE  /\ new.gen = cs.gen /\ new.from = n.gen /\ new.init = (w = "ndbmtd" /\ cs.init)
           /\ new.root = 0 /\ new.host = 0
           /\ new.reps = IF w = "ndbmtd" /\ old.reps < Replicas(w, cs.gen, n.gen)
                         THEN old.reps ELSE Replicas(w, cs.gen, n.gen)
  <1> DEFINE r == Replicas(w, cs.gen, n.gen)
             i == (w = "ndbmtd" /\ cs.init)
             t == [NoSfset EXCEPT !.gen = cs.gen, !.from = n.gen, !.reps = r, !.init = i]
  <1>1. /\ NewStatefulSet(w, cs, n) = t
    BY DEF NewStatefulSet
  <1> HIDE DEF r, i
  <1>2. /\ t.gen = cs.gen /\ t.from = n.gen /\ t.reps = r /\ t.init = i
        /\ t.root = 0 /\ t.host = 0
    BY DEF NoSfset
  <1>3. t \in Sfsets
    BY <1>1, UpdatedType
  <1>4. new = IF w = "ndbmtd" /\ old.reps < t.reps
              THEN [t EXCEPT !.reps = old.reps, !.add = TRUE] ELSE t
    BY <1>1 DEF UpdatedStatefulSet
  <1> HIDE DEF t
  <1>. QED
    BY <1>2, <1>3, <1>4 DEF Sfsets, r, i

\* The same for a StatefulSet that is created.
LEMMA CreatedFields ==
    ASSUME IndInv, NEW w \in Workloads, Created(w)
    PROVE  /\ sc.cs.gen \in Gens /\ sc.nc.gen \in Gens /\ Level = sc.nc.gen
           /\ sc.cs.gen <= sc.nc.gen
           /\ sf'[w].gen = sc.cs.gen /\ sf'[w].from = sc.nc.gen
           /\ sf'[w].init = (w = "ndbmtd" /\ sc.cs.init)
           /\ sf'[w].root = 0 /\ sf'[w].host = 0
           /\ sf'[w].reps = Replicas(w, sc.cs.gen, sc.nc.gen)
           /\ sf'[w].spec = 1 /\ ~sf'[w].up /\ sf'[w].outdated = 0
  <1> DEFINE r == Replicas(w, sc.cs.gen, sc.nc.gen)
             i == (w = "ndbmtd" /\ sc.cs.init)
             t == [NoSfset EXCEPT !.gen = sc.cs.gen, !.from = sc.nc.gen, !.reps = r, !.init = i]
  <1>1. NewStatefulSet(w, sc.cs, sc.nc) = t
    BY DEF NewStatefulSet
  <1>2. sf'[w] = [t EXCEPT !.spec = 1]
    BY <1>1 DEF Created
  <1>3. pc \in Configured /\ pc # "idle"
    BY DEF Created, Configured, Steps
  <1>4. /\ specs \in [Gens -> SpecContent] /\ sc.cs \in ConfigMaps /\ sc.nc \in NdbClusters
        /\ sc.cs.gen \in Gens /\ sc.nc.gen \in Gens /\ Level = sc.nc.gen
    BY <1>3, SyncFacts DEF SyncContexts, Level
  <1>5. sc.cs.gen <= sc.nc.gen
    <2>1. sc.cs.gen <= cm.gen /\ cm.gen <= sc.nc.gen
      BY <1>3 DEF IndInv, SyncFlow
    <2>. QED
      BY <2>1, Numbers
  <1> HIDE DEF r, i
  <1>6. /\ t.gen = sc.cs.gen /\ t.from = sc.nc.gen /\ t.reps = r /\ t.init = i
        /\ t.root = 0 /\ t.host = 0 /\ t.up = FALSE /\ t.outdated = 0
    BY DEF NoSfset
  <1>7. t \in Sfsets
    <2>1. NoSfset \in Sfsets
      BY ConstantsAssumption DEF NoSfset, Sfsets
    <2>. QED
      BY <1>1, <1>4, <2>1, UpdatedType
  <1> HIDE DEF t
  <1>. QED
    BY <1>2, <1>4, <1>5, <1>6, <1>7 DEF Sfsets, r, i

\* Templates come from a NdbCluster that is not older than their config, and
\* not newer than the sync at hand; copies of them are not ahead.
Origins ==
    \A w \in Workloads :
        /\ sf[w].gen <= sf[w].from /\ sf[w].from <= Level
        /\ sfCache[w].from <= sf[w].from /\ sc.sf[w].from <= sf[w].from

\* The facts about a patch that every invariant below starts from.
LEMMA RepatchFacts ==
    ASSUME IndInv, NEW w \in Workloads, Repatched(w)
    PROVE  /\ specs \in [Gens -> SpecContent] /\ sc.cs \in ConfigMaps /\ sc.nc \in NdbClusters
           /\ sc.cs.gen \in Gens /\ sc.nc.gen \in Gens /\ Level = sc.nc.gen
           /\ sc.cs.gen <= sc.nc.gen
           /\ sf \in [Workloads -> Sfsets]
           /\ \A old \in {sfCache[w], sc.sf[w]} : old \in Sfsets
  <1>1. pc \in Configured /\ pc # "idle"
    BY DEF Repatched, Configured, Steps
  <1>2. sc.cs.gen <= cm.gen /\ cm.gen <= sc.nc.gen
    BY <1>1 DEF IndInv, SyncFlow
  <1>3. sc.cs.gen <= sc.nc.gen
    BY <1>2, Numbers
  <1>. QED
    BY <1>1, <1>3, SyncFacts DEF SyncContexts, Level

\* A patch with a new template comes from the sync's NdbCluster even if the
\* copy it was computed from is stale.
LEMMA OriginMoves ==
    ASSUME IndInv, Origins, [Next]_vars, NEW w \in Workloads
    PROVE  \/ sf'[w].gen = sf[w].gen /\ sf'[w].from = sf[w].from
           \/ sf'[w].from = Level /\ sf'[w].gen <= Level
  <1>1. CASE Kept(w)
    BY <1>1 DEF Kept, Observed, Readied, Disturbed, Written
  <1>2. CASE Created(w)
    BY <1>2, CreatedFields
  <1>3. CASE Repatched(w)
    <2>1. PICK old \in {sfCache[w], sc.sf[w]}, new \in Sfsets :
              Wanted(w, old, new) /\ sf'[w] = Patched(w, old, new)
      BY <1>3 DEF Repatched
    <2>2. /\ old \in Sfsets /\ sc.cs.gen \in Nat /\ Level = sc.nc.gen /\ Level \in Nat
          /\ sc.cs.gen <= Level
      BY <1>3, RepatchFacts, Numbers
    <2>3. /\ sf'[w].gen = Merge(sf[w].gen, old.gen, new.gen)
          /\ sf'[w].from = Merge(sf[w].from, old.from, new.from)
      BY <1>3, <2>1, <2>2, RepatchFacts, PatchedFields
    <2>4. /\ sf[w].gen \in Nat /\ sf[w].from \in Nat /\ old.from \in Nat
          /\ sf[w].gen <= Level /\ sf[w].from <= Level /\ old.from <= sf[w].from
      <3>1. sf[w].gen \in Nat /\ sf[w].from \in Nat /\ old.from \in Nat
        BY <1>3, <2>2, RepatchFacts, ConstantsAssumption DEF Sfsets
      <3>2. sf[w].gen <= sf[w].from /\ sf[w].from <= Level /\ old.from <= sf[w].from
        BY <2>1 DEF Origins
      <3>. QED
        BY <2>2, <3>1, <3>2
    <2>5. CASE new = UpdatedStatefulSet(w, old, sc.cs, sc.nc)
      <3>1. new.gen = sc.cs.gen /\ new.from = Level
        BY <1>3, <2>2, <2>5, RepatchFacts, UpdatedFields
      <3>. QED
        BY <2>2, <2>3, <2>4, <3>1 DEF Merge
    <2>6. CASE new.gen = old.gen /\ new.from = old.from
      BY <2>3, <2>6 DEF Merge
    <2>7. new = UpdatedStatefulSet(w, old, sc.cs, sc.nc) \/ (new.gen = old.gen /\ new.from = old.from)
      BY <2>1, <2>2 DEF Wanted, Sfsets
    <2>. QED
      BY <2>5, <2>6, <2>7
  <1>. QED
    BY <1>1, <1>2, <1>3, Writes

\* Every step keeps the origins of the templates in order.
LEMMA OriginsStep ==
    ASSUME IndInv, Origins, [Next]_vars
    PROVE  Origins'
  <1>1. IndInv' /\ Level \in Nat /\ Level' \in Nat /\ Level <= Level'
    BY NextInv, LevelGrows, ConstantsAssumption DEF Gens
  <1> SUFFICES ASSUME NEW w \in Workloads
               PROVE  /\ sf'[w].gen <= sf'[w].from /\ sf'[w].from <= Level'
                      /\ sfCache'[w].from <= sf'[w].from /\ sc'.sf[w].from <= sf'[w].from
    BY DEF Origins
  <1>2. /\ sf[w].gen \in Nat /\ sf[w].from \in Nat /\ sfCache[w].from \in Nat /\ sc.sf[w].from \in Nat
        /\ sf'[w].gen \in Nat /\ sf'[w].from \in Nat
    <2>1. IndInv' => sf'[w].gen \in Nat /\ sf'[w].from \in Nat
      BY ConstantsAssumption DEF IndInv, TypeOK, Sfsets
    <2>. QED
      BY <1>1, <2>1, ConstantsAssumption DEF IndInv, TypeOK, Sfsets
  <1>3. /\ sf[w].gen <= sf[w].from /\ sf[w].from <= Level
        /\ sfCache[w].from <= sf[w].from /\ sc.sf[w].from <= sf[w].from
    BY DEF Origins
  <1>4. sf'[w].gen <= sf'[w].from /\ sf'[w].from <= Level' /\ sf[w].from <= sf'[w].from
    BY <1>1, <1>2, <1>3, OriginMoves
  <1>5. NoSfset.from = 0
    BY DEF NoSfset
  <1>6. sfCache'[w].from <= sf'[w].from /\ sc'.sf[w].from <= sf'[w].from
    BY <1>2, <1>3, <1>4, <1>5, CopyMoves
  <1>. QED
    BY <1>4, <1>6

\* A resource that was just created has no templates.
LEMMA OriginsInit == Init => Origins
  BY ConstantsAssumption DEF Init, Origins, NoSfset, NoSync, Level

\* When the current generation is processed, the ConfigMap, every
\* StatefulSet's config and every StatefulSet's template are of that
\* generation, with faults, erroneous specs and stale copies of any age (sync,
\* patchStatefulSet, GetUpdatedConfigMap).
THEOREM ProcessedIsCurrent == Spec => []ProcessedMatchesSpec
  <1>1. Spec => []Origins
    BY OriginsInit, OriginsStep, Invariance, PTL DEF Spec
  <1>2. IndInv /\ Origins => ProcessedMatchesSpec
    <2> SUFFICES ASSUME IndInv, Origins, nc.status.proc = nc.gen
                 PROVE  cm.gen = nc.gen /\ \A w \in Workloads : sf[w].gen = nc.gen /\ sf[w].from = nc.gen
      BY DEF ProcessedMatchesSpec
    <2>1. \A w \in Workloads : nc.gen <= sf[w].gen /\ sf[w].gen <= cm.gen
      BY DEF IndInv, Copies, Flow
    <2>2. cm.gen <= nc.gen /\ Level <= nc.gen /\ Level \in Nat
      BY Numbers DEF IndInv, Flow, SyncFlow, Level
    <2>3. \A w \in Workloads : sf[w].gen = nc.gen
      BY <2>1, <2>2, Numbers
    <2>4. \A w \in Workloads : sf[w].from \in Nat /\ sf[w].gen <= sf[w].from /\ sf[w].from <= Level
      BY ConstantsAssumption DEF IndInv, TypeOK, Sfsets, Origins
    <2>5. cm.gen = nc.gen
      BY <2>1, <2>2, Numbers DEF Workloads
    <2>6. \A w \in Workloads : sf[w].from = nc.gen
      BY <2>2, <2>3, <2>4, Numbers
    <2>. QED
      BY <2>3, <2>5, <2>6
  <1>. QED
    BY <1>1, <1>2, Invariance, PTL

-----------------------------------------------------------------------------
(* Root can connect once a generation is processed *)

Host(g) == specs[g].host

\* Root can connect from the host that the sync at hand works for.
Rooted == Host(Level) \in ndb.roots

\* The processed generations a status tells of.
Claims == {nc.status.proc, ncCache.status.proc, sc.nc.status.proc}

\* No host comes back.
HostsGrow ==
    /\ \A g \in Gens : g <= nc.gen => Host(g) >= 1
    /\ \A g, h \in Gens : g <= h /\ h <= nc.gen => Host(g) <= Host(h)

\* The annotations of the root user are not ahead of the sync at hand, and if
\* they are level with it then its root user exists.  So it does if a status
\* is level with it, and after the steps that see to it.
RootMarks ==
    \A s \in Views("mysqld") :
        /\ s.root <= Level /\ s.host <= Host(Level)
        /\ s.root = Level \/ s.host = Host(Level) => Rooted

RootClaims == \A p \in Claims : p = Level => Rooted

RootFlow ==
    /\ pc = "rootpatch" => Rooted
    /\ (pc = "cmpatch" \/ sc.success) /\ sc.cs.gen = sc.nc.gen => Rooted

RootInv == HostsGrow /\ RootMarks /\ RootClaims /\ RootFlow

\* The cache of the NdbCluster is kept or brought up to date.
LEMMA CacheMoves ==
    ASSUME [Next]_vars
    PROVE  ncCache' \in {ncCache, nc}
  <1>1. CASE SyncStep
    BY <1>1 DEF SyncStep, EnsureConfigMap, PatchConfigMapOnError, PatchConfigMap,
       EnsureManagementServerStatefulSet, EnsureDataNodeStatefulSet, EnsureStatefulSet,
       DeletePodOnStsUpdate, ValidateMySQLServerStatefulSet, HandleScaleDown,
       ReconcileManagementNodeStatefulSet, ReconcileDataNodeStatefulSet,
       EnsureDataNodePodVersion, ReconcileMySQLServerStatefulSet, StartNewDataNodes,
       CreateNodeGroups, ReorgNdbTables, RemoveAddNodeAnnotation, ReconcileRootUser,
       PatchRootAnnotations, FinishSync, UpdateNdbClusterStatus, caches
  <1>2. CASE ~SyncStep
    BY <1>2 DEF Next, SyncBegin, Informers, DeliverNdbCluster, Resync, DeliverConfigMap,
       DeliverStatefulSets, DeliverPods, Kubernetes, ObserveStatefulSet, PodsBecomeReady,
       UpdateSpec, StepFails, CreateNodeGroupFails, StatusUpdateFails, RelistStatefulSets,
       OperatorRestart, PodDisrupted, caches, vars
  <1>. QED
    BY <1>1, <1>2

\* A claim is passed on, or is that of a sync that ends with success.
LEMMA ClaimMoves ==
    ASSUME IndInv, [Next]_vars, NEW p \in Claims'
    PROVE  p \in Claims \/ p = 0 \/ (sc.success /\ pc = "status" /\ p = sc.nc.gen)
  <1>1. \/ nc'.status.proc \in Claims
        \/ sc.success /\ pc = "status" /\ nc'.status.proc = sc.nc.gen
    <2>1. CASE UpdateSpec
      BY <2>1 DEF UpdateSpec, Claims, IndInv, TypeOK, NdbClusters
    <2>2. CASE UpdateNdbClusterStatus
      <3>1. pc = "status" /\ (nc' = nc \/ nc' = [nc EXCEPT !.status = calculateNdbClusterStatus])
        BY <2>2 DEF UpdateNdbClusterStatus
      <3>2. calculateNdbClusterStatus.proc = IF sc.success THEN sc.nc.gen ELSE sc.nc.status.proc
        BY DEF calculateNdbClusterStatus
      <3>3. nc' = nc \/ nc'.status.proc = IF sc.success THEN sc.nc.gen ELSE sc.nc.status.proc
        BY <3>1, <3>2 DEF IndInv, TypeOK, NdbClusters
      <3>. QED
        BY <3>1, <3>3 DEF Claims
    <2>3. CASE ~UpdateSpec /\ ~UpdateNdbClusterStatus
      BY <2>3, Unspecified DEF Claims
    <2>. QED
      BY <2>1, <2>2, <2>3
  <1>2. ncCache'.status.proc \in Claims
    <2>1. ncCache' \in {ncCache, nc}
      BY CacheMoves
    <2>. QED
      BY <2>1 DEF Claims
  <1>3. sc'.nc.status.proc \in Claims \cup {0}
    <2>1. NoSync.nc.status.proc = 0
      BY DEF NoSync, NoStatus
    <2>2. Begun => sc'.nc = ncCache
      BY DEF Begun, NoSync
    <2>. QED
      BY <2>1, <2>2, SyncControl DEF Ended, GoesOn, Ignored, Claims
  <1>. QED
    BY <1>1, <1>2, <1>3 DEF Claims

\* No claim is ahead of the sync at hand.
LEMMA ClaimsBehind ==
    ASSUME IndInv, NEW p \in Claims
    PROVE  p \in Nat /\ p <= Level
  <1>1. /\ p \in Nat /\ p <= sf["mgmd"].gen /\ sf["mgmd"].gen <= cm.gen
        /\ sf["mgmd"].gen \in Nat
    BY Numbers DEF IndInv, Copies, Flow, Workloads, Claims
  <1>2. cm.gen <= Level /\ Level \in Nat
    BY Numbers DEF IndInv, Flow, SyncFlow, Level
  <1>. QED
    BY <1>1, <1>2, Numbers

\* Only reconcileRootUser changes the root users, to the sync's host.
LEMMA RootsMove ==
    ASSUME IndInv, [Next]_vars
    PROVE  \/ ndb'.roots = ndb.roots
           \/ ReconcileRootUser /\ Host(Level) \in ndb'.roots
  <1>1. ndb \in [groups : Nat, spread : Nat, roots : SUBSET Nat]
    BY DEF IndInv, TypeOK
  <1>2. CASE ReconcileRootUser
    <2>1. pc = "root"
      BY <1>2 DEF ReconcileRootUser
    <2> DEFINE h == specs[sc.nc.gen].host
    <2>2. \/ ndb' = ndb
          \/ ndb' = [ndb EXCEPT !.roots = ndb.roots \cup {h}, !.spread = ndb.spread]
          \/ ndb' = [ndb EXCEPT !.roots = (ndb.roots \ {sc.sf["mysqld"].host}) \cup {h},
                                !.spread = ndb.spread]
      BY <1>2 DEF ReconcileRootUser, SQLFails, SQLRuns
    <2>3. ndb' = ndb \/ h \in ndb'.roots
      BY <1>1, <2>2
    <2>4. h = Host(Level)
      BY <2>1 DEF Host, Level
    <2>. QED
      BY <1>2, <2>3, <2>4
  <1>3. CASE PodsBecomeReady("mgmd") \/ PodsBecomeReady("ndbmtd") \/ PodsBecomeReady("mysqld")
             \/ CreateNodeGroups \/ CreateNodeGroupFails \/ ReorgNdbTables
    <2>1. \/ ndb' = ndb
          \/ \E g, r : ndb' = [ndb EXCEPT !.groups = g, !.spread = r]
          \/ \E g : ndb' = [ndb EXCEPT !.groups = g]
          \/ \E r : ndb' = [ndb EXCEPT !.roots = ndb.roots, !.spread = r]
      BY <1>3 DEF PodsBecomeReady, CreateNodeGroups, CreateNodeGroupFails, ReorgNdbTables,
         SQLFails, SQLRuns
    <2>. QED
      BY <1>1, <2>1
  <1>4. CASE SyncStep /\ ~ReconcileRootUser /\ ~CreateNodeGroups /\ ~ReorgNdbTables
    BY <1>4 DEF SyncStep, EnsureConfigMap, PatchConfigMapOnError, PatchConfigMap,
           EnsureManagementServerStatefulSet, EnsureDataNodeStatefulSet, EnsureStatefulSet,
           DeletePodOnStsUpdate, ValidateMySQLServerStatefulSet, HandleScaleDown,
           ReconcileManagementNodeStatefulSet, ReconcileDataNodeStatefulSet,
           EnsureDataNodePodVersion, ReconcileMySQLServerStatefulSet, StartNewDataNodes,
           RemoveAddNodeAnnotation, PatchRootAnnotations, FinishSync, UpdateNdbClusterStatus, cluster
  <1>5. CASE Kubernetes
    BY <1>3, <1>5 DEF Kubernetes, ObserveStatefulSet, Workloads
  <1>6. CASE ~SyncStep /\ ~Kubernetes /\ ~CreateNodeGroupFails
    BY <1>6 DEF Next, SyncBegin, Informers, DeliverNdbCluster, Resync, DeliverConfigMap,
           DeliverStatefulSets, DeliverPods, UpdateSpec, StepFails, StatusUpdateFails,
           RelistStatefulSets, OperatorRestart, PodDisrupted, cluster, vars
  <1>. QED
    BY <1>2, <1>3, <1>4, <1>5, <1>6

\* The annotations are kept or dropped, or say what rootpatch has to say.
LEMMA MarkMoves ==
    ASSUME IndInv, [Next]_vars
    PROVE  LET s == sf["mysqld"]
           IN /\ s'.root \in {s.root, 0} \/ (pc = "rootpatch" /\ s'.root = sc.cs.gen)
              /\ s'.host \in {s.host, 0} \/ (pc = "rootpatch" /\ s'.host = specs[sc.nc.gen].host)
  <1>1. "mysqld" \in Workloads
    BY DEF Workloads
  <1>2. CASE Kept("mysqld")
    BY <1>2 DEF Kept, Observed, Readied, Disturbed, Written
  <1>3. CASE Created("mysqld")
    BY <1>1, <1>3, CreatedFields
  <1>4. CASE Repatched("mysqld")
    <2>1. PICK old \in {sfCache["mysqld"], sc.sf["mysqld"]}, new \in Sfsets :
              Wanted("mysqld", old, new) /\ sf'["mysqld"] = Patched("mysqld", old, new)
      BY <1>4 DEF Repatched
    <2>2. old \in Sfsets
      BY <1>1, <1>4, RepatchFacts
    <2>3. /\ sf'["mysqld"].root = Merge(sf["mysqld"].root, old.root, new.root)
          /\ sf'["mysqld"].host = Merge(sf["mysqld"].host, old.host, new.host)
      BY <1>1, <1>4, <2>1, <2>2, RepatchFacts, PatchedFields
    <2>4. CASE new = UpdatedStatefulSet("mysqld", old, sc.cs, sc.nc)
      <3>1. new.root = 0 /\ new.host = 0
        BY <1>1, <1>4, <2>2, <2>4, RepatchFacts, UpdatedFields
      <3>. QED
        BY <2>3, <3>1 DEF Merge
    <2>5. CASE new.root = old.root /\ new.host = old.host
      BY <2>3, <2>5 DEF Merge
    <2>6. CASE pc = "rootpatch" /\ new.root = sc.cs.gen /\ new.host = specs[sc.nc.gen].host
      BY <2>3, <2>6 DEF Merge
    <2>7. \/ new = UpdatedStatefulSet("mysqld", old, sc.cs, sc.nc)
          \/ new.root = old.root /\ new.host = old.host
          \/ pc = "rootpatch" /\ new.root = sc.cs.gen /\ new.host = specs[sc.nc.gen].host
      BY <2>1, <2>2 DEF Wanted, Sfsets
    <2>. QED
      BY <2>4, <2>5, <2>6, <2>7
  <1>. QED
    BY <1>1, <1>2, <1>3, <1>4, Writes

\* No update brings a host back.
NewHosts == \A c \in Changes : "oldhost" \notin c

\* Hosts keep growing.
LEMMA HostsStep ==
    ASSUME NewHosts, IndInv, HostsGrow, [Next]_vars
    PROVE  HostsGrow'
  <1>1. /\ nc.gen \in Gens /\ nc'.gen \in Gens /\ nc.gen <= nc'.gen
        /\ \A g \in Gens : g <= nc.gen => specs'[g] = specs[g]
    BY LevelGrows
  <1>2. \A g \in Gens : g \in Nat
    BY ConstantsAssumption DEF Gens
  <1>3. nc.gen \in Nat /\ nc.gen <= nc.gen
    BY <1>1, <1>2
  <1>4. /\ \A g \in Gens : g <= nc.gen => specs'[g].host = Host(g) /\ Host(g) >= 1
        /\ \A g, h \in Gens : g <= h /\ h <= nc.gen => Host(g) <= Host(h)
    BY <1>1 DEF HostsGrow, Host
  <1>5. \A g, h \in Gens : g <= h /\ h <= nc.gen => g <= nc.gen
    BY <1>2, <1>3
  <1>6. \A g, h \in Gens : g <= h /\ h <= nc.gen => specs'[g].host <= specs'[h].host
    BY <1>4, <1>5
  <1>7. CASE nc'.gen = nc.gen
    BY <1>4, <1>6, <1>7 DEF HostsGrow, Host
  <1>8. CASE UpdateSpec
    <2>1. nc'.gen = nc.gen + 1
      BY <1>8 DEF UpdateSpec, IndInv, TypeOK, NdbClusters
    <2>2. PICK c \in Changes, b \in SUBSET MayFail :
              specs' = [specs EXCEPT ![nc.gen + 1] = Changed(specs[nc.gen], c, b)]
      BY <1>8 DEF UpdateSpec
    <2>3. specs \in [Gens -> SpecContent] /\ Host(nc.gen) \in Nat
      BY <1>1 DEF IndInv, TypeOK, SpecContent, Host
    <2>4. specs'[nc.gen + 1] = Changed(specs[nc.gen], c, b)
      BY <1>1, <2>1, <2>2, <2>3
    <2>5. Changed(specs[nc.gen], c, b).host \in {specs[nc.gen].host, specs[nc.gen].host + 1}
      BY DEF Changed, NewHosts
    <2>6. specs'[nc'.gen].host \in {Host(nc.gen), Host(nc.gen) + 1}
      BY <2>1, <2>4, <2>5 DEF Host
    <2>7. \A g \in Gens : g <= nc'.gen => g <= nc.gen \/ g = nc'.gen
      BY <1>2, <1>3, <2>1
    <2>8. Host(nc.gen) >= 1 /\ specs'[nc'.gen].host >= Host(nc.gen) /\ specs'[nc'.gen].host >= 1
          /\ specs'[nc'.gen].host \in Nat
      BY <1>1, <1>3, <1>4, <2>3, <2>6
    <2>9. \A g \in Gens : g <= nc'.gen => specs'[g].host >= 1
      BY <1>4, <2>7, <2>8
    <2>10. \A g \in Gens : g <= nc.gen => specs'[g].host <= specs'[nc'.gen].host
      <3>1. \A g \in Gens : Host(g) \in Nat
        BY <2>3 DEF SpecContent, Host
      <3>2. \A g \in Gens : g <= nc.gen => specs'[g].host = Host(g) /\ Host(g) <= Host(nc.gen)
        BY <1>1, <1>3, <1>4
      <3>. QED
        BY <2>3, <2>8, <3>1, <3>2
    <2>11. ASSUME NEW g \in Gens, NEW h \in Gens, g <= h, h <= nc'.gen
           PROVE  specs'[g].host <= specs'[h].host
      <3>1. CASE h <= nc.gen
        BY <1>6, <2>11, <3>1
      <3>2. CASE h = nc'.gen
        <4>1. g <= nc.gen \/ g = nc'.gen
          BY <2>7, <2>11, <3>2
        <4>. QED
          BY <2>8, <2>10, <3>2, <4>1
      <3>. QED
        BY <2>7, <2>11, <3>1, <3>2
    <2>. QED
      BY <2>9, <2>11 DEF HostsGrow, Host
  <1>9. CASE ~UpdateSpec /\ UpdateNdbClusterStatus
    <2>1. nc'.gen = nc.gen
      BY <1>9 DEF UpdateNdbClusterStatus, IndInv, TypeOK, NdbClusters
    <2>. QED
      BY <1>7, <2>1
  <1>10. CASE ~UpdateSpec /\ ~UpdateNdbClusterStatus
    BY <1>7, <1>10, Unspecified
  <1>. QED
    BY <1>8, <1>9, <1>10

\* What holds of the sync at hand goes on to hold as the level rises: a mark
\* or a claim that was not ahead of the old level meets the new one only if
\* the host is the same.
LEMMA RootStep ==
    ASSUME NewHosts, IndInv, RootInv, [Next]_vars
    PROVE  RootInv'
  <1>1. IndInv' /\ HostsGrow'
    BY NextInv, HostsStep DEF RootInv
  <1>2. /\ Level \in Gens /\ Level' \in Gens /\ Level <= Level' /\ Level <= nc.gen /\ Level' <= nc'.gen
        /\ Level \in Nat /\ Level' \in Nat /\ Level > 0
        /\ Level <= nc'.gen
    <2>1. /\ Level \in Gens /\ Level' \in Gens /\ Level <= Level' /\ Level <= nc.gen /\ Level' <= nc'.gen
          /\ nc.gen \in Gens /\ nc'.gen \in Gens /\ nc.gen <= nc'.gen
      BY LevelGrows
    <2>2. \A g \in Gens : g \in Nat /\ g > 0
      BY ConstantsAssumption DEF Gens
    <2>. QED
      BY <2>1, <2>2
  <1> DEFINE H == Host(Level)
             H2 == Host(Level)'
  <1>3. H \in Nat /\ H >= 1 /\ H2 \in Nat /\ H2 >= H
    <2>1. specs'[Level] = specs[Level]
      BY <1>2, LevelGrows
    <2>2. specs'[Level].host <= specs'[Level'].host
      BY <1>1, <1>2 DEF HostsGrow, Host
    <2>3. specs \in [Gens -> SpecContent] /\ specs' \in [Gens -> SpecContent]
      BY <1>1 DEF IndInv, TypeOK
    <2>4. H \in Nat /\ H2 \in Nat
      BY <1>2, <2>3 DEF Host, SpecContent
    <2>5. H >= 1
      BY <1>2 DEF RootInv, HostsGrow
    <2>. QED
      BY <2>1, <2>2, <2>4, <2>5 DEF Host
  <1>4. Rooted => H \in ndb'.roots
    BY RootsMove DEF Rooted
  <1>5. H2 = H /\ H \in ndb'.roots => Rooted'
    BY DEF Rooted
  <1>6. pc # "idle" => Level = sc.nc.gen
    BY DEF Level
  <1> HIDE DEF H, H2
  <1>7. \A s \in Views("mysqld") : /\ s.root \in Nat /\ s.host \in Nat /\ s.root <= Level /\ s.host <= H
                                   /\ s.root = Level \/ s.host = H => H \in ndb'.roots
    <2>1. \A s \in Views("mysqld") : s.root \in Nat /\ s.host \in Nat
      BY ConstantsAssumption DEF Views, IndInv, TypeOK, Sfsets, Workloads
    <2>. QED
      BY <1>4, <2>1 DEF RootInv, RootMarks, H
  <1>8. /\ sf'["mysqld"].root \in Nat /\ sf'["mysqld"].host \in Nat
        /\ sf'["mysqld"].root <= Level /\ sf'["mysqld"].host <= H
        /\ sf'["mysqld"].root = Level \/ sf'["mysqld"].host = H => H \in ndb'.roots
    <2> DEFINE s == sf["mysqld"]
               t == sf'["mysqld"]
    <2>1. /\ t.root \in {s.root, 0} \/ (pc = "rootpatch" /\ t.root = sc.cs.gen)
          /\ t.host \in {s.host, 0} \/ (pc = "rootpatch" /\ t.host = specs[sc.nc.gen].host)
      BY MarkMoves
    <2>2. s \in Views("mysqld")
      BY DEF Views
    <2>3. pc = "rootpatch" => /\ H \in ndb'.roots /\ sc.cs.gen <= Level /\ sc.cs.gen \in Nat
                              /\ specs[sc.nc.gen].host = H
      <3>1. pc = "rootpatch" => pc \in Configured /\ pc # "idle"
        BY DEF Configured, Steps
      <3>2. pc = "rootpatch" => sc.cs.gen <= cm.gen /\ cm.gen <= sc.nc.gen
        BY <3>1 DEF IndInv, SyncFlow
      <3>. QED
        BY <1>4, <1>6, <3>1, <3>2, Numbers DEF RootInv, RootFlow, H, Host
    <2> HIDE DEF s, t
    <2>4. /\ t.root \in Nat /\ t.host \in Nat /\ t.root <= Level /\ t.host <= H
          /\ t.root = Level \/ t.host = H => H \in ndb'.roots
      BY <1>2, <1>3, <1>7, <2>1, <2>2, <2>3
    <2>. QED
      BY <2>4 DEF t
  <1>9. RootMarks'
    <2> SUFFICES ASSUME NEW s \in Views("mysqld")'
                 PROVE  s.root <= Level' /\ s.host <= H2 /\ (s.root = Level' \/ s.host = H2 => Rooted')
      BY DEF RootMarks, H2
    <2>1. s \in Views("mysqld") \cup {sf'["mysqld"], NoSfset}
      BY CopyMoves DEF Views, Workloads
    <2>2. NoSfset.root = 0 /\ NoSfset.host = 0
      BY DEF NoSfset
    <2>3. /\ s.root \in Nat /\ s.host \in Nat /\ s.root <= Level /\ s.host <= H
          /\ s.root = Level \/ s.host = H => H \in ndb'.roots
      BY <1>2, <1>3, <1>7, <1>8, <2>1, <2>2
    <2>4. s.root = Level' => Level' = Level
      BY <1>2, <2>3
    <2>5. Level' = Level => H2 = H
      BY <1>2, LevelGrows DEF H, H2, Host
    <2>. QED
      BY <1>2, <1>3, <1>5, <2>3, <2>4, <2>5
  <1>10. RootClaims'
    <2> SUFFICES ASSUME NEW p \in Claims', p = Level'
                 PROVE  Rooted'
      BY DEF RootClaims
    <2>1. p \in Claims \/ p = 0 \/ (sc.success /\ pc = "status" /\ p = sc.nc.gen)
      BY ClaimMoves
    <2>2. p <= Level
      <3>1. CASE p \in Claims
        BY <3>1, ClaimsBehind
      <3>2. CASE p = 0
        BY <1>2, <3>2
      <3>3. CASE pc = "status" /\ p = sc.nc.gen
        BY <1>2, <1>6, <3>3
      <3>. QED
        BY <2>1, <3>1, <3>2, <3>3
    <2>3. Level' = Level /\ p = Level
      BY <1>2, <2>2
    <2>4. Rooted
      <3>1. CASE p \in Claims
        BY <2>3, <3>1 DEF RootInv, RootClaims
      <3>2. CASE sc.success /\ pc = "status" /\ p = sc.nc.gen
        <4>1. sc.cs.gen = sc.nc.gen
          BY <3>2 DEF IndInv, Progress
        <4>. QED
          BY <3>2, <4>1 DEF RootInv, RootFlow
      <3>. QED
        BY <1>2, <2>1, <2>3, <3>1, <3>2
    <2>5. H2 = H
      BY <1>2, <2>3, LevelGrows DEF H, H2, Host
    <2>. QED
      BY <1>4, <1>5, <2>4, <2>5
  <1>11. RootFlow'
    <2> SUFFICES ASSUME \/ pc' = "rootpatch"
                        \/ (pc' = "cmpatch" \/ sc'.success) /\ sc'.cs.gen = sc'.nc.gen
                 PROVE  Rooted'
      BY DEF RootFlow
    <2>0. NoSync.success = FALSE
      BY DEF NoSync
    <2>1. CASE pc' = pc /\ sc' = sc
      <3>1. Rooted
        BY <2>1 DEF RootInv, RootFlow
      <3>2. pc # "idle"
        BY <2>1 DEF IndInv, Progress
      <3>3. Level' = Level
        BY <2>1, <3>2 DEF Level
      <3>4. H2 = H
        BY <1>2, <3>3, LevelGrows DEF H, H2, Host
      <3>. QED
        BY <1>4, <1>5, <3>1, <3>4
    <2>2. CASE pc' = "idle"
      <3>1. sc'.success /\ pc' = "status"
        BY <1>1, <2>2 DEF IndInv, Progress
      <3>. QED
        BY <2>2, <3>1
    <2>3. CASE SyncBegin
      BY <2>0, <2>3 DEF SyncBegin, Goto, NoSync
    <2>4. CASE SyncStep /\ pc \in Steps /\ pc' \in Following[pc]
      <3>1. pc # "idle" /\ (pc' # "idle" => sc'.nc = sc.nc /\ (pc # "config" => sc'.cs = sc.cs))
        BY <2>0, <2>4, SyncControl DEF Ended, Begun, GoesOn, Ignored, Steps
      <3>2. sc'.success => pc' = "status"
        BY <1>1 DEF IndInv, Progress
      <3>3. sc'.success => sc.success \/ FinishSync
        BY <2>0, <2>4 DEF SyncStep, EnsureConfigMap, PatchConfigMapOnError, PatchConfigMap,
           EnsureManagementServerStatefulSet, EnsureDataNodeStatefulSet, EnsureStatefulSet,
           DeletePodOnStsUpdate, ValidateMySQLServerStatefulSet, HandleScaleDown,
           ReconcileManagementNodeStatefulSet, ReconcileDataNodeStatefulSet,
           EnsureDataNodePodVersion, ReconcileMySQLServerStatefulSet, StartNewDataNodes,
           CreateNodeGroups, ReorgNdbTables, RemoveAddNodeAnnotation, ReconcileRootUser, SQLFails,
           SQLRuns, FailSync, PatchRootAnnotations, UpdateNdbClusterStatus, IndInv, TypeOK
      <3>4. ASSUME H \in ndb'.roots, pc' # "idle"
            PROVE  Rooted'
        <4>1. Level' = Level
          BY <3>1, <3>4 DEF Level
        <4>. QED
          BY <1>2, <1>5, <3>4, <4>1, LevelGrows DEF H, H2, Host
      <3>5. CASE pc = "root"
        <4>1. ReconcileRootUser /\ pc' # "status"
          BY <2>4, <3>5, ActionAt DEF Following
        <4> DEFINE s == sc.sf["mysqld"]
        <4>2. s \in Views("mysqld")
          BY DEF Views
        <4>3. H = specs[sc.nc.gen].host
          BY <1>6, <3>5 DEF H, Host
        <4>4. pc' # "idle"
          BY <2>2, <3>2, <4>1
        <4>5. CASE s.root = sc.cs.gen /\ pc' = "cmpatch"
          BY <1>6, <1>7, <3>1, <3>4, <3>5, <4>1, <4>2, <4>4, <4>5
        <4>6. CASE s.host = specs[sc.nc.gen].host
          BY <1>7, <3>4, <4>2, <4>3, <4>4, <4>6
        <4>7. ndb \in [groups : Nat, spread : Nat, roots : SUBSET Nat]
          BY DEF IndInv, TypeOK
        <4>8. \/ s.root = sc.cs.gen /\ pc' = "cmpatch"
              \/ s.host = specs[sc.nc.gen].host
              \/ SQLRuns(ndb.roots \cup {specs[sc.nc.gen].host}, ndb.spread)
              \/ SQLRuns((ndb.roots \ {s.host}) \cup {specs[sc.nc.gen].host}, ndb.spread)
          BY <4>1, <4>4 DEF ReconcileRootUser, SQLFails, FailSync, Goto, RootUserUpToDate
        <4>9. CASE SQLRuns(ndb.roots \cup {specs[sc.nc.gen].host}, ndb.spread)
          <5>1. ndb' = [ndb EXCEPT !.roots = ndb.roots \cup {specs[sc.nc.gen].host}, !.spread = ndb.spread]
            BY <4>9 DEF SQLRuns
          <5>2. H \in ndb'.roots
            BY <4>3, <4>7, <5>1
          <5>. QED
            BY <3>4, <4>4, <5>2
        <4>10. CASE SQLRuns((ndb.roots \ {s.host}) \cup {specs[sc.nc.gen].host}, ndb.spread)
          <5>1. ndb' = [ndb EXCEPT !.roots = (ndb.roots \ {s.host}) \cup {specs[sc.nc.gen].host}, !.spread = ndb.spread]
            BY <4>10 DEF SQLRuns
          <5>2. H \in ndb'.roots
            BY <4>3, <4>7, <5>1
          <5>. QED
            BY <3>4, <4>4, <5>2
        <4>. QED
          BY <4>5, <4>6, <4>8, <4>9, <4>10
      <3>6. CASE pc = "rootpatch" \/ pc = "cmpatch"
        <4>1. pc # "config" /\ pc' # "idle"
          BY <2>2, <3>2, <3>6
        <4>2. pc' # "rootpatch"
          BY <2>4, <3>6 DEF Following
        <4>3. Rooted
          BY <3>1, <3>6, <4>1, <4>2 DEF RootInv, RootFlow
        <4>. QED
          BY <1>4, <3>4, <4>1, <4>3
      <3>7. pc \in {"root", "rootpatch", "cmpatch"}
        <4>1. ~sc.success
          BY <2>4 DEF IndInv, Progress, Following
        <4>2. CASE FinishSync
          BY <4>2 DEF FinishSync
        <4>3. CASE pc' \in {"rootpatch", "cmpatch"}
          BY <2>4, <4>3 DEF Following, Steps
        <4>. QED
          BY <3>3, <4>1, <4>2, <4>3
      <3>. QED
        BY <3>5, <3>6, <3>7
    <2>. QED
      BY <2>1, <2>2, <2>3, <2>4, Control
  <1>. QED
    BY <1>1, <1>9, <1>10, <1>11 DEF RootInv

\* At first nobody has asked for a root user.
LEMMA RootInit == Init => RootInv
  <1> SUFFICES ASSUME Init PROVE RootInv
    OBVIOUS
  <1>1. \A g \in Gens : Host(g) = 1
    BY DEF Init, FirstSpec, Host
  <1>2. Level = 1 /\ nc.gen = 1 /\ 1 \in Gens
    BY ConstantsAssumption DEF Init, Level, Gens
  <1>3. \A s \in Views("mysqld") : s.root = 0 /\ s.host = 0
    BY DEF Init, Views, NoSfset, NoSync, Workloads
  <1>4. \A p \in Claims : p = 0
    BY DEF Init, Claims, NoStatus, NoSync
  <1>5. HostsGrow
    BY <1>1 DEF HostsGrow
  <1>6. RootMarks
    BY <1>1, <1>2, <1>3 DEF RootMarks
  <1>7. RootClaims /\ RootFlow
    BY <1>2, <1>4 DEF RootClaims, RootFlow, Init, NoSync
  <1>. QED
    BY <1>5, <1>6, <1>7 DEF RootInv

\* As long as no update brings an earlier host back, root can connect from
\* the spec's rootHost once the current generation is processed, with faults
\* and with copies of any age (reconcileRootUser).
THEOREM RootConnects ==
    ASSUME NewHosts
    PROVE  Spec => []RootCanConnect
  <1>1. Init => RootInv
    BY RootInit
  <1>2. IndInv /\ RootInv /\ [Next]_vars => RootInv'
    BY RootStep
  <1>3. IndInv /\ RootInv => RootCanConnect
    <2> SUFFICES ASSUME IndInv, RootInv, nc.status.proc = nc.gen
                 PROVE  specs[nc.gen].host \in ndb.roots
      BY DEF RootCanConnect
    <2>1. nc.status.proc \in Claims
      BY DEF Claims
    <2>2. nc.gen <= Level /\ Level <= nc.gen /\ Level \in Nat /\ nc.gen \in Nat
      BY <2>1, ClaimsBehind, Numbers DEF IndInv, Flow, SyncFlow, Level
    <2>3. Level = nc.gen
      BY <2>2
    <2>. QED
      BY <2>1, <2>3 DEF RootInv, RootClaims, Rooted, Host
  <1>. QED
    BY <1>1, <1>2, <1>3, Invariance, PTL DEF Spec

-----------------------------------------------------------------------------
(* Updates that meet no error *)

\* A StatefulSet, or a copy of it, exists iff it has a config.
Existence ==
    \A w \in Workloads : \A s \in Views(w) :
        /\ s.gen \in Gens <=> Exists(s)
        /\ Exists(s) \/ s.reps = 0

\* What a step leaves in a StatefulSet and in the copies of it.
LEMMA ViewMoves ==
    ASSUME IndInv, [Next]_vars, NEW w \in Workloads, NEW s \in Views(w)'
    PROVE  s \in Views(w) \cup {sf'[w], NoSfset}
  BY CopyMoves DEF Views

\* A StatefulSet is created with a config, and keeps one.
LEMMA ExistenceStep ==
    ASSUME IndInv, Existence, [Next]_vars
    PROVE  Existence'
  <1> SUFFICES ASSUME NEW w \in Workloads, NEW s \in Views(w)'
               PROVE  (s.gen \in Gens <=> Exists(s)) /\ (Exists(s) \/ s.reps = 0)
    BY DEF Existence, Exists
  <1>1. CASE s \in Views(w)
    BY <1>1 DEF Existence
  <1>2. CASE s = NoSfset
    BY <1>2, ConstantsAssumption DEF NoSfset, Gens, Exists
  <1>3. CASE s = sf'[w]
    <2>1. (sf[w].gen \in Gens <=> Exists(sf[w])) /\ (Exists(sf[w]) \/ sf[w].reps = 0)
      BY DEF Existence, Views
    <2>2. CASE Kept(w)
      BY <1>3, <2>1, <2>2 DEF Kept, Observed, Readied, Disturbed, Written, Exists
    <2>3. CASE Created(w)
      BY <1>3, <2>3, CreatedFields DEF Exists
    <2>4. CASE Repatched(w)
      <3>1. PICK old \in {sfCache[w], sc.sf[w]}, new \in Sfsets : sf'[w] = Patched(w, old, new)
        BY <2>4 DEF Repatched
      <3>2. sf'[w] \in Sfsets /\ (sf'[w].spec = sf[w].spec \/ sf'[w].spec = sf[w].spec + 1)
        BY <2>4, <3>1, RepatchFacts, PatchedFields
      <3>3. sf[w].spec \in Nat /\ sf[w].spec # 0 /\ sf[w].gen \in Nat /\ sf[w].gen # 0
        <4>1. Exists(sf[w]) /\ sf[w].gen \in Gens
          BY <2>1, <2>4 DEF Repatched
        <4>2. sf[w].spec \in Nat
          BY <2>4, RepatchFacts DEF Sfsets
        <4>. QED
          BY <4>1, <4>2, ConstantsAssumption DEF Exists, Gens
      <3>4. sf'[w].gen >= sf[w].gen
        BY NextInv DEF Forward
      <3>5. sf'[w].gen \in 0..MaxGen
        BY <3>2 DEF Sfsets
      <3>6. sf'[w].gen \in Gens
        BY <3>3, <3>4, <3>5, ConstantsAssumption DEF Gens
      <3>7. sf'[w].spec # 0
        BY <3>2, <3>3
      <3>. QED
        BY <1>3, <3>6, <3>7 DEF Exists
    <2>. QED
      BY <2>2, <2>3, <2>4, Writes
  <1>. QED
    BY <1>1, <1>2, <1>3, ViewMoves

\* There are no StatefulSets and no copies of them in the first state.
LEMMA ExistenceInit == Init => Existence
  BY ConstantsAssumption DEF Init, Existence, Views, NoSfset, NoSync, Exists, Gens

\* No spec is erroneous, so that no pod fails and no sync meets an error.
NoErrors ==
    /\ \A g \in Gens : specs[g].bad = {}
    /\ \A w \in Workloads : ~sf[w].bad
    /\ ~errCache
    /\ \A n \in {nc, ncCache, sc.nc} : ~HasSyncError(n)
    /\ pc # "errorpatch"

\* Only erroneous specs make errors.
LEMMA NoErrorsStep ==
    ASSUME MayFail = {}, IndInv, Origins, Existence, NoErrors, [Next]_vars
    PROVE  NoErrors'
  <1>1. \A g \in Gens : specs'[g].bad = {}
    <2>1. CASE UpdateSpec
      <3>1. PICK c \in Changes, b \in SUBSET MayFail :
                specs' = [specs EXCEPT ![nc.gen + 1] = Changed(specs[nc.gen], c, b)]
        BY <2>1 DEF UpdateSpec
      <3>2. specs \in [Gens -> SpecContent] /\ nc.gen \in Gens
        BY DEF IndInv, TypeOK, Flow
      <3>3. Changed(specs[nc.gen], c, b).bad = {}
        BY <3>2 DEF Changed, NoErrors
      <3>. QED
        BY <3>1, <3>2, <3>3 DEF NoErrors
    <2>2. CASE ~UpdateSpec
      BY <2>2, Unspecified DEF NoErrors
    <2>. QED
      BY <2>1, <2>2
  <1>2. ASSUME NEW w \in Workloads
        PROVE  ~sf'[w].bad
    <2>1. ~sf[w].bad
      BY DEF NoErrors
    <2>2. CASE Kept(w)
      <3>1. sf[w].gen \in Gens => ~Erroneous(w, sf[w])
        <4>1. sf[w].gen <= sf[w].from /\ sf[w].gen \in Nat /\ sf[w].from \in 0..MaxGen
          BY Numbers DEF Origins, IndInv, TypeOK, Sfsets
        <4>2. sf[w].gen \in Gens => sf[w].from \in Gens
          BY <4>1, ConstantsAssumption DEF Gens
        <4>. QED
          BY <4>2 DEF Erroneous, NoErrors
      <3>2. Exists(sf[w]) => sf[w].gen \in Gens
        BY DEF Existence, Views
      <3>. QED
        BY <2>1, <2>2, <3>1, <3>2 DEF Kept, Observed, Readied, Disturbed
    <2>3. CASE Created(w)
      BY <2>3 DEF Created, NewStatefulSet, NoSfset
    <2>4. CASE Repatched(w)
      <3>1. PICK old \in {sfCache[w], sc.sf[w]}, new \in Sfsets : sf'[w] = Patched(w, old, new)
        BY <2>4 DEF Repatched
      <3>. QED
        BY <2>1, <2>4, <3>1, RepatchFacts, PatchedFields
    <2>. QED
      BY <2>2, <2>3, <2>4, Writes
  <1>3. ~errCache'
    <2>1. errCache' = errCache \/ errCache' = PodErrors
      <3>1. CASE SyncStep
        BY <3>1 DEF SyncStep, EnsureConfigMap, PatchConfigMapOnError, PatchConfigMap,
           EnsureManagementServerStatefulSet, EnsureDataNodeStatefulSet, EnsureStatefulSet,
           DeletePodOnStsUpdate, ValidateMySQLServerStatefulSet, HandleScaleDown,
           ReconcileManagementNodeStatefulSet, ReconcileDataNodeStatefulSet,
           EnsureDataNodePodVersion, ReconcileMySQLServerStatefulSet, StartNewDataNodes,
           CreateNodeGroups, ReorgNdbTables, RemoveAddNodeAnnotation, ReconcileRootUser,
           PatchRootAnnotations, FinishSync, UpdateNdbClusterStatus, caches
      <3>2. CASE ~SyncStep
        BY <3>2 DEF Next, SyncBegin, Informers, DeliverNdbCluster, Resync, DeliverConfigMap,
           DeliverStatefulSets, DeliverPods, Kubernetes, ObserveStatefulSet, PodsBecomeReady,
           UpdateSpec, StepFails, CreateNodeGroupFails, StatusUpdateFails, RelistStatefulSets,
           OperatorRestart, PodDisrupted, caches, vars
      <3>. QED
        BY <3>1, <3>2
    <2>. QED
      BY <2>1 DEF NoErrors, PodErrors
  <1>4. \A n \in {nc', ncCache', sc'.nc} : ~HasSyncError(n)
    <2>1. ~HasSyncError(nc')
      <3>1. CASE UpdateSpec
        BY <3>1 DEF UpdateSpec, NoErrors, HasSyncError, IndInv, TypeOK, NdbClusters
      <3>2. CASE UpdateNdbClusterStatus
        <4>1. nc' = nc \/ nc' = [nc EXCEPT !.status = calculateNdbClusterStatus]
          BY <3>2 DEF UpdateNdbClusterStatus
        <4>2. calculateNdbClusterStatus.reason # "SyncError"
          BY DEF calculateNdbClusterStatus, NoErrors, IndInv, TypeOK
        <4>. QED
          BY <4>1, <4>2 DEF NoErrors, HasSyncError, IndInv, TypeOK, NdbClusters
      <3>3. CASE ~UpdateSpec /\ ~UpdateNdbClusterStatus
        BY <3>3, Unspecified DEF NoErrors
      <3>. QED
        BY <3>1, <3>2, <3>3
    <2>2. ncCache' \in {ncCache, nc}
      BY CacheMoves
    <2>3. sc'.nc \in {sc.nc, ncCache, NoSync.nc}
      <3>1. Begun => sc'.nc = ncCache
        BY DEF Begun, NoSync
      <3>. QED
        BY <3>1, SyncControl DEF Ended, GoesOn, Ignored
    <2>4. ~HasSyncError(NoSync.nc)
      BY DEF NoSync, NoStatus, HasSyncError
    <2>. QED
      BY <2>1, <2>2, <2>3, <2>4 DEF NoErrors
  <1>5. pc' # "errorpatch"
    <2>1. pc' = "errorpatch" => pc \in {"config", "errorpatch"}
      BY Control DEF Following, Steps, SyncBegin, Goto
    <2>2. CASE pc = "config" /\ SyncStep
      <3>1. EnsureConfigMap
        BY <2>2, ActionAt
      <3>. QED
        BY <3>1 DEF EnsureConfigMap, Goto, FailSync, NoErrors
    <2>. QED
      BY <2>1, <2>2, Control DEF NoErrors, SyncBegin, Goto
  <1>. QED
    BY <1>1, <1>2, <1>3, <1>4, <1>5 DEF NoErrors, HasSyncError

\* The first spec has no error.
LEMMA NoErrorsInit == MayFail = {} /\ Init => NoErrors
  <1> SUFFICES ASSUME MayFail = {}, Init PROVE NoErrors
    OBVIOUS
  <1>1. \A g \in Gens : specs[g].bad = {}
    BY DEF Init, FirstSpec
  <1>2. \A w \in Workloads : ~sf[w].bad
    BY DEF Init, NoSfset
  <1>3. ~errCache /\ pc # "errorpatch"
    BY DEF Init
  <1>4. \A n \in {nc, ncCache, sc.nc} : ~HasSyncError(n)
    BY DEF Init, NoSync, NoStatus, HasSyncError
  <1>. QED
    BY <1>1, <1>2, <1>3, <1>4 DEF NoErrors

-----------------------------------------------------------------------------
(* A processed generation was rolled out *)

\* The steps of a sync that has found a StatefulSet rolled out at its config.
PastRollout(w) == CASE w = "mgmd"   -> Last \cup {"rmysqld", "podver", "rdata"}
                    [] w = "ndbmtd" -> Last \cup {"rmysqld"}
                    [] w = "mysqld" -> Last

\* The steps after ensureWorkloadsReadiness and before the last ones.
Checked == {"scaledown", "rmgmd", "rdata", "podver", "rmysqld"}

\* The rollouts are one generation behind the user at most: no update is
\* accepted before.  Claims are not ahead of them, and a copy that shows a
\* rollout tells of one.
Rollouts ==
    \A w \in Workloads :
        /\ rolled[w] <= sf[w].gen /\ nc.gen <= rolled[w] + 1
        /\ \A p \in Claims : p <= rolled[w]
        /\ \A s \in Views(w) : Exists(s) /\ RolledOut(s) => s.gen <= rolled[w]

\* A copy with the metadata.generation of the StatefulSet but an earlier
\* config is of a StatefulSet whose pods the new config left as they were.
Revisions ==
    \A w \in Workloads : \A s \in Views(w) :
        /\ s.spec <= sf[w].spec
        /\ s.spec = sf[w].spec /\ s.gen < sf[w].gen => rolled[w] = sf[w].gen

\* What a sync has found out about the rollouts.
RolloutFlow ==
    /\ \A w \in Workloads : pc \in PastRollout(w) \/ sc.success => sc.cs.gen <= rolled[w]
    /\ \A w \in {"mgmd", "mysqld"} :
          pc \in Checked /\ sc.sf[w].gen = sc.cs.gen => RolledOut(sc.sf[w])
    /\ pc = "podver" => sc.sf["ndbmtd"].gen = sc.cs.gen \/ sc.cs.gen <= rolled["ndbmtd"]

\* Data nodes that are all up and up to date are rolled out.  They are never
\* too many for their config, so that a new config does not stop one.
DataNodesRolled ==
    LET s == sf["ndbmtd"]
    IN Exists(s) /\ s.up /\ s.outdated = 0 => rolled["ndbmtd"] = s.gen

NodesGrow ==
    \A g, h \in Gens : g <= h /\ h <= nc.gen => specs[g].nodes <= specs[h].nodes

NodesFit ==
    \A s \in Views("ndbmtd") : s.gen \in Gens => s.reps <= specs[s.gen].nodes

RollInv == Rollouts /\ Revisions /\ RolloutFlow /\ DataNodesRolled /\ NodesGrow /\ NodesFit

\* The history is only written as the model says.
LEMMA RolledMoves ==
    ASSUME [Next]_vars
    PROVE  rolled' = rolled \/ RecordRollout
  <1>1. CASE SyncStep
    BY <1>1 DEF SyncStep, EnsureConfigMap, PatchConfigMapOnError, PatchConfigMap,
       EnsureManagementServerStatefulSet, EnsureDataNodeStatefulSet, EnsureStatefulSet,
       CreateStatefulSet, PatchStatefulSet, ReconcileStatefulSet,
       DeletePodOnStsUpdate, ValidateMySQLServerStatefulSet, HandleScaleDown,
       ReconcileManagementNodeStatefulSet, ReconcileDataNodeStatefulSet,
       EnsureDataNodePodVersion, ReconcileMySQLServerStatefulSet, StartNewDataNodes,
       CreateNodeGroups, ReorgNdbTables, RemoveAddNodeAnnotation, ReconcileRootUser,
       PatchRootAnnotations, FinishSync, UpdateNdbClusterStatus, cluster
  <1>2. CASE ~SyncStep
    BY <1>2 DEF Next, SyncBegin, Informers, DeliverNdbCluster, Resync, DeliverConfigMap,
       DeliverStatefulSets, DeliverPods, Kubernetes, ObserveStatefulSet, PodsBecomeReady,
       UpdateSpec, StepFails, CreateNodeGroupFails, StatusUpdateFails, RelistStatefulSets,
       OperatorRestart, PodDisrupted, cluster, vars
  <1>. QED
    BY <1>1, <1>2

\* Rollouts do not get lost.
LEMMA RolledGrows ==
    ASSUME IndInv, [Next]_vars, NEW w \in Workloads, rolled[w] <= sf[w].gen
    PROVE  /\ rolled[w] \in Nat /\ rolled'[w] \in Nat /\ sf[w].gen \in Nat /\ sf'[w].gen \in Nat
           /\ rolled[w] <= rolled'[w] /\ rolled'[w] <= sf'[w].gen /\ sf[w].gen <= sf'[w].gen
  <1>1. IndInv' /\ sf[w].gen <= sf'[w].gen
    BY NextInv DEF Forward
  <1>2. IndInv' => rolled'[w] \in Nat /\ sf'[w].gen \in Nat
    BY ConstantsAssumption DEF IndInv, TypeOK, Sfsets
  <1>3. rolled[w] \in Nat /\ sf[w].gen \in Nat
    BY ConstantsAssumption DEF IndInv, TypeOK, Sfsets
  <1>4. rolled'[w] \in {rolled[w], sf'[w].gen}
    BY RolledMoves DEF RecordRollout
  <1>. QED
    BY <1>1, <1>2, <1>3, <1>4

\* Only an accepted update makes a new generation.
LEMMA GenMoves ==
    ASSUME IndInv, [Next]_vars
    PROVE  \/ UpdateSpec /\ nc'.gen = nc.gen + 1 /\ sf' = sf
           \/ nc'.gen = nc.gen /\ specs' = specs
  <1>1. CASE UpdateSpec
    BY <1>1 DEF UpdateSpec, IndInv, TypeOK, NdbClusters
  <1>2. CASE ~UpdateSpec /\ UpdateNdbClusterStatus
    BY <1>2, Unspecified DEF UpdateNdbClusterStatus, IndInv, TypeOK, NdbClusters
  <1>3. CASE ~UpdateSpec /\ ~UpdateNdbClusterStatus
    BY <1>3, Unspecified
  <1>. QED
    BY <1>1, <1>2, <1>3

\* A StatefulSet gets a new config only when it was rolled out at its own.
LEMMA ConfigBump ==
    ASSUME IndInv, Rollouts, [Next]_vars, NEW w \in Workloads, sf'[w].gen # sf[w].gen
    PROVE  /\ rolled[w] = sf[w].gen /\ nc'.gen = nc.gen
           /\ Created(w) \/ Repatched(w)
  <1>1. ~Kept(w)
    BY DEF Kept, Observed, Readied, Disturbed, Written
  <1>2. nc'.gen = nc.gen
    BY GenMoves
  <1>3. rolled[w] <= sf[w].gen /\ nc.gen <= rolled[w] + 1
    BY DEF Rollouts
  <1>4. /\ rolled[w] \in Nat /\ sf[w].gen \in Nat /\ sf'[w].gen \in Nat /\ sf[w].gen <= sf'[w].gen
        /\ nc.gen \in Nat
    BY <1>3, RolledGrows, Numbers
  <1>5. sf'[w].gen <= nc'.gen
    <2>1. IndInv'
      BY NextInv
    <2>2. IndInv' => sf'[w].gen <= cm'.gen /\ cm'.gen <= ncCache'.gen /\ ncCache'.gen <= nc'.gen
      BY DEF IndInv, Flow
    <2>3. IndInv' => cm'.gen \in Nat /\ ncCache'.gen \in Nat /\ nc'.gen \in Nat
      BY ConstantsAssumption DEF IndInv, TypeOK, NdbClusters, ConfigMaps
    <2>. QED
      BY <1>4, <2>1, <2>2, <2>3
  <1>6. rolled[w] = sf[w].gen
    BY <1>2, <1>3, <1>4, <1>5
  <1>. QED
    BY <1>1, <1>2, <1>6, Writes

\* The metadata.generation does not go backwards either.
LEMMA SpecGrows ==
    ASSUME IndInv, [Next]_vars, NEW w \in Workloads
    PROVE  sf[w].spec \in Nat /\ sf'[w].spec \in Nat /\ sf[w].spec <= sf'[w].spec
  <1>1. sf[w].spec \in Nat
    BY DEF IndInv, TypeOK, Sfsets
  <1>2. CASE Kept(w)
    BY <1>1, <1>2 DEF Kept, Observed, Readied, Disturbed, Written
  <1>3. CASE Created(w)
    BY <1>1, <1>3, CreatedFields DEF Created, Exists
  <1>4. CASE Repatched(w)
    <2>1. PICK old \in {sfCache[w], sc.sf[w]}, new \in Sfsets : sf'[w] = Patched(w, old, new)
      BY <1>4 DEF Repatched
    <2>2. sf'[w].spec = sf[w].spec \/ sf'[w].spec = sf[w].spec + 1
      BY <1>4, <2>1, RepatchFacts, PatchedFields
    <2>. QED
      BY <1>1, <2>2
  <1>. QED
    BY <1>2, <1>3, <1>4, Writes

\* Every step keeps the rollouts in order.
LEMMA RolloutsStep ==
    ASSUME IndInv, NoErrors, RollInv, [Next]_vars
    PROVE  Rollouts'
  <1> SUFFICES ASSUME NEW w \in Workloads
               PROVE  /\ rolled'[w] <= sf'[w].gen /\ nc'.gen <= rolled'[w] + 1
                      /\ \A p \in Claims' : p <= rolled'[w]
                      /\ \A s \in Views(w)' : Exists(s) /\ RolledOut(s) => s.gen <= rolled'[w]
    BY DEF Rollouts, Exists, RolledOut
  <1>1. /\ rolled[w] <= sf[w].gen /\ nc.gen <= rolled[w] + 1
        /\ \A p \in Claims : p <= rolled[w]
        /\ \A s \in Views(w) : Exists(s) /\ RolledOut(s) => s.gen <= rolled[w]
    BY DEF RollInv, Rollouts
  <1>2. /\ rolled[w] \in Nat /\ rolled'[w] \in Nat /\ sf[w].gen \in Nat /\ sf'[w].gen \in Nat
        /\ rolled[w] <= rolled'[w] /\ rolled'[w] <= sf'[w].gen
    BY <1>1, RolledGrows
  <1>3. nc'.gen <= rolled'[w] + 1
    <2>1. CASE UpdateSpec /\ nc'.gen = nc.gen + 1
      <3>1. nc.status.proc = nc.gen
        BY <2>1 DEF UpdateSpec, validateUpdate, NoErrors
      <3>2. nc.gen <= rolled[w]
        BY <1>1, <3>1 DEF Claims
      <3>. QED
        BY <1>2, <2>1, <3>2, Numbers
    <2>2. CASE nc'.gen = nc.gen
      BY <1>1, <1>2, <2>2, Numbers
    <2>. QED
      BY <2>1, <2>2, GenMoves
  <1>4. ASSUME NEW p \in Claims'
        PROVE  p <= rolled'[w]
    <2>1. CASE p \in Claims
      BY <1>1, <1>2, <2>1, ClaimsBehind
    <2>2. CASE p = 0
      BY <1>2, <2>2
    <2>3. CASE sc.success /\ pc = "status" /\ p = sc.nc.gen
      <3>1. p = sc.cs.gen /\ p <= rolled[w] /\ p \in Nat
        BY <2>3, Numbers DEF IndInv, Progress, RollInv, RolloutFlow
      <3>. QED
        BY <1>2, <3>1
    <2>. QED
      BY <2>1, <2>2, <2>3, ClaimMoves
  <1>5. ASSUME NEW s \in Views(w)', Exists(s), RolledOut(s)
        PROVE  s.gen <= rolled'[w]
    <2>1. CASE s \in Views(w)
      <3>1. s.gen \in Nat /\ s.gen <= rolled[w]
        BY <1>1, <1>5, <2>1, Numbers DEF Views
      <3>. QED
        BY <1>2, <3>1
    <2>2. CASE s = NoSfset
      BY <1>5, <2>2 DEF NoSfset, Exists
    <2>3. CASE s = sf'[w]
      <3>1. CASE sf'[w] = sf[w]
        BY <2>1, <2>3, <3>1 DEF Views
      <3>2. CASE RecordRollout
        <4>1. rolled'[w] = sf'[w].gen
          BY <1>5, <2>3, <3>2 DEF RecordRollout
        <4>. QED
          BY <1>2, <2>3, <4>1
      <3>3. CASE Disturbed(w) \/ Created(w)
        BY <1>5, <2>3, <3>3, CreatedFields DEF Disturbed, RolledOut
      <3>. QED
        BY <3>1, <3>2, <3>3, Writes DEF Kept, Observed, Readied, Repatched
    <2>. QED
      BY <2>1, <2>2, <2>3, ViewMoves
  <1>. QED
    BY <1>2, <1>3, <1>4, <1>5

\* Every step keeps the revisions in order.
LEMMA RevisionsStep ==
    ASSUME IndInv, Existence, RollInv, [Next]_vars
    PROVE  Revisions'
  <1> SUFFICES ASSUME NEW w \in Workloads, NEW s \in Views(w)'
               PROVE  /\ s.spec <= sf'[w].spec
                      /\ s.spec = sf'[w].spec /\ s.gen < sf'[w].gen => rolled'[w] = sf'[w].gen
    BY DEF Revisions
  <1>1. sf[w].spec \in Nat /\ sf'[w].spec \in Nat /\ sf[w].spec <= sf'[w].spec
    BY SpecGrows
  <1>2. /\ rolled[w] \in Nat /\ rolled'[w] \in Nat /\ sf[w].gen \in Nat /\ sf'[w].gen \in Nat
        /\ rolled[w] <= rolled'[w] /\ rolled'[w] <= sf'[w].gen /\ sf[w].gen <= sf'[w].gen
    BY RolledGrows DEF RollInv, Rollouts
  <1>3. CASE s = sf'[w]
    BY <1>1, <1>2, <1>3
  <1>4. CASE s \in Views(w)
    <2>1. /\ s.spec \in Nat /\ s.gen \in Nat /\ s.spec <= sf[w].spec
          /\ s.spec = sf[w].spec /\ s.gen < sf[w].gen => rolled[w] = sf[w].gen
      <3>1. s.spec \in Nat /\ s.gen \in Nat
        BY <1>4, Numbers DEF Views, IndInv, TypeOK, Sfsets
      <3>. QED
        BY <1>4, <3>1 DEF RollInv, Revisions
    <2>2. s.spec <= sf'[w].spec
      BY <1>1, <2>1
    <2>3. ASSUME s.spec = sf'[w].spec, s.gen < sf'[w].gen
          PROVE  rolled'[w] = sf'[w].gen
      <3>1. sf'[w].spec = sf[w].spec
        BY <1>1, <2>1, <2>3
      <3>2. CASE sf'[w].gen = sf[w].gen
        BY <1>2, <2>1, <2>3, <3>1, <3>2
      <3>3. CASE sf'[w].gen # sf[w].gen
        <4>1. rolled[w] = sf[w].gen /\ (Created(w) \/ Repatched(w))
          BY <3>3, ConfigBump DEF RollInv
        <4>2. ~Created(w)
          BY <3>1, CreatedFields DEF Created, Exists
        <4>3. RecordRollout /\ Exists(sf'[w])
          BY <3>1, <4>1, <4>2 DEF Repatched, Exists
        <4>. QED
          BY <3>1, <4>1, <4>3 DEF RecordRollout
      <3>. QED
        BY <3>2, <3>3
    <2>. QED
      BY <2>2, <2>3
  <1>5. CASE s = NoSfset
    <2>1. s.spec = 0 /\ s.gen = 0
      BY <1>5 DEF NoSfset
    <2>2. sf'[w].gen # 0 => sf'[w].spec # 0
      <3>1. Existence' /\ IndInv'
        BY ExistenceStep, NextInv
      <3>2. sf'[w].gen \in 0..MaxGen
        BY <3>1 DEF IndInv, TypeOK, Sfsets
      <3>3. sf'[w].gen \in Gens => sf'[w].spec # 0
        BY <3>1 DEF Existence, Views, Exists
      <3>. QED
        BY <3>2, <3>3, ConstantsAssumption DEF Gens
    <2>. QED
      BY <1>1, <1>2, <2>1, <2>2
  <1>. QED
    BY <1>3, <1>4, <1>5, ViewMoves

\* Data nodes are only ever added.
LEMMA NodesGrowStep ==
    ASSUME IndInv, NodesGrow, [Next]_vars
    PROVE  NodesGrow'
  <1>1. \A g \in Gens : g \in Nat
    BY ConstantsAssumption DEF Gens
  <1>2. nc.gen \in Gens /\ nc.gen \in Nat /\ specs \in [Gens -> SpecContent]
    BY Numbers DEF IndInv, Flow, TypeOK
  <1>3. CASE nc'.gen = nc.gen /\ specs' = specs
    BY <1>3 DEF NodesGrow
  <1>4. CASE UpdateSpec /\ nc'.gen = nc.gen + 1
    <2>1. PICK c \in Changes, b \in SUBSET MayFail :
              specs' = [specs EXCEPT ![nc.gen + 1] = Changed(specs[nc.gen], c, b)]
      BY <1>4 DEF UpdateSpec
    <2>2. nc.gen + 1 \in Gens
      BY <1>2, <1>4, LevelGrows
    <2>3. /\ specs'[nc.gen + 1] = Changed(specs[nc.gen], c, b)
          /\ \A g \in Gens : g <= nc.gen => specs'[g] = specs[g]
      BY <1>2, <2>1, <2>2, LevelGrows
    <2>4. Changed(specs[nc.gen], c, b).nodes \in {specs[nc.gen].nodes, specs[nc.gen].nodes + 2}
      BY DEF Changed
    <2>5. \A g \in Gens : specs[g].nodes \in Nat
      BY <1>2 DEF SpecContent
    <2>6. \A g \in Gens : g <= nc.gen => specs[g].nodes <= specs[nc.gen].nodes
      BY <1>1, <1>2 DEF NodesGrow
    <2>7. ASSUME NEW g \in Gens, NEW h \in Gens, g <= h, h <= nc'.gen
          PROVE  specs'[g].nodes <= specs'[h].nodes
      <3>1. CASE h <= nc.gen
        <4>1. g <= nc.gen
          BY <1>1, <1>2, <2>7, <3>1
        <4>. QED
          BY <2>3, <2>7, <3>1, <4>1 DEF NodesGrow
      <3>2. CASE h = nc.gen + 1 /\ g = nc.gen + 1
        <4>1. specs'[h].nodes \in Nat
          BY <1>2, <2>3, <2>4, <2>5, <3>2
        <4>. QED
          BY <3>2, <4>1
      <3>3. CASE h = nc.gen + 1 /\ g <= nc.gen
        BY <1>2, <2>3, <2>4, <2>5, <2>6, <3>3
      <3>. QED
        BY <1>1, <1>2, <1>4, <2>7, <3>1, <3>2, <3>3
    <2>. QED
      BY <2>7 DEF NodesGrow
  <1>. QED
    BY <1>3, <1>4, GenMoves

\* A patch changes the number of data nodes only to start the new ones, for
\* the config they have.
LEMMA NodesPatched ==
    ASSUME IndInv, Existence, NodesGrow, NodesFit, [Next]_vars, Repatched("ndbmtd")
    PROVE  /\ Exists(sf["ndbmtd"])
           /\ \/ sf'["ndbmtd"].reps = sf["ndbmtd"].reps
              \/ /\ sf'["ndbmtd"].gen = sf["ndbmtd"].gen
                 /\ sf'["ndbmtd"].reps = specs[sf["ndbmtd"].gen].nodes
  <1> DEFINE w == "ndbmtd"
  <1>1. w \in Workloads /\ Exists(sf[w])
    BY DEF Workloads, Repatched
  <1>2. PICK old \in {sfCache[w], sc.sf[w]}, new \in Sfsets :
            Wanted(w, old, new) /\ sf'[w] = Patched(w, old, new) /\ (pc # w => old = sc.sf[w])
    BY DEF Repatched
  <1>3. old \in Sfsets /\ sc.cs.gen \in Gens /\ sc.cs.gen <= nc.gen
    <2>1. pc \in Configured /\ pc # "idle"
      BY DEF Repatched, Configured, Steps
    <2>2. sc.cs.gen <= cm.gen /\ cm.gen <= ncCache.gen /\ ncCache.gen <= nc.gen
      BY <2>1 DEF IndInv, Flow, SyncFlow
    <2>. QED
      BY <1>1, <2>2, Numbers, RepatchFacts
  <1>4. /\ sf'[w].reps = Merge(sf[w].reps, old.reps, new.reps)
        /\ sf'[w].gen = Merge(sf[w].gen, old.gen, new.gen)
    BY <1>1, <1>2, <1>3, RepatchFacts, PatchedFields
  <1>5. CASE new = UpdatedStatefulSet(w, old, sc.cs, sc.nc)
    <2>1. Replicas(w, sc.cs.gen, sc.nc.gen) = specs[sc.cs.gen].nodes
      BY DEF Replicas
    <2>2. new.reps = IF old.reps < specs[sc.cs.gen].nodes THEN old.reps ELSE specs[sc.cs.gen].nodes
      BY <1>1, <1>3, <1>5, <2>1, RepatchFacts, UpdatedFields
    <2>3. old.reps \in Nat /\ specs[sc.cs.gen].nodes \in Nat
      BY <1>1, <1>3, RepatchFacts DEF Sfsets, SpecContent
    <2>4. ASSUME old.gen \in Gens PROVE new.reps = old.reps
      <3>1. old.reps <= specs[old.gen].nodes
        BY <1>2, <2>4 DEF NodesFit, Views
      <3>2. old.gen <= sc.cs.gen
        <4>1. pc \in Configured
          BY DEF Repatched
        <4>2. /\ old.gen <= sf[w].gen /\ sf[w].gen <= sc.cs.gen
              /\ old.gen \in Nat /\ sf[w].gen \in Nat /\ sc.cs.gen \in Nat
          BY <1>1, <1>2, <4>1, SyncFacts, Numbers
        <4>. QED
          BY <4>2
      <3>3. specs[old.gen].nodes <= specs[sc.cs.gen].nodes
        BY <1>3, <2>4, <3>2 DEF NodesGrow
      <3>4. specs[old.gen].nodes \in Nat
        BY <1>1, <2>4, RepatchFacts DEF SpecContent
      <3>5. old.reps <= specs[sc.cs.gen].nodes
        BY <2>3, <3>1, <3>3, <3>4
      <3>. QED
        BY <2>2, <2>3, <3>5
    <2>5. ASSUME old.gen \notin Gens PROVE new.reps = old.reps
      <3>1. old.reps = 0
        BY <1>1, <1>2, <2>5 DEF Existence, Views
      <3>. QED
        BY <2>2, <2>3, <3>1
    <2>6. new.reps = old.reps
      BY <2>2, <2>3, <2>4, <2>5
    <2>. QED
      BY <1>1, <1>4, <2>6 DEF Merge
  <1>6. CASE pc = "addnode" /\ new = [old EXCEPT !.reps = specs[sc.cs.gen].nodes]
    <2>1. new.gen = old.gen /\ new.reps = specs[sc.cs.gen].nodes
      BY <1>3, <1>6 DEF Sfsets
    <2>2. pc \in Past(w) /\ pc \in Configured
      BY <1>6 DEF Past, Last, Configured, Steps
    <2>3. sf[w].gen = sc.cs.gen
      BY <1>1, <2>2, SyncFacts
    <2>. QED
      BY <1>1, <1>4, <2>1, <2>3 DEF Merge
  <1>7. CASE pc = "added" /\ new = [old EXCEPT !.add = FALSE]
    <2>1. new.reps = old.reps
      BY <1>3, <1>7 DEF Sfsets
    <2>. QED
      BY <1>1, <1>4, <2>1 DEF Merge
  <1>. QED
    BY <1>2, <1>5, <1>6, <1>7 DEF Wanted

\* Every step keeps the number of data nodes within the config.
LEMMA NodesFitStep ==
    ASSUME IndInv, Existence, NodesGrow, NodesFit, [Next]_vars
    PROVE  NodesFit'
  <1> SUFFICES ASSUME NEW s \in Views("ndbmtd")', s.gen \in Gens
               PROVE  s.reps <= specs'[s.gen].nodes
    BY DEF NodesFit
  <1>1. "ndbmtd" \in Workloads
    BY DEF Workloads
  <1>2. \A g \in Gens : g <= nc.gen => specs'[g] = specs[g]
    BY LevelGrows
  <1>3. CASE s \in Views("ndbmtd")
    <2>1. s.gen <= nc.gen
      <3>1. s.gen <= sf["ndbmtd"].gen /\ s.gen \in Nat
        BY <1>1, <1>3, Numbers DEF Views, IndInv, Copies
      <3>2. sf["ndbmtd"].gen <= cm.gen /\ cm.gen <= ncCache.gen /\ ncCache.gen <= nc.gen
        BY <1>1 DEF IndInv, Flow
      <3>. QED
        BY <1>1, <3>1, <3>2, Numbers
    <2>. QED
      BY <1>2, <1>3, <2>1 DEF NodesFit
  <1>4. CASE s = NoSfset
    BY <1>4, ConstantsAssumption DEF NoSfset, Gens
  <1>5. CASE s = sf'["ndbmtd"]
    <2> DEFINE r == sf["ndbmtd"]
               t == sf'["ndbmtd"]
    <2>0. r \in Views("ndbmtd")
      BY DEF Views
    <2>1. CASE Kept("ndbmtd")
      <3>1. t.gen = r.gen /\ t.reps = r.reps
        BY <2>1 DEF Kept, Observed, Readied, Disturbed, Written
      <3>2. r.gen <= nc.gen
        <4>1. r.gen <= cm.gen /\ cm.gen <= ncCache.gen /\ ncCache.gen <= nc.gen
          BY <1>1 DEF IndInv, Flow
        <4>. QED
          BY <1>1, <4>1, Numbers
      <3>. QED
        BY <1>2, <1>5, <2>0, <3>1, <3>2 DEF NodesFit
    <2>2. (nc'.gen = nc.gen /\ specs' = specs) \/ sf' = sf
      BY GenMoves
    <2>3. CASE Created("ndbmtd")
      <3>1. t.gen = sc.cs.gen /\ t.reps = specs[sc.cs.gen].nodes
        BY <1>1, <2>3, CreatedFields DEF Replicas
      <3>2. sc.cs.gen \in Gens /\ specs[sc.cs.gen].nodes \in Nat
        BY <1>1, <2>3, CreatedFields DEF IndInv, TypeOK, SpecContent
      <3>. QED
        BY <1>5, <2>1, <2>2, <3>1, <3>2 DEF Kept
    <2>4. CASE Repatched("ndbmtd")
      <3>1. /\ Exists(r)
            /\ t.reps = r.reps \/ (t.gen = r.gen /\ t.reps = specs[r.gen].nodes)
        BY <2>4, NodesPatched
      <3>2. r.gen \in Gens /\ r.reps <= specs[r.gen].nodes /\ r.reps \in Nat
        BY <1>1, <2>0, <3>1 DEF Existence, NodesFit, IndInv, TypeOK, Sfsets
      <3>3. r.gen <= t.gen /\ t.gen <= nc'.gen /\ r.gen \in Nat /\ t.gen \in Nat
        <4>1. IndInv' /\ r.gen <= t.gen
          BY <1>1, NextInv DEF Forward
        <4>2. IndInv' => /\ t.gen <= cm'.gen /\ cm'.gen <= ncCache'.gen /\ ncCache'.gen <= nc'.gen
          BY <1>1 DEF IndInv, Flow
        <4>3. IndInv' => /\ t.gen \in Nat /\ cm'.gen \in Nat /\ ncCache'.gen \in Nat /\ nc'.gen \in Nat
          BY <1>1, ConstantsAssumption DEF IndInv, TypeOK, NdbClusters, ConfigMaps, Sfsets
        <4>. QED
          BY <1>1, <4>1, <4>2, <4>3, Numbers
      <3>4. CASE nc'.gen = nc.gen /\ specs' = specs
        <4>1. t.gen \in Gens /\ specs[r.gen].nodes <= specs[t.gen].nodes
          BY <1>5, <3>2, <3>3, <3>4 DEF NodesGrow
        <4>2. specs[r.gen].nodes \in Nat /\ specs[t.gen].nodes \in Nat
          BY <3>2, <4>1 DEF IndInv, TypeOK, SpecContent
        <4>. QED
          BY <1>5, <3>1, <3>2, <3>4, <4>1, <4>2
      <3>. QED
        BY <2>1, <2>2, <3>4 DEF Kept
    <2>. QED
      BY <1>1, <2>1, <2>3, <2>4, Writes
  <1>. QED
    BY <1>1, <1>3, <1>4, <1>5, ViewMoves

\* A patch leaves the pods alone, and outdates all or none of them.
LEMMA PatchedPods ==
    ASSUME IndInv, NEW w \in Workloads, Repatched(w)
    PROVE  /\ sf'[w].up = sf[w].up
           /\ \/ sf'[w].spec = sf[w].spec /\ sf'[w].outdated = sf[w].outdated
              \/ sf'[w].outdated = Redundancy
              \/ sf'[w].reps # sf[w].reps /\ sf'[w].outdated = sf[w].outdated
  <1>1. PICK old \in {sfCache[w], sc.sf[w]}, new \in Sfsets : sf'[w] = Patched(w, old, new)
    BY DEF Repatched
  <1>2. old \in Sfsets /\ sf \in [Workloads -> Sfsets]
    BY <1>1, RepatchFacts
  <1>3. sf'[w].up = sf[w].up
    BY <1>1, <1>2, PatchedFields
  <1>4. \/ sf'[w].spec = sf[w].spec /\ sf'[w].outdated = sf[w].outdated
        \/ sf'[w].outdated = Redundancy
        \/ sf'[w].reps # sf[w].reps /\ sf'[w].outdated = sf[w].outdated
    BY <1>1, <1>2, PatchedFields
  <1>. QED
    BY <1>3, <1>4

\* Data nodes that are up to date are rolled out, at a new config too.
LEMMA DataNodesStep ==
    ASSUME IndInv, Existence, RollInv, [Next]_vars
    PROVE  DataNodesRolled'
  <1> DEFINE w == "ndbmtd"
  <1> SUFFICES ASSUME Exists(sf'[w]), sf'[w].up, sf'[w].outdated = 0
               PROVE  rolled'[w] = sf'[w].gen
    BY DEF DataNodesRolled, Exists
  <1>1. w \in Workloads
    BY DEF Workloads
  <1>2. /\ rolled[w] \in Nat /\ rolled'[w] \in Nat /\ sf[w].gen \in Nat /\ sf'[w].gen \in Nat
        /\ rolled[w] <= rolled'[w] /\ rolled'[w] <= sf'[w].gen /\ sf[w].gen <= sf'[w].gen
    BY <1>1, RolledGrows DEF RollInv, Rollouts
  <1>3. ASSUME Exists(sf[w]), sf[w].up, sf[w].outdated = 0, sf'[w].gen = sf[w].gen
        PROVE  rolled'[w] = sf'[w].gen
    BY <1>2, <1>3 DEF RollInv, DataNodesRolled
  <1>4. CASE Kept(w)
    <2>1. CASE sf'[w] = sf[w]
      BY <1>3, <2>1
    <2>2. CASE Observed(w)
      BY <1>3, <2>2 DEF Observed, Written, Exists
    <2>3. CASE Readied(w)
      <3>1. RolledOut(sf'[w]) /\ RecordRollout
        BY <2>3 DEF Readied, Written, RolledOut
      <3>. QED
        BY <1>1, <3>1 DEF RecordRollout
    <2>. QED
      BY <1>4, <2>1, <2>2, <2>3 DEF Kept, Disturbed
  <1>5. CASE Created(w)
    BY <1>1, <1>5, CreatedFields
  <1>6. CASE Repatched(w)
    <2>2. /\ sf'[w].up = sf[w].up
          /\ \/ sf'[w].spec = sf[w].spec /\ sf'[w].outdated = sf[w].outdated
             \/ sf'[w].outdated = Redundancy
             \/ sf'[w].reps # sf[w].reps /\ sf'[w].outdated = sf[w].outdated
      BY <1>1, <1>6, PatchedPods
    <2>3. Redundancy # 0
      BY ConstantsAssumption
    <2>4. Exists(sf[w]) /\ (sf'[w].reps = sf[w].reps \/ sf'[w].gen = sf[w].gen) /\ RecordRollout
      BY <1>6, NodesPatched DEF RollInv, Repatched
    <2>5. CASE sf'[w].gen = sf[w].gen
      BY <1>3, <2>2, <2>3, <2>4, <2>5
    <2>6. CASE sf'[w].gen # sf[w].gen
      <3>1. sf'[w].spec = sf[w].spec
        BY <2>2, <2>3, <2>4, <2>6
      <3>2. rolled[w] = sf[w].gen
        BY <1>1, <2>6, ConfigBump DEF RollInv
      <3>. QED
        BY <1>1, <2>4, <3>1, <3>2 DEF RecordRollout
    <2>. QED
      BY <2>5, <2>6
  <1>. QED
    BY <1>1, <1>4, <1>5, <1>6, Writes

\* A sync reads the StatefulSets in its first steps.
LEMMA ReadsFirst ==
    ASSUME SyncStep, pc \notin {"config", "mgmd", "ndbmtd", "mysqld"}, pc' # "idle"
    PROVE  sc' = sc \/ FinishSync
  BY DEF SyncStep, EnsureConfigMap, PatchConfigMapOnError, PatchConfigMap,
       EnsureManagementServerStatefulSet, EnsureDataNodeStatefulSet, EnsureStatefulSet,
       DeletePodOnStsUpdate, ValidateMySQLServerStatefulSet, HandleScaleDown,
       ReconcileManagementNodeStatefulSet, ReconcileDataNodeStatefulSet,
       EnsureDataNodePodVersion, ReconcileMySQLServerStatefulSet, StartNewDataNodes,
       CreateNodeGroups, ReorgNdbTables, RemoveAddNodeAnnotation, ReconcileRootUser, SQLFails,
       SQLRuns, FailSync, PatchRootAnnotations, UpdateNdbClusterStatus

\* A patch that lets the sync go on with the copy it has leaves the pods as
\* they were.
LEMMA WentOn ==
    ASSUME IndInv, Existence, RollInv, [Next]_vars, NEW w \in Workloads,
           pc' \in Past(w), sc' = sc, sf'[w].spec = sc.sf[w].spec
    PROVE  sc.sf[w].gen = sc.cs.gen \/ sc.cs.gen <= rolled'[w]
  <1>1. IndInv' /\ Revisions'
    BY NextInv, RevisionsStep
  <1>2. sf'[w].gen = sc.cs.gen
    BY <1>1 DEF IndInv, Progress
  <1>3. sc.sf[w] \in Views(w)'
    BY DEF Views
  <1>4. sc.sf[w].gen < sf'[w].gen => rolled'[w] = sf'[w].gen
    BY <1>1, <1>3 DEF Revisions
  <1>5. sc.sf[w].gen <= sf'[w].gen
    BY <1>1 DEF IndInv, Copies
  <1>6. sc.sf[w].gen \in Nat /\ sc.cs.gen \in Nat
    BY Numbers
  <1>. QED
    BY <1>2, <1>4, <1>5, <1>6

\* The step that finds a StatefulSet rolled out, or has found it so.
LEMMA EntersRollout ==
    ASSUME IndInv, Existence, RollInv, [Next]_vars, SyncStep, NEW w \in Workloads,
           pc \notin PastRollout(w), pc' \in PastRollout(w), pc \in Steps, pc' \in Following[pc]
    PROVE  sc.cs.gen <= rolled'[w]
  <1>1. \/ w = "mgmd" /\ pc = "rmgmd" /\ pc' = "rdata"
        \/ w = "ndbmtd" /\ pc = "podver" /\ pc' = "rmysqld"
        \/ w = "mysqld" /\ pc = "rmysqld" /\ pc' = "addnode"
    BY DEF Following, PastRollout, Last, Steps, Workloads
  <1>2. sc' = sc
    BY <1>1, ReadsFirst DEF FinishSync
  <1>3. pc \in Configured
    BY <1>1 DEF Configured, Steps
  <1>4. sc.cs.gen \in Gens /\ sc.cs.gen \in Nat /\ rolled[w] \in Nat /\ rolled'[w] \in Nat /\ rolled[w] <= rolled'[w]
    BY <1>3, SyncFacts, RolledGrows, Numbers DEF RollInv, Rollouts
  <1>5. ASSUME sc.sf[w].gen = sc.cs.gen, RolledOut(sc.sf[w])
        PROVE  sc.cs.gen <= rolled'[w]
    <2>1. sc.sf[w] \in Views(w)
      BY DEF Views
    <2>2. Exists(sc.sf[w])
      BY <1>4, <1>5, <2>1 DEF Existence
    <2>3. sc.cs.gen <= rolled[w]
      BY <1>5, <2>1, <2>2 DEF RollInv, Rollouts
    <2>. QED
      BY <1>4, <2>3
  <1>6. CASE w # "ndbmtd"
    <2>1. pc' \in Past(w) /\ pc \in Checked /\ w \in {"mgmd", "mysqld"}
      BY <1>1, <1>6 DEF Past, Last, Checked
    <2>2. sc.sf[w].gen = sc.cs.gen \/ sf'[w].spec = sc.sf[w].spec
      <3>1. ReconcileManagementNodeStatefulSet \/ ReconcileMySQLServerStatefulSet
        BY <1>1, <1>6, ActionAt
      <3>. QED
        BY <1>1, <1>6, <3>1 DEF ReconcileManagementNodeStatefulSet, ReconcileMySQLServerStatefulSet,
           ReconcileStatefulSet, PatchStatefulSet, CreateStatefulSet, workloadHasConfigGeneration, Goto
    <2>3. CASE sc.sf[w].gen = sc.cs.gen
      BY <1>5, <2>1, <2>3 DEF RollInv, RolloutFlow
    <2>4. CASE sc.sf[w].gen # sc.cs.gen
      BY <1>2, <2>1, <2>2, <2>4, WentOn
    <2>. QED
      BY <2>3, <2>4
  <1>7. CASE w = "ndbmtd"
    <2>1. EnsureDataNodePodVersion /\ pc = "podver" /\ pc' = "rmysqld"
      BY <1>1, <1>7, ActionAt
    <2>2. \/ statefulsetUpdateComplete(sc.sf[w])
          \/ sf[w].up /\ sf[w].outdated = 0
      BY <1>7, <2>1 DEF EnsureDataNodePodVersion, Goto, FailSync
    <2>3. CASE sc.cs.gen <= rolled[w]
      BY <1>4, <2>3
    <2>4. CASE statefulsetUpdateComplete(sc.sf[w]) /\ sc.sf[w].gen = sc.cs.gen
      BY <1>5, <2>4 DEF statefulsetUpdateComplete, RolledOut
    <2>5. CASE sf[w].up /\ sf[w].outdated = 0
      <3>1. sf[w].gen = sc.cs.gen
        BY <1>3, <1>7, <2>1, SyncFacts DEF Past
      <3>2. Exists(sf[w])
        BY <1>4, <3>1 DEF Existence, Views
      <3>3. rolled[w] = sc.cs.gen
        BY <1>7, <2>5, <3>1, <3>2 DEF RollInv, DataNodesRolled
      <3>. QED
        BY <1>4, <3>3
    <2>. QED
      BY <1>7, <2>1, <2>2, <2>3, <2>4, <2>5 DEF RollInv, RolloutFlow
  <1>. QED
    BY <1>6, <1>7

\* A sync finds out about the rollouts on its way.
LEMMA RolloutFlowStep ==
    ASSUME IndInv, Existence, NoErrors, RollInv, [Next]_vars
    PROVE  RolloutFlow'
  <1>1. IndInv'
    BY NextInv
  <1>2. \A w \in Workloads : rolled[w] \in Nat /\ rolled'[w] \in Nat /\ rolled[w] <= rolled'[w]
    BY RolledGrows DEF RollInv, Rollouts
  <1>3. sc.cs.gen \in Nat /\ "ndbmtd" \in Workloads
    BY Numbers DEF Workloads
  <1>4. NoSync.success = FALSE
    BY DEF NoSync
  <1>5. sc'.success => pc' = "status"
    BY <1>1 DEF IndInv, Progress
  <1>6. CASE pc' = "idle"
    BY <1>5, <1>6 DEF RolloutFlow, PastRollout, Last, Checked, Workloads
  <1>7. CASE SyncBegin
    BY <1>5, <1>7 DEF SyncBegin, Goto, RolloutFlow, PastRollout, Last, Checked, Workloads
  <1>8. CASE pc' = pc /\ sc' = sc
    BY <1>2, <1>3, <1>8 DEF RollInv, RolloutFlow
  <1>9. CASE SyncStep /\ pc \in Steps /\ pc' \in Following[pc]
    <2>1. pc' # "idle" /\ pc # "idle"
      BY <1>9 DEF Following, Steps
    <2>2. pc # "config" => sc'.cs = sc.cs
      BY <2>1, SyncControl DEF Ended, Begun, GoesOn, Ignored
    <2>3. ASSUME NEW w \in Workloads, pc' \in PastRollout(w)
          PROVE  sc'.cs.gen <= rolled'[w]
      <3>1. pc # "config"
        BY <1>9, <2>3 DEF Following, PastRollout, Last, Steps, Workloads
      <3>2. CASE pc \in PastRollout(w)
        BY <1>2, <1>3, <2>2, <3>1, <3>2 DEF RollInv, RolloutFlow
      <3>3. CASE pc \notin PastRollout(w)
        BY <1>9, <2>2, <2>3, <3>1, <3>3, EntersRollout
      <3>. QED
        BY <3>2, <3>3
    <2>4. ASSUME NEW w \in Workloads, sc'.success
          PROVE  sc'.cs.gen <= rolled'[w]
      <3>1. ~sc.success
        BY <1>9 DEF IndInv, Progress, Following
      <3>2. pc = "cmpatch"
        <4>1. sc' = sc \/ FinishSync \/ (\E c : sc' = [sc EXCEPT !.cs = c])
              \/ (\E v, t : sc' = [sc EXCEPT !.sf[v] = t])
          BY <1>9, <2>1 DEF SyncStep, EnsureConfigMap, PatchConfigMapOnError, PatchConfigMap,
             EnsureManagementServerStatefulSet, EnsureDataNodeStatefulSet, EnsureStatefulSet,
             DeletePodOnStsUpdate, ValidateMySQLServerStatefulSet, HandleScaleDown,
             ReconcileManagementNodeStatefulSet, ReconcileDataNodeStatefulSet,
             EnsureDataNodePodVersion, ReconcileMySQLServerStatefulSet, StartNewDataNodes,
             CreateNodeGroups, ReorgNdbTables, RemoveAddNodeAnnotation, ReconcileRootUser, SQLFails,
             SQLRuns, FailSync, PatchRootAnnotations, UpdateNdbClusterStatus
        <4>2. FinishSync
          BY <2>4, <3>1, <4>1 DEF IndInv, TypeOK
        <4>. QED
          BY <4>2 DEF FinishSync
      <3>3. pc \in PastRollout(w)
        BY <3>2 DEF PastRollout, Last, Workloads
      <3>. QED
        BY <1>2, <1>3, <2>2, <3>2, <3>3 DEF RollInv, RolloutFlow
    <2>5. ASSUME NEW w \in {"mgmd", "mysqld"}, pc' \in Checked, sc'.sf[w].gen = sc'.cs.gen
          PROVE  RolledOut(sc'.sf[w])
      <3>1. CASE pc \in Checked
        <4>1. sc' = sc
          BY <1>9, <2>1, <3>1, ReadsFirst DEF Checked, FinishSync
        <4>. QED
          BY <2>5, <3>1, <4>1 DEF RollInv, RolloutFlow
      <3>2. CASE pc = "mysqld"
        <4>1. ValidateMySQLServerStatefulSet /\ pc' # "status"
          BY <1>9, <2>5, <3>2, ActionAt DEF Checked
        <4>2. ensureWorkloadsReadiness(sc')
          BY <4>1 DEF ValidateMySQLServerStatefulSet, Goto
        <4>3. UpdatedComplete(sc'.sf[w], sc'.cs.gen)
          BY <2>5, <4>2 DEF ensureWorkloadsReadiness
        <4>4. Exists(sc'.sf[w])
          <5>1. Existence' /\ sc'.cs.gen \in Gens /\ w \in Workloads
            BY <1>1, <2>2, <3>2, ExistenceStep, SyncFacts DEF Configured, Steps, Workloads
          <5>. QED
            BY <2>5, <5>1 DEF Existence, Views, Exists
        <4>. QED
          BY <2>5, <4>3, <4>4 DEF UpdatedComplete, workloadHasConfigGeneration,
             statefulsetUpdateComplete, RolledOut
      <3>3. pc \in Checked \cup {"mysqld"}
        BY <1>9, <2>5 DEF Following, Checked, Steps
      <3>. QED
        BY <3>1, <3>2, <3>3
    <2>6. ASSUME pc' = "podver"
          PROVE  sc'.sf["ndbmtd"].gen = sc'.cs.gen \/ sc'.cs.gen <= rolled'["ndbmtd"]
      <3>1. pc = "rdata"
        BY <1>9, <2>6 DEF Following, Steps
      <3>2. sc' = sc /\ ReconcileDataNodeStatefulSet /\ pc' \in Past("ndbmtd")
        BY <1>9, <2>1, <2>6, <3>1, ReadsFirst, ActionAt DEF FinishSync, Past
      <3>3. \/ sc.sf["ndbmtd"].gen = sc.cs.gen
            \/ sf'["ndbmtd"].spec = sc.sf["ndbmtd"].spec
        BY <2>6, <3>2 DEF ReconcileDataNodeStatefulSet, ReconcileStatefulSet, PatchStatefulSet,
           workloadHasConfigGeneration
      <3>. QED
        BY <1>3, <3>2, <3>3, WentOn
    <2>. QED
      BY <2>3, <2>4, <2>5, <2>6 DEF RolloutFlow, RolledOut
  <1>. QED
    BY <1>6, <1>7, <1>8, <1>9, Control

\* Every step keeps the whole of it.
LEMMA RollStep ==
    ASSUME IndInv, Existence, NoErrors, RollInv, [Next]_vars
    PROVE  RollInv'
  BY RolloutsStep, RevisionsStep, RolloutFlowStep, DataNodesStep, NodesGrowStep, NodesFitStep DEF RollInv

\* At first nothing is rolled out, and the user is at generation 1.
LEMMA RollInit == Init => RollInv
  <1> SUFFICES ASSUME Init PROVE RollInv
    OBVIOUS
  <1>1. \A w \in Workloads : \A s \in Views(w) : s = NoSfset
    BY DEF Init, Views, NoSync
  <1>2. NoSfset.spec = 0 /\ NoSfset.gen = 0 /\ NoSfset.reps = 0 /\ ~NoSfset.up
    BY DEF NoSfset
  <1>3. \A w \in Workloads : sf[w] = NoSfset /\ rolled[w] = 0
    BY DEF Init
  <1>4. \A p \in Claims : p = 0
    BY DEF Init, Claims, NoStatus, NoSync
  <1>5. Rollouts
    BY <1>1, <1>2, <1>3, <1>4 DEF Rollouts, Init, Exists
  <1>6. Revisions
    BY <1>1, <1>2, <1>3 DEF Revisions
  <1>7. RolloutFlow
    BY DEF RolloutFlow, Init, NoSync, PastRollout, Last, Checked, Workloads
  <1>8. DataNodesRolled
    BY <1>2, <1>3 DEF DataNodesRolled, Workloads, Exists
  <1>9. NodesGrow
    BY DEF NodesGrow, Init, FirstSpec
  <1>10. NodesFit
    BY <1>1, <1>2, ConstantsAssumption DEF NodesFit, Workloads, Gens
  <1>. QED
    BY <1>5, <1>6, <1>7, <1>8, <1>9, <1>10 DEF RollInv

\* If no spec is erroneous, the syncs keep all of these.
LEMMA Undisturbed ==
    ASSUME MayFail = {}
    PROVE  Spec => [](IndInv /\ Origins /\ Existence /\ NoErrors /\ RollInv)
  <1>1. Init => IndInv /\ Origins /\ Existence /\ NoErrors /\ RollInv
    BY InitInv, OriginsInit, ExistenceInit, NoErrorsInit, RollInit
  <1>2. IndInv /\ Origins /\ Existence /\ NoErrors /\ RollInv /\ [Next]_vars
        => (IndInv /\ Origins /\ Existence /\ NoErrors /\ RollInv)'
    BY NextInv, OriginsStep, ExistenceStep, NoErrorsStep, RollStep
  <1>. QED
    BY <1>1, <1>2, PTL DEF Spec

\* As long as no spec is erroneous, a processed generation is one that every
\* StatefulSet was completely rolled out at, with disruptions, faults and
\* copies of any age (ensureWorkloadsReadiness, ensureDataNodePodVersion).
THEOREM ProcessedAfterRollout ==
    ASSUME MayFail = {}
    PROVE  Spec => []ProcessedWasRolledOut
  <1>1. RollInv => ProcessedWasRolledOut
    BY DEF RollInv, Rollouts, Claims, ProcessedWasRolledOut
  <1>. QED
    BY <1>1, Undisturbed, PTL

\* As long as no spec is erroneous, a new generation gets into the ConfigMap
\* only after every StatefulSet was rolled out at the one before
\* (syncHandler, patchConfigMap).
THEOREM ConfigAfterRollout ==
    ASSUME MayFail = {}
    PROVE  Spec => ConfigAdoptedFirst
  <1>1. ASSUME IndInv, RollInv, [Next]_vars, cm.gen # 0, cm'.gen # cm.gen, NEW w \in Workloads
        PROVE  rolled[w] >= cm.gen
    <2>1. IndInv' /\ cm'.gen >= cm.gen
      BY <1>1, NextInv DEF Forward
    <2>2. IndInv' => /\ cm'.gen <= ncCache'.gen /\ ncCache'.gen <= nc'.gen
                     /\ cm'.gen \in Nat /\ ncCache'.gen \in Nat /\ nc'.gen \in Nat
      BY ConstantsAssumption DEF IndInv, Flow, TypeOK, NdbClusters, ConfigMaps
    <2>3. ~UpdateSpec
      BY <1>1 DEF UpdateSpec
    <2>4. nc'.gen = nc.gen
      BY <1>1, <2>3, GenMoves
    <2>5. nc.gen <= rolled[w] + 1 /\ rolled[w] \in Nat
      BY <1>1, RolledGrows DEF RollInv, Rollouts
    <2>. QED
      BY <1>1, <2>1, <2>2, <2>4, <2>5, Numbers
  <1>2. IndInv /\ RollInv /\ [Next]_vars
        => [(cm.gen # 0 /\ cm'.gen # cm.gen) =>
                HasSyncError(sc.nc) \/ \A w \in Workloads : rolled[w] >= cm.gen]_vars
    BY <1>1
  <1>. QED
    BY <1>2, Undisturbed, PTL DEF Spec, ConfigAdoptedFirst

-----------------------------------------------------------------------------
(* A TDE change erases no data node later *)

\* The current generation changes the TDE secret.
Rekeyed == nc.gen > 1 /\ specs[nc.gen - 1].tde # specs[nc.gen].tde

\* Everything that may ask for an initial restart: the ConfigMap, the data
\* nodes' StatefulSet, and the copies of them.
Flagged == {cm, cmCache, sc.cs} \cup Views("ndbmtd")
Cleared == \A x \in Flagged : ~x.init

\* It belongs to the current generation and no longer asks for one.
Off(x) == x.gen = nc.gen /\ ~x.init

\* A request is of the current generation, and only if that is a TDE change.
FlagsCurrent == \A x \in Flagged : x.init => x.gen = nc.gen /\ Rekeyed

\* The flag is part of the spec.
FlagsOfSpec == \A s \in Views("ndbmtd") : s.spec = sf["ndbmtd"].spec => s.init = sf["ndbmtd"].init

\* The order in which the request is dropped: from the ConfigMap once the
\* cache shows the StatefulSet that has it, from there through the cache into
\* the syncs, from there into the StatefulSet and then into the copies of it.
Handover ==
    /\ Off(cm) => sfCache["ndbmtd"].gen = nc.gen
    /\ Off(cmCache) => Off(cm)
    /\ Off(sc.cs) => Off(cmCache)
    /\ Off(sf["ndbmtd"]) => Off(cmCache) /\ (pc \in Configured => ~sc.cs.init)
    /\ Off(sfCache["ndbmtd"]) => Off(sf["ndbmtd"])
    /\ Off(sc.sf["ndbmtd"]) => Off(sfCache["ndbmtd"])
    /\ pc \in Checked \cup Last \cup {"mysqld"} /\ Off(sc.cs) => sc.sf["ndbmtd"].gen = nc.gen

\* What a sync has seen to, and what success and a status tell.
FlagFlow ==
    /\ pc \in Past("ndbmtd") /\ sc.cs.init => sc.sf["ndbmtd"].init
    /\ sc.success /\ sc.nc.gen = nc.gen => Cleared
    /\ \A p \in Claims : p = nc.gen => Cleared

\* No copy is ahead of the one it was taken from.
CopyOrder == sc.cs.gen <= cm.gen /\ sc.sf["ndbmtd"].gen <= sfCache["ndbmtd"].gen

FlagInv == FlagsCurrent /\ FlagsOfSpec /\ (Rekeyed => Handover) /\ FlagFlow /\ CopyOrder

\* The ConfigMap is patched at the end of a sync.
Repatching ==
    /\ pc = "cmpatch" /\ sc' = sc /\ pc' = "status" /\ UNCHANGED <<cmCache, sf, sfCache>>
    /\ sc.cs.gen # sc.nc.gen \/ sc.sf["ndbmtd"].init
    /\ LET new == GetUpdatedConfigMap(cmCache)
       IN /\ cm'.gen  = Merge(cm.gen, cmCache.gen, new.gen)
          /\ cm'.init = Merge(cm.init, cmCache.init, new.init)

\* The ways a step may change the ConfigMap and the copies of it.
LEMMA ConfigMoves ==
    ASSUME IndInv, NoErrors, [Next]_vars
    PROVE  /\ cm' = cm \/ Repatching \/ (cm = NoConfigMap /\ ~cm'.init)
           /\ cmCache' \in {cmCache, cm}
           /\ \/ sc'.cs \in {sc.cs, NoConfigMap}
              \/ sc'.cs = cmCache /\ cmCache' = cmCache
              \/ cm = NoConfigMap /\ sc'.cs = cm' /\ ~cm'.init
           /\ pc = "config" /\ pc' \in Configured =>
                 \/ sc'.cs = cmCache /\ cmCache' = cmCache
                 \/ cm = NoConfigMap /\ sc'.cs = cm' /\ ~cm'.init
  <1>1. CASE SyncStep /\ ~EnsureConfigMap
    <2>1. cmCache' = cmCache
      BY <1>1 DEF SyncStep, PatchConfigMapOnError, PatchConfigMap,
       EnsureManagementServerStatefulSet, EnsureDataNodeStatefulSet, EnsureStatefulSet,
       DeletePodOnStsUpdate, ValidateMySQLServerStatefulSet, HandleScaleDown,
       ReconcileManagementNodeStatefulSet, ReconcileDataNodeStatefulSet,
       EnsureDataNodePodVersion, ReconcileMySQLServerStatefulSet, StartNewDataNodes,
       CreateNodeGroups, ReorgNdbTables, RemoveAddNodeAnnotation, ReconcileRootUser,
       PatchRootAnnotations, FinishSync, UpdateNdbClusterStatus, caches
    <2>2. pc # "config"
      BY <1>1, ActionAt
    <2>3. sc'.cs \in {sc.cs, NoConfigMap}
      BY <2>2, SyncControl DEF Ended, Begun, GoesOn, Ignored, NoSync
    <2>4. CASE FinishSync
      BY <2>1, <2>2, <2>3, <2>4 DEF FinishSync, PatchConfigMap, Repatching, isInitialFlagSet, Goto, cluster
    <2>5. CASE ~FinishSync
      <3>1. cm' = cm
        BY <1>1, <2>5 DEF SyncStep, NoErrors, PatchConfigMapOnError,
         EnsureManagementServerStatefulSet, EnsureDataNodeStatefulSet, EnsureStatefulSet,
         DeletePodOnStsUpdate, ValidateMySQLServerStatefulSet, HandleScaleDown,
         ReconcileManagementNodeStatefulSet, ReconcileDataNodeStatefulSet,
         EnsureDataNodePodVersion, ReconcileMySQLServerStatefulSet, StartNewDataNodes,
         CreateNodeGroups, ReorgNdbTables, RemoveAddNodeAnnotation, ReconcileRootUser,
         PatchRootAnnotations, UpdateNdbClusterStatus, cluster
      <3>. QED
        BY <2>1, <2>2, <2>3, <3>1
    <2>. QED
      BY <2>4, <2>5
  <1>2. CASE EnsureConfigMap
    <2>1. sc \in SyncContexts
      BY DEF IndInv, TypeOK, SyncContexts
    <2>2. cmCache' = cmCache /\ pc = "config"
      BY <1>2 DEF EnsureConfigMap, caches
    <2>3. \/ cm' = cm /\ sc' = [sc EXCEPT !.cs = cmCache]
          \/ /\ cm = NoConfigMap /\ cm' = [gen |-> sc.nc.gen, init |-> FALSE]
             /\ sc' = [sc EXCEPT !.cs = cm']
          \/ FailSync /\ cm' = cm
      BY <1>2 DEF EnsureConfigMap
    <2>4. CASE FailSync /\ cm' = cm
      BY <2>2, <2>4 DEF FailSync, NoSync, Configured, Steps
    <2>5. CASE cm' = cm /\ sc' = [sc EXCEPT !.cs = cmCache]
      <3>1. sc'.cs = cmCache
        BY <2>1, <2>5 DEF SyncContexts
      <3>. QED
        BY <2>2, <2>5, <3>1
    <2>6. CASE /\ cm = NoConfigMap /\ cm' = [gen |-> sc.nc.gen, init |-> FALSE]
               /\ sc' = [sc EXCEPT !.cs = cm']
      <3>1. sc'.cs = cm' /\ ~cm'.init
        BY <2>1, <2>6 DEF SyncContexts
      <3>. QED
        BY <2>2, <2>6, <3>1
    <2>. QED
      BY <2>3, <2>4, <2>5, <2>6
  <1>3. CASE ~SyncStep
    <2>1. cm' = cm /\ cmCache' \in {cmCache, cm}
      BY <1>3 DEF Next, SyncBegin, Informers, DeliverNdbCluster, Resync, DeliverConfigMap,
       DeliverStatefulSets, DeliverPods, Kubernetes, ObserveStatefulSet, PodsBecomeReady,
       UpdateSpec, StepFails, CreateNodeGroupFails, StatusUpdateFails, RelistStatefulSets,
       OperatorRestart, PodDisrupted, cluster, caches, vars
    <2>2. \/ pc' = "idle" /\ sc' = NoSync
          \/ pc' = "config" /\ sc'.cs = NoConfigMap
          \/ pc' = pc /\ sc' = sc
      BY <1>3, SyncControl, Control DEF Ended, Begun, GoesOn, Ignored, NoSync, SyncBegin, Goto
    <2>3. NoSync.cs = NoConfigMap
      BY DEF NoSync
    <2>. QED
      BY <2>1, <2>2, <2>3 DEF Configured, Steps
  <1>. QED
    BY <1>1, <1>2, <1>3

\* The order of the generations, as far as the flags depend on it.
LEMMA FlagFacts ==
    ASSUME IndInv, Existence, RollInv, CopyOrder
    PROVE  /\ nc.gen \in Gens /\ nc.gen \in Nat /\ nc.gen >= 1
           /\ \A x \in Flagged : x.gen \in Nat /\ x.gen <= nc.gen /\ x.init \in BOOLEAN
           /\ nc.gen <= sf["ndbmtd"].gen + 1 /\ sf["ndbmtd"].gen <= cm.gen /\ cmCache.gen <= cm.gen
           /\ sfCache["ndbmtd"].gen <= sf["ndbmtd"].gen /\ sc.sf["ndbmtd"].gen <= sf["ndbmtd"].gen
           /\ nc.gen > 1 => Exists(sf["ndbmtd"]) /\ cm # NoConfigMap
           /\ pc \in Configured => /\ sc.cs.gen \in Gens /\ sc.nc.gen \in Gens
                                   /\ sc.cs.gen \in Nat /\ sc.nc.gen \in Nat
                                   /\ sf["ndbmtd"].gen <= sc.cs.gen /\ sc.cs.gen <= cm.gen
                                   /\ cm.gen <= sc.nc.gen /\ sc.nc.gen <= nc.gen
                                   /\ nc.gen <= sc.cs.gen + 1
  <1> DEFINE w == "ndbmtd"
  <1>1. /\ w \in Workloads /\ nc.gen \in Gens /\ nc.gen \in Nat /\ nc.gen >= 1
    BY ConstantsAssumption DEF Workloads, IndInv, Flow, Gens
  <1>2. /\ sf[w].gen <= cm.gen /\ cm.gen <= ncCache.gen /\ ncCache.gen <= nc.gen
        /\ cmCache.gen <= cm.gen /\ sfCache[w].gen <= sf[w].gen /\ sc.sf[w].gen <= sf[w].gen
        /\ sc.cs.gen <= cm.gen
    BY <1>1 DEF IndInv, Flow, Copies, CopyOrder
  <1>3. /\ cm.gen \in Nat /\ ncCache.gen \in Nat /\ cmCache.gen \in Nat /\ sc.cs.gen \in Nat
        /\ sf[w].gen \in Nat /\ sfCache[w].gen \in Nat /\ sc.sf[w].gen \in Nat /\ sc.nc.gen \in Nat
    BY <1>1, Numbers
  <1>4. nc.gen <= sf[w].gen + 1
    <2>1. nc.gen <= rolled[w] + 1 /\ rolled[w] <= sf[w].gen /\ rolled[w] \in Nat
      BY <1>1, ConstantsAssumption DEF RollInv, Rollouts, IndInv, TypeOK
    <2>. QED
      BY <1>1, <1>3, <2>1
  <1>5. \A x \in Flagged : x.init \in BOOLEAN
    BY <1>1 DEF Flagged, Views, IndInv, TypeOK, ConfigMaps, Sfsets
  <1>6. \A x \in Flagged : x.gen \in Nat /\ x.gen <= nc.gen
    <2>1. sf[w].gen <= nc.gen /\ cm.gen <= nc.gen /\ cmCache.gen <= nc.gen /\ sc.cs.gen <= nc.gen
          /\ sfCache[w].gen <= nc.gen /\ sc.sf[w].gen <= nc.gen
      BY <1>1, <1>2, <1>3
    <2>. QED
      BY <1>3, <2>1 DEF Flagged, Views
  <1>7. nc.gen > 1 => Exists(sf[w]) /\ cm # NoConfigMap
    <2>1. nc.gen > 1 => sf[w].gen >= 1 /\ cm.gen >= 1
      BY <1>1, <1>2, <1>3, <1>4
    <2>2. sf[w].gen \in 0..MaxGen
      BY <1>1 DEF IndInv, TypeOK, Sfsets
    <2>3. sf[w].gen >= 1 => Exists(sf[w])
      BY <1>1, <2>2, ConstantsAssumption DEF Existence, Views, Gens
    <2>4. NoConfigMap.gen = 0
      BY DEF NoConfigMap
    <2>. QED
      BY <2>1, <2>3, <2>4
  <1>8. pc \in Configured => /\ sc.cs.gen \in Gens /\ sc.nc.gen \in Gens
                             /\ sf[w].gen <= sc.cs.gen
                             /\ cm.gen <= sc.nc.gen /\ sc.nc.gen <= ncCache.gen
    BY <1>1 DEF IndInv, SyncFlow, Configured, Steps
  <1>9. pc \in Configured => sc.nc.gen <= nc.gen /\ nc.gen <= sc.cs.gen + 1
    BY <1>1, <1>2, <1>3, <1>4, <1>8
  <1>. QED
    BY <1>1, <1>2, <1>3, <1>4, <1>5, <1>6, <1>7, <1>8, <1>9

\* How the flag of the StatefulSet changes: it is that of the config at hand
\* if the patch touches it.
LEMMA FlagWrites ==
    ASSUME IndInv, [Next]_vars
    PROVE  LET s == sf["ndbmtd"]  t == sf'["ndbmtd"]
           IN \/ t.gen = s.gen /\ t.init = s.init
              \/ /\ pc \in Configured /\ Created("ndbmtd")
                 /\ t.gen = sc.cs.gen /\ t.init = sc.cs.init
              \/ /\ pc \in Configured
                 /\ \E old \in {sfCache["ndbmtd"], sc.sf["ndbmtd"]} :
                       /\ t.gen = Merge(s.gen, old.gen, sc.cs.gen)
                       /\ t.init = Merge(s.init, old.init, sc.cs.init)
  <1> DEFINE w == "ndbmtd"
  <1>1. w \in Workloads
    BY DEF Workloads
  <1>2. CASE Kept(w)
    BY <1>2 DEF Kept, Observed, Readied, Disturbed, Written
  <1>3. CASE Created(w)
    <2>1. sc.cs.init \in BOOLEAN
      BY DEF IndInv, TypeOK, ConfigMaps
    <2>. QED
      BY <1>1, <1>3, <2>1, CreatedFields DEF Created
  <1>4. CASE Repatched(w)
    <2>1. PICK old \in {sfCache[w], sc.sf[w]}, new \in Sfsets :
              Wanted(w, old, new) /\ sf'[w] = Patched(w, old, new)
      BY <1>4 DEF Repatched
    <2>2. old \in Sfsets /\ pc \in Configured
      BY <1>1, <1>4, RepatchFacts DEF Repatched
    <2>3. /\ sf'[w].gen = Merge(sf[w].gen, old.gen, new.gen)
          /\ sf'[w].init = Merge(sf[w].init, old.init, new.init)
      BY <1>1, <1>4, <2>1, <2>2, RepatchFacts, PatchedFields
    <2>4. CASE new = UpdatedStatefulSet(w, old, sc.cs, sc.nc)
      <3>1. new.gen = sc.cs.gen /\ new.init = (w = "ndbmtd" /\ sc.cs.init)
        BY <1>1, <1>4, <2>2, <2>4, RepatchFacts, UpdatedFields
      <3>2. sc.cs.init \in BOOLEAN
        BY DEF IndInv, TypeOK, ConfigMaps
      <3>. QED
        BY <2>2, <2>3, <3>1, <3>2
    <2>5. CASE new.gen = old.gen /\ new.init = old.init
      BY <2>3, <2>5 DEF Merge
    <2>6. \/ new = UpdatedStatefulSet(w, old, sc.cs, sc.nc)
          \/ new.gen = old.gen /\ new.init = old.init
      BY <2>1, <2>2 DEF Wanted, Sfsets
    <2>. QED
      BY <2>4, <2>5, <2>6
  <1>. QED
    BY <1>1, <1>2, <1>3, <1>4, Writes

\* The ConfigMap asks for no initial restart again once it has dropped the
\* request, and does not drop it before the StatefulSet has it.
LEMMA ConfigFlag ==
    ASSUME IndInv, Existence, NoErrors, RollInv, FlagInv, Repatching
    PROVE  /\ cm'.init => cm.init \/ Rekeyed
           /\ cm'.init /\ ~cm.init => cm'.gen = nc.gen
           /\ Rekeyed /\ cm'.gen = nc.gen /\ ~cm'.init /\ ~Off(cm) => sc.sf["ndbmtd"].init
           /\ sf["ndbmtd"].gen = nc.gen => (cm'.init => cm.init)
  <1> DEFINE new == GetUpdatedConfigMap(cmCache)
  <1>1. /\ cm'.gen = Merge(cm.gen, cmCache.gen, new.gen)
        /\ cm'.init = Merge(cm.init, cmCache.init, new.init)
        /\ sc.cs.gen # sc.nc.gen \/ sc.sf["ndbmtd"].init
        /\ pc \in Configured
    BY DEF Repatching, Configured, Steps
  <1>2. /\ nc.gen \in Nat /\ sc.cs.gen \in Nat /\ sc.nc.gen \in Nat
        /\ cm.gen \in Nat /\ cmCache.gen \in Nat /\ sf["ndbmtd"].gen \in Nat
        /\ cm.init \in BOOLEAN /\ cmCache.init \in BOOLEAN
        /\ cmCache.gen <= cm.gen /\ sf["ndbmtd"].gen <= sc.cs.gen /\ sc.cs.gen <= cm.gen
        /\ cm.gen <= sc.nc.gen /\ sc.nc.gen <= nc.gen /\ nc.gen <= sc.cs.gen + 1
        /\ sc.cs.gen >= 1
    <2>1. \A g \in Gens : g >= 1
      BY ConstantsAssumption DEF Gens
    <2>. QED
      BY <1>1, <2>1, FlagFacts DEF FlagInv, Flagged, Views
  <1>3. CASE sc.cs.gen = sc.nc.gen
    <2>1. new.gen = cmCache.gen /\ new.init = FALSE
      BY <1>3 DEF GetUpdatedConfigMap, IndInv, TypeOK, ConfigMaps
    <2>2. cm'.init => cm.init
      BY <1>1, <1>2, <2>1 DEF Merge
    <2>. QED
      BY <1>1, <1>3, <2>2
  <1>4. CASE sc.cs.gen # sc.nc.gen
    <2>1. sc.nc.gen = nc.gen /\ sc.cs.gen = nc.gen - 1 /\ nc.gen > 1
      BY <1>2, <1>4
    <2>2. new.gen = nc.gen /\ new.init = (cmCache.init \/ Rekeyed)
      BY <1>4, <2>1 DEF GetUpdatedConfigMap, Rekeyed
    <2>3. cmCache.init => cmCache.gen = nc.gen /\ Rekeyed
      BY DEF FlagInv, FlagsCurrent, Flagged
    <2>4. cm.init => cm.gen = nc.gen /\ Rekeyed
      BY DEF FlagInv, FlagsCurrent, Flagged
    <2>5. cm'.init => cm.init \/ Rekeyed
      BY <1>1, <2>2, <2>3 DEF Merge
    <2>6. cm'.gen = nc.gen
      BY <1>1, <1>2, <2>1, <2>2 DEF Merge
    <2>7. Rekeyed /\ ~cm'.init => Off(cm)
      <3>1. ASSUME Rekeyed, ~cm'.init
            PROVE  cmCache.init /\ ~cm.init
        BY <1>1, <1>2, <2>2, <3>1 DEF Merge
      <3>2. ASSUME cmCache.init, ~cm.init
            PROVE  Off(cm)
        BY <1>2, <2>1, <2>3, <3>2 DEF Off
      <3>. QED
        BY <3>1, <3>2
    <2>8. sf["ndbmtd"].gen # nc.gen
      BY <1>2, <2>1
    <2>. QED
      BY <2>5, <2>6, <2>7, <2>8
  <1>. QED
    BY <1>3, <1>4

\* Where the request is gone it stays gone, until the next update.
LEMMA OffStays ==
    ASSUME IndInv, Existence, NoErrors, RollInv, FlagInv, Rekeyed, [Next]_vars, nc'.gen = nc.gen
    PROVE  /\ Off(cm) => Off(cm)'
           /\ Off(cmCache) => Off(cmCache)'
           /\ Off(sf["ndbmtd"]) => Off(sf["ndbmtd"])'
           /\ Off(sfCache["ndbmtd"]) => Off(sfCache["ndbmtd"])'
  <1>1. Handover /\ "ndbmtd" \in Workloads /\ nc.gen > 1
    BY DEF FlagInv, Workloads, Rekeyed
  <1>2. /\ nc.gen \in Nat /\ \A x \in Flagged : x.gen \in Nat /\ x.gen <= nc.gen /\ x.init \in BOOLEAN
        /\ Exists(sf["ndbmtd"]) /\ cm # NoConfigMap
    BY <1>1, FlagFacts DEF FlagInv
  <1>3. Off(cm) => Off(cm)'
    <2> SUFFICES ASSUME Off(cm)
                 PROVE  cm'.gen = nc.gen /\ ~cm'.init
      BY DEF Off
    <2>1. cm.gen = nc.gen /\ ~cm.init
      BY DEF Off
    <2>2. sfCache["ndbmtd"].gen = nc.gen
      BY <1>1 DEF Handover
    <2>3. sf["ndbmtd"].gen = nc.gen
      <3>1. sfCache["ndbmtd"].gen <= sf["ndbmtd"].gen /\ sf["ndbmtd"].gen \in Nat /\ sf["ndbmtd"].gen <= nc.gen
        BY <1>2, FlagFacts DEF FlagInv, Flagged, Views
      <3>. QED
        BY <1>2, <2>2, <3>1
    <2>4. cm'.gen = nc.gen
      <3>1. cm'.gen >= cm.gen /\ IndInv'
        BY NextInv DEF Forward
      <3>2. IndInv' => /\ cm'.gen <= ncCache'.gen /\ ncCache'.gen <= nc'.gen
                       /\ cm'.gen \in Nat /\ ncCache'.gen \in Nat
        BY ConstantsAssumption DEF IndInv, Flow, TypeOK, NdbClusters, ConfigMaps
      <3>. QED
        BY <1>2, <2>1, <3>1, <3>2
    <2>5. ~cm'.init
      BY <1>2, <2>1, <2>3, ConfigMoves, ConfigFlag
    <2>. QED
      BY <2>4, <2>5
  <1>4. Off(cmCache) => Off(cmCache)'
    <2> SUFFICES ASSUME Off(cmCache)
                 PROVE  Off(cmCache)'
      OBVIOUS
    <2>1. Off(cm)
      BY <1>1 DEF Handover
    <2>. QED
      BY <2>1, ConfigMoves DEF Off
  <1>5. Off(sf["ndbmtd"]) => Off(sf["ndbmtd"])'
    <2> SUFFICES ASSUME Off(sf["ndbmtd"])
                 PROVE  sf'["ndbmtd"].gen = nc.gen /\ ~sf'["ndbmtd"].init
      BY DEF Off
    <2>1. sf["ndbmtd"].gen = nc.gen /\ ~sf["ndbmtd"].init
      BY DEF Off
    <2>2. pc \in Configured => ~sc.cs.init
      BY <1>1 DEF Handover
    <2>3. ~Created("ndbmtd")
      BY <1>2 DEF Created
    <2>4. ~sf'["ndbmtd"].init
      BY <2>1, <2>2, <2>3, FlagWrites DEF Merge
    <2>5. sf'["ndbmtd"].gen = nc.gen
      <3>1. sf'["ndbmtd"].gen >= sf["ndbmtd"].gen /\ IndInv'
        BY <1>1, NextInv DEF Forward
      <3>2. IndInv' => /\ sf'["ndbmtd"].gen <= cm'.gen /\ cm'.gen <= ncCache'.gen /\ ncCache'.gen <= nc'.gen
                       /\ cm'.gen \in Nat /\ ncCache'.gen \in Nat /\ sf'["ndbmtd"].gen \in Nat
        BY <1>1, ConstantsAssumption DEF IndInv, Flow, TypeOK, NdbClusters, ConfigMaps, Sfsets
      <3>. QED
        BY <1>2, <2>1, <3>1, <3>2
    <2>. QED
      BY <2>4, <2>5
  <1>6. Off(sfCache["ndbmtd"]) => Off(sfCache["ndbmtd"])'
    <2> SUFFICES ASSUME Off(sfCache["ndbmtd"])
                 PROVE  Off(sfCache["ndbmtd"])'
      OBVIOUS
    <2>1. Off(sf["ndbmtd"])
      BY <1>1 DEF Handover
    <2>. QED
      BY <1>1, <2>1, CopyMoves DEF Off
  <1>. QED
    BY <1>3, <1>4, <1>5, <1>6

\* The sync that takes the request off the StatefulSet has none in its config.
LEMMA OffWritten ==
    ASSUME IndInv, Existence, NoErrors, RollInv, FlagInv, Rekeyed, [Next]_vars, nc'.gen = nc.gen,
           Off(sf["ndbmtd"])', ~Off(sf["ndbmtd"])
    PROVE  pc \in Configured /\ Off(sc.cs)
  <1>1. nc.gen > 1 /\ FlagsCurrent
    BY DEF FlagInv, Rekeyed
  <1>2. /\ nc.gen \in Nat /\ \A x \in Flagged : x.gen \in Nat /\ x.gen <= nc.gen /\ x.init \in BOOLEAN
        /\ Exists(sf["ndbmtd"])
        /\ pc \in Configured => sf["ndbmtd"].gen <= sc.cs.gen
        /\ sfCache["ndbmtd"].gen <= sf["ndbmtd"].gen /\ sc.sf["ndbmtd"].gen <= sf["ndbmtd"].gen
    BY <1>1, FlagFacts DEF FlagInv
  <1>3. sf'["ndbmtd"].gen = nc.gen /\ ~sf'["ndbmtd"].init
    BY DEF Off
  <1>4. ~Created("ndbmtd")
    BY <1>2 DEF Created
  <1>5. ~(sf'["ndbmtd"].gen = sf["ndbmtd"].gen /\ sf'["ndbmtd"].init = sf["ndbmtd"].init)
    BY <1>3 DEF Off
  <1>6. PICK old \in {sfCache["ndbmtd"], sc.sf["ndbmtd"]} :
           /\ pc \in Configured
           /\ sf'["ndbmtd"].gen = Merge(sf["ndbmtd"].gen, old.gen, sc.cs.gen)
           /\ sf'["ndbmtd"].init = Merge(sf["ndbmtd"].init, old.init, sc.cs.init)
    BY <1>4, <1>5, FlagWrites
  <1>7. /\ old \in Flagged /\ sf["ndbmtd"] \in Flagged /\ sc.cs \in Flagged
        /\ old.gen <= sf["ndbmtd"].gen
    BY <1>2 DEF Flagged, Views
  <1>8. /\ old.gen \in Nat /\ sf["ndbmtd"].gen \in Nat /\ sc.cs.gen \in Nat
        /\ sf["ndbmtd"].gen <= sc.cs.gen /\ sc.cs.gen <= nc.gen /\ sf["ndbmtd"].gen <= nc.gen
        /\ old.init \in BOOLEAN /\ sf["ndbmtd"].init \in BOOLEAN /\ sc.cs.init \in BOOLEAN
    BY <1>2, <1>6, <1>7
  <1>9. sc.cs.gen = nc.gen
    <2>1. sf["ndbmtd"].gen = nc.gen \/ sc.cs.gen = nc.gen
      BY <1>3, <1>6 DEF Merge
    <2>. QED
      BY <1>2, <1>8, <2>1
  <1>10. ~sc.cs.init
    <2>1. CASE sf["ndbmtd"].gen = nc.gen
      <3>1. sf["ndbmtd"].init
        BY <2>1 DEF Off
      <3>. QED
        BY <1>3, <1>6, <1>8, <3>1 DEF Merge
    <2>2. CASE sf["ndbmtd"].gen # nc.gen
      <3>1. ~old.init
        <4>1. old.gen # nc.gen
          BY <1>2, <1>7, <1>8, <2>2
        <4>. QED
          BY <1>1, <1>7, <4>1 DEF FlagsCurrent
      <3>. QED
        BY <1>3, <1>6, <1>8, <3>1 DEF Merge
    <2>. QED
      BY <2>1, <2>2
  <1>. QED
    BY <1>6, <1>9, <1>10 DEF Off

\* No copy gets ahead of the one it is taken from.
LEMMA CopyOrderStep ==
    ASSUME IndInv, NoErrors, CopyOrder, [Next]_vars
    PROVE  CopyOrder'
  <1>1. IndInv' /\ cm'.gen >= cm.gen /\ "ndbmtd" \in Workloads
    BY NextInv DEF Forward, Workloads
  <1>2. IndInv' => /\ cm'.gen \in Nat /\ sfCache'["ndbmtd"].gen \in Nat
                   /\ cmCache'.gen <= cm'.gen
    BY <1>1, ConstantsAssumption DEF IndInv, TypeOK, Flow, ConfigMaps, Sfsets
  <1>3. /\ cm.gen \in Nat /\ cmCache.gen \in Nat /\ sc.cs.gen \in Nat
        /\ cmCache.gen <= cm.gen /\ sfCache["ndbmtd"].gen <= sf["ndbmtd"].gen
        /\ sf["ndbmtd"].gen \in Nat /\ sfCache["ndbmtd"].gen \in Nat /\ sc.sf["ndbmtd"].gen \in Nat
    BY <1>1, Numbers DEF IndInv, Flow, Copies
  <1>4. sc'.cs.gen <= cm'.gen
    <2>1. sc'.cs = sc.cs \/ sc'.cs = NoConfigMap \/ sc'.cs = cmCache \/ sc'.cs = cm'
      BY ConfigMoves
    <2>2. NoConfigMap.gen = 0
      BY DEF NoConfigMap
    <2>. QED
      BY <1>1, <1>2, <1>3, <2>1, <2>2 DEF CopyOrder
  <1>5. sc'.sf["ndbmtd"].gen <= sfCache'["ndbmtd"].gen
    <2>1. /\ sfCache'["ndbmtd"] = sfCache["ndbmtd"] \/ sfCache'["ndbmtd"] = sf["ndbmtd"]
          /\ \/ sc'.sf["ndbmtd"] = sc.sf["ndbmtd"] \/ sc'.sf["ndbmtd"] = sfCache["ndbmtd"]
             \/ sc'.sf["ndbmtd"] = NoSfset
      BY <1>1, CopyMoves
    <2>2. NoSfset.gen = 0
      BY DEF NoSfset
    <2>. QED
      BY <1>1, <1>2, <1>3, <2>1, <2>2 DEF CopyOrder
  <1>. QED
    BY <1>4, <1>5 DEF CopyOrder

\* The user updates a NdbCluster only when nothing asks for an initial restart.
LEMMA FlagUpdate ==
    ASSUME IndInv, Existence, NoErrors, RollInv, FlagInv, [Next]_vars, UpdateSpec
    PROVE  FlagInv'
  <1>1. /\ UNCHANGED <<cm, cmCache, sf, sfCache, pc, sc, ncCache>>
        /\ nc'.gen = nc.gen + 1 /\ nc'.status = nc.status
    BY DEF UpdateSpec, caches, IndInv, TypeOK, NdbClusters
  <1>2. nc.status.proc = nc.gen
    BY DEF UpdateSpec, validateUpdate, NoErrors
  <1>3. Cleared
    BY <1>2 DEF FlagInv, FlagFlow, Claims
  <1>4. /\ nc.gen \in Nat /\ \A x \in Flagged : x.gen \in Nat /\ x.gen <= nc.gen
    BY FlagFacts DEF FlagInv
  <1>5. Flagged' = Flagged /\ Views("ndbmtd")' = Views("ndbmtd") /\ Claims' = Claims
    BY <1>1 DEF Flagged, Views, Claims
  <1>6. \A x \in Flagged : x.gen # nc'.gen
    BY <1>1, <1>4
  <1>7. Cleared' /\ FlagsCurrent' /\ FlagsOfSpec' /\ CopyOrder'
    BY <1>1, <1>3, <1>5 DEF FlagInv, FlagsCurrent, FlagsOfSpec, CopyOrder, Cleared
  <1>8. Handover'
    BY <1>1, <1>6 DEF Handover, Off, Flagged, Views
  <1>9. FlagFlow'
    <2>1. pc \in Past("ndbmtd") /\ sc.cs.init => sc.sf["ndbmtd"].init
      BY DEF FlagInv, FlagFlow
    <2>. QED
      BY <1>1, <1>7, <2>1 DEF FlagFlow
  <1>. QED
    BY <1>7, <1>8, <1>9 DEF FlagInv

\* A request is only ever made for the current generation.
LEMMA FlagsCurrentStep ==
    ASSUME IndInv, Existence, NoErrors, RollInv, FlagInv, [Next]_vars,
           nc'.gen = nc.gen, specs' = specs
    PROVE  FlagsCurrent'
  <1>1. "ndbmtd" \in Workloads /\ FlagsCurrent /\ Rekeyed' = Rekeyed
    BY DEF Workloads, FlagInv, Rekeyed
  <1>2. \A x \in Flagged : x.init => x.gen = nc.gen /\ Rekeyed
    BY <1>1 DEF FlagsCurrent
  <1>3. cm'.init => cm'.gen = nc.gen /\ Rekeyed
    <2>1. CASE cm' = cm
      BY <1>2, <2>1 DEF Flagged
    <2>2. CASE Repatching
      <3> SUFFICES ASSUME cm'.init
                   PROVE  cm'.gen = nc.gen /\ Rekeyed
        OBVIOUS
      <3>1. /\ cm.init \/ Rekeyed
            /\ ~cm.init => cm'.gen = nc.gen
        BY <2>2, ConfigFlag
      <3>2. CASE cm.init
        <4>1. cm.gen = nc.gen /\ Rekeyed
          BY <1>2, <3>2 DEF Flagged
        <4>2. cm'.gen >= cm.gen /\ IndInv' /\ nc.gen \in Nat
          BY NextInv, Numbers DEF Forward
        <4>3. IndInv' => /\ cm'.gen <= ncCache'.gen /\ ncCache'.gen <= nc'.gen
                         /\ cm'.gen \in Nat /\ ncCache'.gen \in Nat
          BY ConstantsAssumption DEF IndInv, Flow, TypeOK, NdbClusters, ConfigMaps
        <4>. QED
          BY <4>1, <4>2, <4>3
      <3>. QED
        BY <3>1, <3>2
    <2>. QED
      BY <2>1, <2>2, ConfigMoves
  <1>4. sf'["ndbmtd"].init => sf'["ndbmtd"].gen = nc.gen /\ Rekeyed
    <2> SUFFICES ASSUME sf'["ndbmtd"].init
                 PROVE  sf'["ndbmtd"].gen = nc.gen /\ Rekeyed
      OBVIOUS
    <2>1. sf'["ndbmtd"].gen >= sf["ndbmtd"].gen /\ IndInv' /\ nc.gen \in Nat /\ sf["ndbmtd"].gen \in Nat
      BY <1>1, NextInv, Numbers DEF Forward
    <2>2. IndInv' => /\ sf'["ndbmtd"].gen <= cm'.gen /\ cm'.gen <= ncCache'.gen /\ ncCache'.gen <= nc'.gen
                     /\ cm'.gen \in Nat /\ ncCache'.gen \in Nat /\ sf'["ndbmtd"].gen \in Nat
      BY <1>1, ConstantsAssumption DEF IndInv, Flow, TypeOK, NdbClusters, ConfigMaps, Sfsets
    <2>3. CASE sf["ndbmtd"].init
      <3>1. sf["ndbmtd"].gen = nc.gen /\ Rekeyed
        BY <1>2, <2>3 DEF Flagged, Views
      <3>. QED
        BY <2>1, <2>2, <3>1
    <2>4. CASE ~sf["ndbmtd"].init
      <3>1. /\ pc \in Configured /\ sc.cs.init
            /\ \/ sf'["ndbmtd"].gen = sc.cs.gen
               \/ \E old \in {sfCache["ndbmtd"], sc.sf["ndbmtd"]} :
                     sf'["ndbmtd"].gen = Merge(sf["ndbmtd"].gen, old.gen, sc.cs.gen)
        <4>1. \A a, b, c \in BOOLEAN : Merge(a, b, c) /\ ~a => c
          BY DEF Merge
        <4>2. \A x \in Flagged : x.init \in BOOLEAN
          BY FlagFacts DEF FlagInv
        <4>3. /\ sf["ndbmtd"].init \in BOOLEAN /\ sfCache["ndbmtd"].init \in BOOLEAN
              /\ sc.sf["ndbmtd"].init \in BOOLEAN /\ sc.cs.init \in BOOLEAN
          BY <4>2 DEF Flagged, Views
        <4>. QED
          BY <2>4, <4>1, <4>3, FlagWrites
      <3>2. sc.cs.gen = nc.gen /\ Rekeyed
        BY <1>2, <3>1 DEF Flagged
      <3>3. CASE sf'["ndbmtd"].gen = sc.cs.gen
        BY <3>2, <3>3
      <3>4. ASSUME NEW old \in {sfCache["ndbmtd"], sc.sf["ndbmtd"]},
                   sf'["ndbmtd"].gen = Merge(sf["ndbmtd"].gen, old.gen, sc.cs.gen)
            PROVE  sf'["ndbmtd"].gen = nc.gen
        <4>1. old.gen \in Nat /\ old.gen <= sf["ndbmtd"].gen /\ sf["ndbmtd"].gen <= nc.gen
          BY FlagFacts DEF FlagInv, Flagged, Views
        <4>. QED
          BY <2>1, <3>2, <3>4, <4>1 DEF Merge
      <3>. QED
        BY <3>1, <3>2, <3>3, <3>4
    <2>. QED
      BY <2>3, <2>4
  <1>5. \A x \in Flagged' : x \in Flagged \cup {cm', sf'["ndbmtd"], NoSfset, NoConfigMap}
    <2>1. \A s \in Views("ndbmtd")' : s \in Views("ndbmtd") \cup {sf'["ndbmtd"], NoSfset}
      BY <1>1, ViewMoves
    <2>2. cmCache' \in {cmCache, cm} /\ sc'.cs \in {sc.cs, NoConfigMap, cmCache, cm'}
      BY ConfigMoves
    <2>. QED
      BY <2>1, <2>2 DEF Flagged
  <1>6. ~NoSfset.init /\ ~NoConfigMap.init
    BY DEF NoSfset, NoConfigMap
  <1>7. \A x \in Flagged' : x.init => x.gen = nc'.gen /\ Rekeyed'
    BY <1>1, <1>2, <1>3, <1>4, <1>5, <1>6
  <1>. QED
    BY <1>7 DEF FlagsCurrent

\* A copy with the metadata.generation of the StatefulSet has its flag.
LEMMA FlagsOfSpecStep ==
    ASSUME IndInv, Existence, NoErrors, RollInv, FlagInv, [Next]_vars,
           nc'.gen = nc.gen, specs' = specs
    PROVE  FlagsOfSpec'
  <1> SUFFICES ASSUME NEW s \in Views("ndbmtd")', s.spec = sf'["ndbmtd"].spec
               PROVE  s.init = sf'["ndbmtd"].init
    BY DEF FlagsOfSpec
  <1>1. "ndbmtd" \in Workloads /\ FlagsOfSpec
    BY DEF Workloads, FlagInv
  <1>2. sf["ndbmtd"].spec \in Nat /\ sf'["ndbmtd"].spec \in Nat /\ sf["ndbmtd"].spec <= sf'["ndbmtd"].spec
    BY <1>1, SpecGrows
  <1>3. CASE s \in Views("ndbmtd")
    <2>1. s.spec \in Nat /\ s.spec <= sf["ndbmtd"].spec
      BY <1>1, <1>3 DEF RollInv, Revisions, Views, IndInv, TypeOK, Sfsets
    <2>2. sf'["ndbmtd"].spec = sf["ndbmtd"].spec /\ s.spec = sf["ndbmtd"].spec
      BY <1>2, <2>1
    <2>3. s.init = sf["ndbmtd"].init
      BY <1>1, <1>3, <2>2 DEF FlagsOfSpec
    <2>4. sf'["ndbmtd"].init = sf["ndbmtd"].init
      <3>1. CASE Kept("ndbmtd")
        BY <3>1 DEF Kept, Observed, Readied, Disturbed, Written
      <3>2. CASE Created("ndbmtd")
        BY <1>1, <2>2, <3>2, CreatedFields DEF Created, Exists
      <3>3. CASE Repatched("ndbmtd")
        <4>1. PICK old \in {sfCache["ndbmtd"], sc.sf["ndbmtd"]}, new \in Sfsets :
                  sf'["ndbmtd"] = Patched("ndbmtd", old, new)
          BY <3>3 DEF Repatched
        <4>2. old \in Sfsets /\ sf \in [Workloads -> Sfsets]
          BY <1>1, <3>3, RepatchFacts
        <4>3. \/ sf'["ndbmtd"].init = sf["ndbmtd"].init
              \/ sf'["ndbmtd"].spec = sf["ndbmtd"].spec + 1
          BY <1>1, <4>1, <4>2, PatchedFields
        <4>4. sf["ndbmtd"].spec # sf["ndbmtd"].spec + 1
          BY <1>2
        <4>. QED
          BY <2>2, <4>3, <4>4
      <3>. QED
        BY <1>1, <3>1, <3>2, <3>3, Writes
    <2>. QED
      BY <2>3, <2>4
  <1>4. CASE s = NoSfset
    <2>1. ~Exists(sf'["ndbmtd"]) /\ ~s.init
      BY <1>4 DEF NoSfset, Exists
    <2>2. ~(sf'["ndbmtd"].gen \in Gens)
      <3>1. Existence'
        BY ExistenceStep
      <3>. QED
        BY <1>1, <2>1, <3>1 DEF Existence, Views, Exists
    <2>3. ~sf'["ndbmtd"].init
      <3>1. FlagsCurrent'
        BY FlagsCurrentStep
      <3>2. sf'["ndbmtd"].init => sf'["ndbmtd"].gen = nc'.gen
        BY <3>1 DEF FlagsCurrent, Flagged, Views
      <3>3. nc'.gen \in Gens
        BY DEF IndInv, Flow
      <3>. QED
        BY <2>2, <3>2, <3>3
    <2>4. sf'["ndbmtd"].init \in BOOLEAN
      <3>1. IndInv'
        BY NextInv
      <3>2. IndInv' => sf'["ndbmtd"].init \in BOOLEAN
        BY <1>1 DEF IndInv, TypeOK, Sfsets
      <3>. QED
        BY <3>1, <3>2
    <2>. QED
      BY <1>4, <2>1, <2>3, <2>4 DEF NoSfset
  <1>. QED
    BY <1>1, <1>3, <1>4, ViewMoves

\* Once it has read the data nodes' StatefulSet, a sync keeps its copies.
LEMMA CopyKept ==
    ASSUME IndInv, [Next]_vars, pc' \in Checked \cup Last \cup {"mysqld"}
    PROVE  /\ sc'.cs = sc.cs /\ sc'.nc = sc.nc
           /\ \/ /\ pc \in Checked \cup Last \cup {"mysqld"}
                 /\ sc'.sf["ndbmtd"] = sc.sf["ndbmtd"]
              \/ pc = "ndbmtd" /\ pc' = "mysqld" /\ sc'.sf["ndbmtd"] = sfCache["ndbmtd"]
  <1>1. sc \in SyncContexts
    BY DEF IndInv, TypeOK, SyncContexts
  <1>2. pc' # "idle" /\ pc' # "config" /\ pc' # "status"
    BY DEF Checked, Last
  <1>3. CASE pc' = pc /\ sc' = sc
    BY <1>3
  <1>4. CASE SyncStep /\ pc \in Steps /\ pc' \in Following[pc]
    <2>1. pc \in Checked \cup Last \cup {"mysqld", "ndbmtd"}
      BY <1>4 DEF Following, Steps, Checked, Last
    <2>2. CASE pc = "ndbmtd"
      <3>1. pc' = "mysqld" /\ EnsureStatefulSet("ndbmtd", "mysqld", "status")
        BY <1>2, <1>4, <2>2, ActionAt DEF Following, Steps, EnsureDataNodeStatefulSet
      <3>2. sc' = [sc EXCEPT !.sf["ndbmtd"] = sfCache["ndbmtd"]]
        BY <3>1 DEF EnsureStatefulSet, Goto
      <3>. QED
        BY <1>1, <2>2, <3>1, <3>2 DEF SyncContexts, Workloads
    <2>3. CASE pc = "mysqld"
      <3>1. sc' = [sc EXCEPT !.sf["mysqld"] = sfCache["mysqld"]]
        BY <1>4, <2>3, ActionAt DEF ValidateMySQLServerStatefulSet
      <3>. QED
        BY <1>1, <2>3, <3>1 DEF SyncContexts, Workloads
    <2>4. CASE pc \notin {"ndbmtd", "mysqld"}
      <3>1. pc \notin {"config", "mgmd", "ndbmtd", "mysqld"}
        BY <2>1, <2>4 DEF Checked, Last
      <3>2. ~FinishSync
        BY <1>2 DEF FinishSync, PatchConfigMap, Goto
      <3>3. sc' = sc
        BY <1>2, <1>4, <3>1, <3>2, ReadsFirst
      <3>. QED
        BY <2>1, <2>4, <3>3
    <2>. QED
      BY <2>2, <2>3, <2>4
  <1>. QED
    BY <1>2, <1>3, <1>4, Control DEF SyncBegin, Goto

\* The request is dropped in the order of Handover, whatever the caches show.
LEMMA HandoverStep ==
    ASSUME IndInv, Existence, NoErrors, RollInv, FlagInv, Rekeyed, [Next]_vars, nc'.gen = nc.gen
    PROVE  Handover'
  <1>1. "ndbmtd" \in Workloads /\ Handover /\ FlagsCurrent /\ CopyOrder /\ nc.gen > 1
    BY DEF Workloads, FlagInv, Rekeyed
  <1>2. /\ nc.gen \in Nat /\ \A x \in Flagged : x.gen \in Nat /\ x.gen <= nc.gen /\ x.init \in BOOLEAN
        /\ Exists(sf["ndbmtd"]) /\ cm # NoConfigMap
        /\ sfCache["ndbmtd"].gen <= sf["ndbmtd"].gen
    BY <1>1, FlagFacts DEF FlagInv
  <1>3. NoConfigMap.gen = 0 /\ NoSfset.gen = 0
    BY DEF NoConfigMap, NoSfset
  <1>4. Off(cm)' => sfCache'["ndbmtd"].gen = nc'.gen
    <2> SUFFICES ASSUME Off(cm)'
                 PROVE  sfCache'["ndbmtd"].gen = nc.gen
      OBVIOUS
    <2>1. sfCache["ndbmtd"].gen = nc.gen
      <3>1. CASE Off(cm)
        BY <1>1, <3>1 DEF Handover
      <3>2. CASE ~Off(cm)
        <4>1. cm' # cm
          BY <3>2 DEF Off
        <4>2. Repatching
          BY <1>2, <4>1, ConfigMoves
        <4>3. sc.sf["ndbmtd"].init
          BY <3>2, <4>2, ConfigFlag DEF Off
        <4>4. sc.sf["ndbmtd"].gen = nc.gen
          BY <1>1, <4>3 DEF FlagsCurrent, Flagged, Views
        <4>5. sfCache["ndbmtd"].gen \in Nat /\ sfCache["ndbmtd"].gen <= nc.gen
          BY <1>2 DEF Flagged, Views
        <4>. QED
          BY <1>1, <1>2, <4>4, <4>5 DEF CopyOrder
      <3>. QED
        BY <3>1, <3>2
    <2>2. sf["ndbmtd"].gen = nc.gen
      <3>1. sf["ndbmtd"].gen \in Nat /\ sf["ndbmtd"].gen <= nc.gen
        BY <1>2 DEF Flagged, Views
      <3>. QED
        BY <1>2, <2>1, <3>1
    <2>. QED
      BY <1>1, <2>1, <2>2, CopyMoves
  <1>5. Off(cmCache)' => Off(cm)'
    <2>1. cmCache' \in {cmCache, cm}
      BY ConfigMoves
    <2>2. Off(cmCache)' => Off(cm)
      BY <1>1, <2>1 DEF Handover, Off
    <2>. QED
      BY <2>2, OffStays
  <1>6. Off(sc.cs)' => Off(cmCache)'
    <2>1. \/ sc'.cs = sc.cs \/ sc'.cs = NoConfigMap
          \/ sc'.cs = cmCache /\ cmCache' = cmCache
      BY <1>2, ConfigMoves
    <2>2. CASE sc'.cs = sc.cs
      <3>1. Off(sc.cs)' => Off(cmCache)
        BY <1>1, <2>2 DEF Handover, Off
      <3>. QED
        BY <3>1, OffStays
    <2>3. CASE sc'.cs = NoConfigMap
      BY <1>1, <1>2, <1>3, <2>3 DEF Off
    <2>4. CASE sc'.cs = cmCache /\ cmCache' = cmCache
      BY <2>4 DEF Off
    <2>. QED
      BY <2>1, <2>2, <2>3, <2>4
  <1>7. Off(sf["ndbmtd"])' => Off(cmCache)' /\ (pc' \in Configured => ~sc'.cs.init)
    <2> SUFFICES ASSUME Off(sf["ndbmtd"])'
                 PROVE  Off(cmCache)' /\ (pc' \in Configured => ~sc'.cs.init)
      OBVIOUS
    <2>1. Off(cmCache) /\ (pc \in Configured => ~sc.cs.init)
      <3>1. CASE Off(sf["ndbmtd"])
        BY <1>1, <3>1 DEF Handover
      <3>2. CASE ~Off(sf["ndbmtd"])
        <4>1. Off(sc.cs)
          BY <3>2, OffWritten
        <4>. QED
          BY <1>1, <4>1 DEF Handover, Off
      <3>. QED
        BY <3>1, <3>2
    <2>2. ASSUME pc' \in Configured
          PROVE  ~sc'.cs.init
      <3>1. CASE pc = "config"
        <4>1. sc'.cs = cmCache
          BY <1>2, <2>2, <3>1, ConfigMoves
        <4>. QED
          BY <2>1, <4>1 DEF Off
      <3>2. CASE pc # "config"
        <4>1. pc \in Configured /\ sc'.cs = sc.cs
          <5>1. pc' # "idle" /\ pc' # "config" /\ pc \in Steps \cup {"idle"}
            BY <2>2 DEF Configured, Steps, IndInv, TypeOK
          <5>. QED
            BY <2>2, <3>2, <5>1, SyncControl DEF Ended, Begun, GoesOn, Ignored, Configured
        <4>. QED
          BY <2>1, <4>1
      <3>. QED
        BY <3>1, <3>2
    <2>. QED
      BY <2>1, <2>2, OffStays
  <1>8. Off(sfCache["ndbmtd"])' => Off(sf["ndbmtd"])'
    <2>1. sfCache'["ndbmtd"] \in {sfCache["ndbmtd"], sf["ndbmtd"]}
      BY <1>1, CopyMoves
    <2>2. Off(sfCache["ndbmtd"])' => Off(sf["ndbmtd"])
      BY <1>1, <2>1 DEF Handover, Off
    <2>. QED
      BY <2>2, OffStays
  <1>9. Off(sc.sf["ndbmtd"])' => Off(sfCache["ndbmtd"])'
    <2>1. sc'.sf["ndbmtd"] \in {sc.sf["ndbmtd"], sfCache["ndbmtd"], NoSfset}
      BY <1>1, CopyMoves
    <2>2. nc.gen # 0
      BY <1>1
    <2>3. Off(sc.sf["ndbmtd"])' => Off(sfCache["ndbmtd"])
      BY <1>1, <1>3, <2>1, <2>2 DEF Handover, Off
    <2>. QED
      BY <2>3, OffStays
  <1>10. pc' \in Checked \cup Last \cup {"mysqld"} /\ Off(sc.cs)' => sc'.sf["ndbmtd"].gen = nc'.gen
    <2> SUFFICES ASSUME pc' \in Checked \cup Last \cup {"mysqld"}, Off(sc.cs)'
                 PROVE  sc'.sf["ndbmtd"].gen = nc.gen
      OBVIOUS
    <2>1. Off(sc.cs)
      BY CopyKept DEF Off
    <2>2. sfCache["ndbmtd"].gen = nc.gen
      BY <1>1, <2>1 DEF Handover
    <2>. QED
      BY <1>1, <2>1, <2>2, CopyKept DEF Handover
  <1>. QED
    BY <1>4, <1>5, <1>6, <1>7, <1>8, <1>9, <1>10 DEF Handover

\* Once the StatefulSet has the current generation and nothing asks for an
\* initial restart, nothing does until the next update.
LEMMA ClearedStays ==
    ASSUME IndInv, Existence, NoErrors, RollInv, FlagInv, [Next]_vars, nc'.gen = nc.gen,
           Cleared, sf["ndbmtd"].gen = nc.gen
    PROVE  Cleared'
  <1>1. "ndbmtd" \in Workloads /\ \A x \in Flagged : ~x.init
    BY DEF Workloads, Cleared
  <1>2. /\ ~cm.init /\ ~cmCache.init /\ ~sc.cs.init
        /\ ~sf["ndbmtd"].init /\ ~sfCache["ndbmtd"].init /\ ~sc.sf["ndbmtd"].init
    BY <1>1 DEF Flagged, Views
  <1>3. ~cm'.init
    BY <1>2, ConfigMoves, ConfigFlag
  <1>4. ~sf'["ndbmtd"].init
    BY <1>2, FlagWrites DEF Merge
  <1>5. ~NoSfset.init /\ ~NoConfigMap.init
    BY DEF NoSfset, NoConfigMap
  <1>6. ~cmCache'.init /\ ~sc'.cs.init
    <2>1. cmCache' \in {cmCache, cm} /\ sc'.cs \in {sc.cs, NoConfigMap, cmCache, cm'}
      BY ConfigMoves
    <2>. QED
      BY <1>2, <1>3, <1>5, <2>1
  <1>7. ~sfCache'["ndbmtd"].init /\ ~sc'.sf["ndbmtd"].init
    BY <1>1, <1>2, <1>5, CopyMoves
  <1>. QED
    BY <1>3, <1>4, <1>6, <1>7 DEF Cleared, Flagged, Views

\* A sync that goes on to the rolling restart with a request in its config has
\* one in its copy of the StatefulSet.
LEMMA RequestSeen ==
    ASSUME IndInv, Existence, NoErrors, RollInv, FlagInv, [Next]_vars,
           nc'.gen = nc.gen, specs' = specs,
           pc' \in Past("ndbmtd"), sc'.cs.init
    PROVE  sc'.sf["ndbmtd"].init
  <1>1. /\ "ndbmtd" \in Workloads /\ pc' \in Checked \cup Last \cup {"mysqld"}
        /\ pc' # "mysqld" /\ pc' # "idle" /\ pc' # "config"
    BY DEF Workloads, Past, Checked, Last
  <1>2. sc'.cs = sc.cs /\ sc'.sf["ndbmtd"] = sc.sf["ndbmtd"]
    BY <1>1, CopyKept
  <1>3. CASE pc \in Past("ndbmtd")
    BY <1>2, <1>3 DEF FlagInv, FlagFlow
  <1>4. CASE pc \notin Past("ndbmtd")
    <2>1. SyncStep /\ pc = "rdata" /\ pc' = "podver"
      <3>1. SyncStep /\ pc \in Steps /\ pc' \in Following[pc]
        BY <1>1, <1>4, Control DEF SyncBegin, Goto
      <3>. QED
        BY <1>4, <3>1 DEF Following, Past, Last, Steps
    <2>2. ReconcileDataNodeStatefulSet /\ pc \in Configured
      BY <2>1, ActionAt DEF Configured, Steps
    <2> SUFFICES ASSUME ~sc.sf["ndbmtd"].init
                 PROVE  FALSE
      BY <1>2
    <2>3. sc.cs.gen = nc.gen /\ Rekeyed
      BY <1>2 DEF FlagInv, FlagsCurrent, Flagged
    <2>4. sc.sf["ndbmtd"].gen # sc.cs.gen
      <3> SUFFICES ASSUME sc.sf["ndbmtd"].gen = sc.cs.gen
                   PROVE  FALSE
        OBVIOUS
      <3>1. Off(sc.sf["ndbmtd"])
        BY <2>3 DEF Off
      <3>. QED
        BY <1>2, <2>2, <2>3, <3>1 DEF FlagInv, Handover
    <2> DEFINE old == sc.sf["ndbmtd"]
               new == UpdatedStatefulSet("ndbmtd", old, sc.cs, sc.nc)
    <2>5. /\ sf' = [sf EXCEPT !["ndbmtd"] = Patched("ndbmtd", old, new)]
          /\ sf'["ndbmtd"].spec = old.spec
      BY <2>1, <2>2, <2>4 DEF ReconcileDataNodeStatefulSet, ReconcileStatefulSet,
         PatchStatefulSet, workloadHasConfigGeneration
    <2>6. /\ specs \in [Gens -> SpecContent] /\ sc.cs \in ConfigMaps /\ sc.nc \in NdbClusters
          /\ sc.cs.gen \in Gens /\ sc.nc.gen \in Gens
          /\ sf \in [Workloads -> Sfsets] /\ old \in Sfsets
      BY <1>1, <2>2, SyncFacts DEF SyncContexts
    <2>7. new \in Sfsets
      BY <1>1, <2>6, UpdatedType
    <2>8. new.init = TRUE
      BY <1>1, <1>2, <2>6, UpdatedFields DEF ConfigMaps
    <2> HIDE DEF new
    <2>9. sf'["ndbmtd"] = Patched("ndbmtd", old, new)
      BY <1>1, <2>5, <2>6
    <2>10. sf'["ndbmtd"].init = Merge(sf["ndbmtd"].init, old.init, new.init)
      BY <1>1, <2>6, <2>7, <2>9, PatchedFields
    <2>11. sf'["ndbmtd"].init
      BY <2>6, <2>8, <2>10 DEF Merge, Sfsets
    <2>12. old.init = sf'["ndbmtd"].init
      <3>1. FlagsOfSpec' /\ old \in Views("ndbmtd")'
        BY <1>2, FlagsOfSpecStep DEF Views
      <3>. QED
        BY <2>5, <3>1 DEF FlagsOfSpec
    <2>. QED
      BY <2>11, <2>12
  <1>. QED
    BY <1>3, <1>4

\* Only the end of a sync declares success.
LEMMA SuccessMoves ==
    ASSUME IndInv, [Next]_vars, sc'.success
    PROVE  \/ sc' = sc
           \/ FinishSync /\ sc' = [sc EXCEPT !.success = TRUE] /\ UNCHANGED <<cluster, caches>>
  <1>1. pc' = "status"
    <2>1. IndInv'
      BY NextInv
    <2>. QED
      BY <2>1 DEF IndInv, Progress
  <1>2. CASE SyncStep /\ pc \in Steps /\ pc' \in Following[pc]
    <2>1. ~sc.success
      BY <1>1, <1>2 DEF IndInv, Progress, Following
    <2>2. sc' = sc \/ FinishSync \/ (\E c : sc' = [sc EXCEPT !.cs = c])
          \/ (\E v, t : sc' = [sc EXCEPT !.sf[v] = t])
      BY <1>1, <1>2 DEF SyncStep, EnsureConfigMap, PatchConfigMapOnError, PatchConfigMap,
         EnsureManagementServerStatefulSet, EnsureDataNodeStatefulSet, EnsureStatefulSet,
         DeletePodOnStsUpdate, ValidateMySQLServerStatefulSet, HandleScaleDown,
         ReconcileManagementNodeStatefulSet, ReconcileDataNodeStatefulSet,
         EnsureDataNodePodVersion, ReconcileMySQLServerStatefulSet, StartNewDataNodes,
         CreateNodeGroups, ReorgNdbTables, RemoveAddNodeAnnotation, ReconcileRootUser, SQLFails,
         SQLRuns, FailSync, PatchRootAnnotations, UpdateNdbClusterStatus
    <2>3. FinishSync
      BY <2>1, <2>2 DEF IndInv, TypeOK
    <2>. QED
      BY <2>1, <2>3 DEF FinishSync, PatchConfigMap
  <1>. QED
    BY <1>1, <1>2, Control DEF SyncBegin, Goto

\* A sync succeeds only after the request is gone everywhere.
LEMMA FlagFlowStep ==
    ASSUME IndInv, Existence, NoErrors, RollInv, FlagInv, [Next]_vars,
           nc'.gen = nc.gen, specs' = specs
    PROVE  FlagFlow'
  <1>1. "ndbmtd" \in Workloads /\ FlagFlow /\ FlagsCurrent
    BY DEF Workloads, FlagInv
  <1>2. pc' \in Past("ndbmtd") /\ sc'.cs.init => sc'.sf["ndbmtd"].init
    BY RequestSeen
  <1>3. ASSUME sc.success, sc.nc.gen = nc.gen
        PROVE  Cleared'
    <2>1. Cleared /\ sf["ndbmtd"].gen = nc.gen
      BY <1>1, <1>3 DEF FlagFlow, IndInv, Progress
    <2>. QED
      BY <2>1, ClearedStays
  <1>4. ASSUME sc'.success, sc'.nc.gen = nc'.gen
        PROVE  Cleared'
    <2>1. CASE sc' = sc
      BY <1>3, <1>4, <2>1
    <2>2. CASE FinishSync /\ sc' = [sc EXCEPT !.success = TRUE] /\ UNCHANGED <<cluster, caches>>
      <3>1. pc = "cmpatch" /\ pc \in Past("ndbmtd") /\ pc \in Checked \cup Last \cup {"mysqld"}
        BY <2>2 DEF FinishSync, Past, Last
      <3>2. sc'.cs = sc.cs /\ sc'.sf = sc.sf /\ sc'.nc = sc.nc
        BY <2>2 DEF IndInv, TypeOK
      <3>3. \/ sc.cs.gen # sc.nc.gen \/ sc.sf["ndbmtd"].init
            \/ sc.cs.gen = sc.nc.gen /\ ~sc.sf["ndbmtd"].init
        OBVIOUS
      <3>4. sc.cs.gen = sc.nc.gen /\ ~sc.sf["ndbmtd"].init
        <4>1. ~sc.success
          BY <3>1 DEF IndInv, Progress
        <4>2. sc' # sc
          BY <1>4, <4>1
        <4>. QED
          BY <2>2, <4>2 DEF FinishSync, PatchConfigMap, isInitialFlagSet
      <3>5. Cleared
        <4>1. CASE ~Rekeyed
          BY <1>1, <4>1 DEF FlagsCurrent, Cleared
        <4>2. CASE Rekeyed
          <5>1. Handover
            BY <4>2 DEF FlagInv
          <5>2. Off(sc.cs)
            BY <1>1, <1>4, <3>1, <3>2, <3>4 DEF FlagFlow, Off
          <5>3. Off(sc.sf["ndbmtd"])
            BY <3>1, <3>4, <5>1, <5>2 DEF Handover, Off
          <5>. QED
            BY <5>1, <5>2, <5>3 DEF Handover, Off, Cleared, Flagged, Views
        <4>. QED
          BY <4>1, <4>2
      <3>. QED
        BY <2>2, <3>2, <3>5 DEF cluster, caches, Cleared, Flagged, Views
    <2>. QED
      BY <1>4, <2>1, <2>2, SuccessMoves
  <1>5. ASSUME NEW p \in Claims', p = nc'.gen
        PROVE  Cleared'
    <2>1. nc.gen # 0
      BY ConstantsAssumption DEF IndInv, Flow, Gens
    <2>2. CASE p \in Claims
      <3>1. Cleared
        BY <1>1, <1>5, <2>2 DEF FlagFlow
      <3>2. p <= sf["ndbmtd"].gen
        BY <1>1, <2>2 DEF IndInv, Copies, Claims
      <3>3. sf["ndbmtd"].gen = nc.gen
        <4>1. sf["ndbmtd"].gen \in Nat /\ sf["ndbmtd"].gen <= nc.gen /\ nc.gen \in Nat
          BY FlagFacts DEF FlagInv, Flagged, Views
        <4>. QED
          BY <1>5, <3>2, <4>1
      <3>. QED
        BY <3>1, <3>3, ClearedStays
    <2>. QED
      BY <1>3, <1>5, <2>1, <2>2, ClaimMoves
  <1>. QED
    BY <1>2, <1>4, <1>5 DEF FlagFlow

\* Every step keeps the whole of it.
LEMMA FlagStep ==
    ASSUME IndInv, Existence, NoErrors, RollInv, FlagInv, [Next]_vars
    PROVE  FlagInv'
  <1>1. CASE UpdateSpec
    BY <1>1, FlagUpdate
  <1>2. CASE nc'.gen = nc.gen /\ specs' = specs
    <2>1. Rekeyed' = Rekeyed
      BY <1>2 DEF Rekeyed
    <2>2. FlagsCurrent' /\ FlagsOfSpec' /\ FlagFlow'
      BY <1>2, FlagsCurrentStep, FlagsOfSpecStep, FlagFlowStep
    <2>3. Rekeyed => Handover'
      BY <1>2, HandoverStep
    <2>4. CopyOrder'
      BY CopyOrderStep DEF FlagInv
    <2>. QED
      BY <2>1, <2>2, <2>3, <2>4 DEF FlagInv
  <1>. QED
    BY <1>1, <1>2, GenMoves

\* At first nothing asks for an initial restart.
LEMMA FlagInit == Init => FlagInv
  <1> SUFFICES ASSUME Init PROVE FlagInv
    OBVIOUS
  <1>1. \A x \in Flagged : x = NoConfigMap \/ x = NoSfset
    BY DEF Init, Flagged, Views, NoSync, Workloads
  <1>2. Cleared
    BY <1>1 DEF Cleared, NoConfigMap, NoSfset
  <1>3. ~Rekeyed
    BY DEF Init, Rekeyed
  <1>4. FlagsOfSpec
    BY DEF FlagsOfSpec, Init, Views, NoSync, Workloads
  <1>5. CopyOrder
    BY DEF CopyOrder, Init, NoSync, NoConfigMap, NoSfset, Workloads
  <1>6. FlagFlow
    BY <1>2 DEF FlagFlow, Init, Past, Last
  <1>7. FlagsCurrent
    BY <1>2 DEF FlagsCurrent, Cleared
  <1>. QED
    BY <1>3, <1>4, <1>5, <1>6, <1>7 DEF FlagInv

\* As long as no spec is erroneous, the data nodes' template asks for no
\* initial restart once the current generation is processed: a TDE change
\* erases data nodes only while it is rolled out (patchConfigMap,
\* GetUpdatedConfigMap, isInitialFlagSet).
THEOREM FlagClearedInTime ==
    ASSUME MayFail = {}
    PROVE  Spec => []InitialFlagCleared
  <1>1. FlagInv => InitialFlagCleared
    BY DEF FlagInv, FlagFlow, Claims, Cleared, Flagged, Views, InitialFlagCleared
  <1>2. IndInv /\ Existence /\ NoErrors /\ RollInv /\ FlagInv /\ [Next]_vars => FlagInv'
    BY FlagStep
  <1>. QED
    BY <1>1, <1>2, FlagInit, Undisturbed, PTL DEF Spec
=============================================================================
