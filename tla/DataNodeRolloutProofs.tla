----------------------- MODULE DataNodeRolloutProofs -----------------------
(***************************************************************************)
(* The rolling restart goes through the data nodes in the order of their    *)
(* index, for any number of node groups, any redundancy, any number of      *)
(* template revisions and faults, whatever the pods and the caches do       *)
(* meanwhile.                                                               *)
(***************************************************************************)
EXTENDS DataNodeRollout, TLAPS

-----------------------------------------------------------------------------
(* The inductive invariant *)

\* During the checks the desired revision is the latest.  The pod cache never
\* shows a pod newer than it is, nor is one newer than the template.
KnownTemplates ==
    /\ pc \in {"connect", "check"} => sc.desired = rev
    /\ \A n \in Nodes : podCache[n] <= pod[n].rev /\ pod[n].rev <= rev

\* The loops left up-to-date pods behind, unless they restart some of this index.
Passed ==
    /\ pc = "connect" => sc.i = 1 /\ sc.g = 1
    /\ pc = "check" => \A n \in Nodes :
            n[2] < sc.i \/ (n[2] = sc.i /\ n[1] < sc.g /\ ~sc.deleted) => pod[n].rev = rev

RolloutInv == TypeOK /\ KnownTemplates /\ Passed

-----------------------------------------------------------------------------

\* The nodes' coordinates.
LEMMA NodeType ==
    /\ \A n \in Nodes : n[1] \in 1..Groups /\ n[2] \in 1..Redundancy /\ n = <<n[1], n[2]>>
    /\ \A g \in 1..Groups, i \in 1..Redundancy : <<g, i>> \in Nodes
BY DEF Nodes

\* The first state: every pod has the first template.
LEMMA InitInv == Init => RolloutInv
BY RolloutAssumption, NodeType
   DEF Init, RolloutInv, TypeOK, KnownTemplates, Passed, Phases, NoSync

\* Where a sync is before and after its checks.
LEMMA NoSyncType == NoSync \in [desired : 0..MaxRev, i : 1..Redundancy, g : 1..Groups, deleted : BOOLEAN]
BY RolloutAssumption DEF NoSync

\* The next state after a check, in either branch, has its type.
LEMMA CandidateType ==
    ASSUME RolloutInv, pc = "check", NEW d \in BOOLEAN, NextCandidate(d)
    PROVE  /\ pc' \in {"check", "idle", "end"}
           /\ sc' \in [desired : 0..MaxRev, i : 1..Redundancy, g : 1..Groups, deleted : BOOLEAN]
           /\ pc' = "check" => /\ sc'.desired = rev
                               /\ \/ /\ sc.g < Groups /\ sc'.g = sc.g + 1 /\ sc'.i = sc.i
                                     /\ sc'.deleted = d
                                  \/ /\ sc.g = Groups /\ ~d /\ sc'.g = 1 /\ sc'.i = sc.i + 1
<1> DEFINE Locals == [desired : 0..MaxRev, i : 1..Redundancy, g : 1..Groups, deleted : BOOLEAN]
<1>1. /\ sc \in Locals /\ sc.desired = rev
      /\ sc.g \in 1..Groups /\ sc.i \in 1..Redundancy /\ sc.desired \in 0..MaxRev
  BY DEF RolloutInv, TypeOK, KnownTemplates
<1>2. NoSync \in Locals
  BY RolloutAssumption DEF NoSync
<1>3. CASE sc.g < Groups
  <2>1. pc' = pc /\ sc' = [sc EXCEPT !.g = @ + 1, !.deleted = d]
    BY <1>3 DEF NextCandidate
  <2>2. sc.g + 1 \in 1..Groups
    BY <1>1, <1>3, RolloutAssumption
  <2> QED
    BY <1>1, <1>3, <2>1, <2>2
<1>4. CASE ~(sc.g < Groups) /\ d
  BY <1>1, <1>2, <1>4 DEF NextCandidate, Return
<1>5. CASE ~(sc.g < Groups) /\ ~d /\ sc.i < Redundancy
  <2>1. pc' = pc /\ sc' = [sc EXCEPT !.g = 1, !.i = @ + 1]
    BY <1>5 DEF NextCandidate
  <2>2. sc.i + 1 \in 1..Redundancy /\ 1 \in 1..Groups /\ sc.g = Groups
    BY <1>1, <1>5, RolloutAssumption
  <2> QED
    BY <1>1, <1>5, <2>1, <2>2
<1>6. CASE ~(sc.g < Groups) /\ ~d /\ ~(sc.i < Redundancy)
  BY <1>1, <1>2, <1>6 DEF NextCandidate, Return
<1> QED
  BY <1>3, <1>4, <1>5, <1>6

\* Every check of a pod keeps the invariant.
LEMMA EnsurePodVersionInv ==
    ASSUME RolloutInv, EnsurePodVersion
    PROVE  RolloutInv'
<1> DEFINE n == <<sc.g, sc.i>>
<1>0. n \in Nodes /\ n[1] = sc.g /\ n[2] = sc.i
  BY NodeType DEF RolloutInv, TypeOK
<1>1. CASE podCache[n] # 0 /\ ~Outdated(n) /\ NextCandidate(sc.deleted) /\ UNCHANGED pod
  <2>1. pc = "check" /\ UNCHANGED <<rev, pod, podCache, sfCache, faults>>
    BY <1>1 DEF EnsurePodVersion
  <2>2. sc.deleted \in BOOLEAN
    BY DEF RolloutInv, TypeOK
  <2>3. TypeOK'
    BY <1>1, <2>1, <2>2, CandidateType DEF RolloutInv, TypeOK
  <2>4. pod[n].rev = rev
    <3>1. podCache[n] = rev /\ podCache[n] <= pod[n].rev /\ pod[n].rev <= rev
      BY <1>0, <1>1, <2>1 DEF Outdated, RolloutInv, KnownTemplates
    <3>2. pod[n].rev \in Int /\ rev \in Int
      BY <1>0, RolloutAssumption DEF RolloutInv, TypeOK
    <3> QED
      BY <3>1, <3>2
  <2>5. KnownTemplates'
    BY <1>1, <2>1, <2>2, CandidateType DEF RolloutInv, KnownTemplates
  <2>6. Passed'
    <3> SUFFICES ASSUME pc' = "check", NEW m \in Nodes,
                        m[2] < sc'.i \/ (m[2] = sc'.i /\ m[1] < sc'.g /\ ~sc'.deleted)
                 PROVE  pod[m].rev = rev
      BY <1>1, <2>1, <2>2, CandidateType DEF Passed
    <3>1. /\ m[1] \in Int /\ m[2] \in Int /\ sc.i \in Int /\ sc.g \in Int
          /\ 1 <= m[1] /\ m[1] <= Groups /\ Groups \in Int
      BY NodeType, RolloutAssumption DEF RolloutInv, TypeOK
    <3>2. m[2] < sc.i \/ (m[2] = sc.i /\ m[1] < sc.g /\ ~sc.deleted) => pod[m].rev = rev
      BY <2>1 DEF RolloutInv, Passed
    <3>3. CASE m[1] = sc.g /\ m[2] = sc.i
      <4>1. m = <<m[1], m[2]>>
        BY NodeType
      <4> QED
        BY <2>4, <3>3, <4>1
    <3>4. CASE sc.g < Groups /\ sc'.g = sc.g + 1 /\ sc'.i = sc.i /\ sc'.deleted = sc.deleted
      BY <3>1, <3>3, <3>4, <3>2
    <3>5. CASE sc.g = Groups /\ ~sc.deleted /\ sc'.g = 1 /\ sc'.i = sc.i + 1
      BY <3>1, <3>3, <3>5, <3>2
    <3> QED
      BY <1>1, <2>1, <2>2, <3>4, <3>5, CandidateType
  <2> QED
    BY <2>3, <2>5, <2>6 DEF RolloutInv
<1>2. CASE /\ podCache[n] # 0 /\ Outdated(n)
           /\ pod' = [pod EXCEPT ![n].phase = "terminating"]
           /\ NextCandidate(TRUE)
  <2>1. pc = "check" /\ UNCHANGED <<rev, podCache, sfCache, faults>>
    BY <1>2 DEF EnsurePodVersion
  <2>2. /\ pod' \in [Nodes -> [rev : 1..MaxRev, phase : Phases]]
        /\ \A m \in Nodes : pod'[m].rev = pod[m].rev
    BY <1>0, <1>2 DEF RolloutInv, TypeOK, Phases
  <2>3. TypeOK'
    BY <1>2, <2>1, <2>2, CandidateType DEF RolloutInv, TypeOK
  <2>4. KnownTemplates'
    BY <1>2, <2>1, <2>2, CandidateType DEF RolloutInv, KnownTemplates
  <2>5. Passed'
    <3> SUFFICES ASSUME pc' = "check", NEW m \in Nodes,
                        m[2] < sc'.i \/ (m[2] = sc'.i /\ m[1] < sc'.g /\ ~sc'.deleted)
                 PROVE  pod[m].rev = rev
      BY <1>2, <2>1, <2>2, CandidateType DEF Passed
    <3>1. sc'.i = sc.i /\ sc'.deleted
      BY <1>2, <2>1, CandidateType
    <3> QED
      BY <2>1, <3>1 DEF RolloutInv, Passed
  <2> QED
    BY <2>3, <2>4, <2>5 DEF RolloutInv
<1>3. CASE Return("idle") /\ UNCHANGED pod
  BY <1>3, NoSyncType
     DEF EnsurePodVersion, Return, RolloutInv, TypeOK, KnownTemplates, Passed
<1> QED
  BY <1>1, <1>2, <1>3 DEF EnsurePodVersion

\* The other steps of the worker.
LEMMA WorkerInv ==
    ASSUME RolloutInv, BeginCheck \/ GetStatus \/ Continue \/ SyncAborted
    PROVE  RolloutInv'
<1>1. CASE BeginCheck
  <2>1. TypeOK'
    BY <1>1, NoSyncType, RolloutAssumption DEF BeginCheck, RolloutInv, TypeOK
  <2>2. KnownTemplates' /\ Passed'
    BY <1>1, NoSyncType DEF BeginCheck, RolloutInv, KnownTemplates, Passed, NoSync
  <2> QED
    BY <2>1, <2>2 DEF RolloutInv
<1>2. CASE GetStatus /\ pc' = "check"
  <2>1. pc = "connect" /\ UNCHANGED <<rev, pod, podCache, sfCache, sc, faults>>
    BY <1>2 DEF GetStatus, Return
  <2>2. sc.i = 1 /\ sc.g = 1
    BY <2>1 DEF RolloutInv, Passed
  <2>3. \A n \in Nodes : ~(n[2] < 1) /\ ~(n[1] < 1)
    BY NodeType, RolloutAssumption
  <2>4. Passed'
    BY <1>2, <2>1, <2>2, <2>3 DEF Passed
  <2> QED
    BY <1>2, <2>1, <2>4 DEF RolloutInv, TypeOK, KnownTemplates
<1>3. CASE (GetStatus /\ pc' # "check") \/ Continue \/ SyncAborted
  <2>1. pc' = "idle" /\ sc' = NoSync /\ UNCHANGED <<rev, pod, podCache, sfCache>>
    BY <1>3 DEF GetStatus, Continue, SyncAborted, Return
  <2>2. faults' \in 0..MaxFaults
    BY <1>3, RolloutAssumption DEF GetStatus, Continue, SyncAborted, Fault, RolloutInv, TypeOK
  <2> QED
    BY <2>1, <2>2, NoSyncType DEF RolloutInv, TypeOK, KnownTemplates, Passed
<1> QED
  BY <1>1, <1>2, <1>3

\* The template and the caches change.
LEMMA CachesInv ==
    ASSUME RolloutInv, NewRevision \/ DeliverStatefulSet \/ DeliverPods
    PROVE  RolloutInv'
<1>0. /\ rev \in Int
      /\ \A n \in Nodes : pod[n].rev \in 1..MaxRev /\ pod[n].rev \in Int
  BY RolloutAssumption DEF RolloutInv, TypeOK
<1>1. CASE NewRevision
  <2>1. /\ pc = "idle" /\ pc' = "idle" /\ rev' = rev + 1 /\ rev < MaxRev
        /\ UNCHANGED <<pod, podCache, sfCache, sc, faults>>
    BY <1>1 DEF NewRevision
  <2>2. TypeOK'
    BY <2>1, RolloutAssumption DEF RolloutInv, TypeOK
  <2>3. \A n \in Nodes : pod[n].rev <= rev'
    BY <1>0, <2>1 DEF RolloutInv, KnownTemplates
  <2> QED
    BY <2>1, <2>2, <2>3 DEF RolloutInv, KnownTemplates, Passed
<1>2. CASE DeliverStatefulSet
  <2>1. sfCache' = Status /\ UNCHANGED <<rev, pod, podCache, pc, sc, faults>>
    BY <1>2 DEF DeliverStatefulSet
  <2>2. Status \in [rev : 1..MaxRev, ready : BOOLEAN, complete : BOOLEAN]
    BY DEF Status, RolloutInv, TypeOK
  <2> QED
    BY <2>1, <2>2 DEF RolloutInv, TypeOK, KnownTemplates, Passed
<1>3. CASE DeliverPods
  <2>1. podCache' = PodRevisions /\ UNCHANGED <<rev, pod, sfCache, pc, sc, faults>>
    BY <1>3 DEF DeliverPods
  <2>2. /\ PodRevisions \in [Nodes -> 0..MaxRev]
        /\ \A n \in Nodes : PodRevisions[n] <= pod[n].rev
    BY <1>0, RolloutAssumption DEF PodRevisions, PodRevision
  <2> QED
    BY <2>1, <2>2 DEF RolloutInv, TypeOK, KnownTemplates, Passed
<1> QED
  BY <1>1, <1>2, <1>3

\* A pod steps from one phase to the next: its revision stays or becomes the
\* latest.
LEMMA PodInv ==
    ASSUME RolloutInv, NEW n \in Nodes, Pod(n) \/ NodeCrashes(n)
    PROVE  RolloutInv'
<1>1. /\ UNCHANGED <<rev, podCache, sfCache, pc, sc>>
      /\ pod' \in [Nodes -> [rev : 1..MaxRev, phase : Phases]]
      /\ \A m \in Nodes : m # n => pod'[m] = pod[m]
      /\ pod'[n].rev \in {pod[n].rev, rev}
  BY DEF Pod, PodRemoved, PodCreated, PodReady, NodeCrashes, NodeRestarts, PodStep,
         RolloutInv, TypeOK, Phases
<1>2. faults' \in 0..MaxFaults
  BY RolloutAssumption DEF Pod, PodRemoved, PodCreated, PodReady, NodeCrashes, NodeRestarts,
         PodStep, Fault, RolloutInv, TypeOK
<1>3. TypeOK'
  BY <1>1, <1>2 DEF RolloutInv, TypeOK
<1>4. /\ rev \in Int /\ podCache[n] \in Int /\ pod[n].rev \in Int
  BY RolloutAssumption DEF RolloutInv, TypeOK
<1>5. \A m \in Nodes : podCache[m] <= pod'[m].rev /\ pod'[m].rev <= rev
  BY <1>1, <1>4 DEF RolloutInv, KnownTemplates
<1>6. KnownTemplates'
  BY <1>1, <1>5 DEF RolloutInv, KnownTemplates
<1>7. Passed'
  BY <1>1 DEF RolloutInv, Passed
<1> QED
  BY <1>3, <1>6, <1>7 DEF RolloutInv

\* Every step keeps the invariant.
LEMMA StepInv ==
    ASSUME RolloutInv, [Next]_vars
    PROVE  RolloutInv'
<1>1. CASE UNCHANGED vars
  BY <1>1 DEF vars, RolloutInv, TypeOK, KnownTemplates, Passed
<1>2. CASE EnsurePodVersion
  BY <1>2, EnsurePodVersionInv
<1>3. CASE BeginCheck \/ GetStatus \/ Continue \/ SyncAborted
  BY <1>3, WorkerInv
<1>4. CASE NewRevision \/ DeliverStatefulSet \/ DeliverPods
  BY <1>4, CachesInv
<1>5. CASE \E n \in Nodes : Pod(n) \/ NodeCrashes(n)
  BY <1>5, PodInv
<1> QED
  BY <1>1, <1>2, <1>3, <1>4, <1>5 DEF Next, Check

\* A step that begins the restart of a data node is the check of its pod, so
\* that the nodes of a lower index were passed.
LEMMA RestartStep ==
    ASSUME RolloutInv, [Next]_vars, NEW n \in Nodes,
           pod[n].phase # "terminating", pod'[n].phase = "terminating",
           NEW m \in Nodes, m[2] < n[2]
    PROVE  pod[m].rev = rev
<1>1. CASE EnsurePodVersion
  <2>1. pc = "check" /\ n = <<sc.g, sc.i>>
    BY <1>1 DEF EnsurePodVersion, RolloutInv, TypeOK
  <2> QED
    BY <2>1 DEF RolloutInv, Passed
<1>2. CASE \E k \in Nodes : Pod(k) \/ NodeCrashes(k)
  BY <1>2 DEF Pod, PodRemoved, PodCreated, PodReady, NodeCrashes, NodeRestarts, PodStep,
     RolloutInv, TypeOK
<1>3. CASE UNCHANGED pod
  BY <1>3
<1> QED
  BY <1>1, <1>2, <1>3 DEF vars, Next, Check, BeginCheck, GetStatus, Continue, SyncAborted,
     NewRevision, DeliverStatefulSet, DeliverPods

-----------------------------------------------------------------------------

\* Every reachable state is well typed: the loops of ensureDataNodePodVersion
\* never leave the node groups' indexes.
THEOREM RolloutTypeCorrect == Spec => []TypeOK
<1>1. RolloutInv /\ [Next]_vars => RolloutInv'
  BY StepInv
<1>2. RolloutInv => TypeOK
  BY DEF RolloutInv
<1> QED
  BY <1>1, <1>2, InitInv, PTL DEF Spec

\* ensureDataNodePodVersion restarts a data node only when all data nodes of a
\* lower index, in every node group, were replaced with the latest template:
\* for any cluster, with stale caches, pods that are replaced between two
\* checks, failed calls, crashes and new templates at any time.
THEOREM RestartsInOrder == Spec => RestartedInOrder
<1> DEFINE InOrder ==
            \A n \in Nodes : pod[n].phase # "terminating" /\ pod'[n].phase = "terminating"
                => \A m \in Nodes : m[2] < n[2] => pod[m].rev = rev
<1>1. RolloutInv /\ [Next]_vars => RolloutInv'
  BY StepInv
<1>2. RolloutInv /\ [Next]_vars => [InOrder]_vars
  BY RestartStep
<1> QED
  BY <1>1, <1>2, InitInv, PTL DEF Spec, RestartedInOrder
=============================================================================
