-------------------------- MODULE DataNodeRollout --------------------------
(***************************************************************************)
(* The rolling restart of the data nodes, pod by pod: the calls that        *)
(* ensureDataNodePodVersion makes to the management server, to the pod      *)
(* cache and to the API server, and what the pods do in between.  The       *)
(* StatefulSet uses OnDelete, so a pod is only replaced after the operator  *)
(* deleted it.                                                              *)
(*                                                                          *)
(* NdbReconciler's EnsureDataNodePodVersion is one whole run of the loop     *)
(* modelled here.                                                           *)
(***************************************************************************)
EXTENDS Integers

CONSTANTS
    Groups,      \* node groups
    Redundancy,  \* data nodes per node group
    MaxRev,      \* bound: revisions of the pod template
    MaxFaults    \* bound: failed calls, operator crashes and data node crashes

ASSUME RolloutAssumption ==
    /\ Groups \in Nat \ {0} /\ Redundancy \in Nat \ {0}
    /\ MaxRev \in Nat \ {0} /\ MaxFaults \in Nat

VARIABLES
    rev,       \* the StatefulSet's update revision
    pod,       \* the pod of each data node: its revision and its phase
    podCache,  \* revision of each pod in the operator's pod cache, 0 if absent
    sfCache,   \* status of the StatefulSet in the operator's cache
    pc,        \* where the worker is in ensureDataNodePodVersion
    sc,        \* its locals: desired revision, index, group, nodesBeingUpdated
    faults     \* faults that happened

vars == <<rev, pod, podCache, sfCache, pc, sc, faults>>

\* A data node is named by its node group and its place in the sorted node ids
\* of the group: nodesGroupedByNodegroups[g][i].
Nodes == (1..Groups) \X (1..Redundancy)

Phases == {"up", "terminating", "gone", "starting", "crashed"}

-----------------------------------------------------------------------------

\* A terminating pod still serves until its process has stopped.
Connected(n) == pod[n].phase \in {"up", "terminating"}

\* The operator deleted the pod and its replacement is not up yet.
Affected(n) == pod[n].phase \in {"terminating", "gone", "starting"}

PodRevision(n) == IF pod[n].phase = "gone" THEN 0 ELSE pod[n].rev

PodRevisions == [n \in Nodes |-> PodRevision(n)]

Status == [rev      |-> rev,
           ready    |-> \A n \in Nodes : Connected(n),
           complete |-> \A n \in Nodes : Connected(n) /\ pod[n].rev = rev]

NoSync == [desired |-> 0, i |-> 1, g |-> 1, deleted |-> FALSE]

Fault == faults < MaxFaults /\ faults' = faults + 1

Return(step) == pc' = step /\ sc' = NoSync

-----------------------------------------------------------------------------
(* The worker *)

\* ensureDataNodePodVersion is called with a copy of the StatefulSet that is
\* not completely updated.  An older revision does not come here:
\* patchStatefulSet stops the sync.  A StatefulSet whose pods are not ready
\* does, if the sync has just given it a generation that leaves its template
\* alone (after a SyncError the ConfigMap does not wait for the rollouts).
BeginCheck ==
    /\ pc = "idle"
    /\ sfCache.rev = rev /\ ~sfCache.complete
    /\ pc' = "connect"
    /\ sc' = [NoSync EXCEPT !.desired = sfCache.rev]
    /\ UNCHANGED <<rev, pod, podCache, sfCache, faults>>

\* GetStatus and GetNodesGroupedByNodegroup, which returns nothing unless all
\* the data nodes are connected.
GetStatus ==
    /\ pc = "connect"
    /\ IF \A n \in Nodes : Connected(n)
       THEN pc' = "check" /\ UNCHANGED sc
       ELSE Return("idle")
    /\ UNCHANGED <<rev, pod, podCache, sfCache, faults>>

\* Mutant: the loop does not stop after an index whose pods are restarted.
RestartEveryIndex(deleted) ==
    IF sc.g < Groups
    THEN sc' = [sc EXCEPT !.g = @ + 1] /\ UNCHANGED pc
    ELSE IF sc.i < Redundancy
    THEN sc' = [sc EXCEPT !.g = 1, !.i = @ + 1] /\ UNCHANGED pc
    ELSE Return("idle")

\* Mutant: the loop over the redundancy level is one too long.
OneIndexTooMany(deleted) ==
    IF sc.g < Groups
    THEN sc' = [sc EXCEPT !.g = @ + 1, !.deleted = deleted] /\ UNCHANGED pc
    ELSE IF deleted
    THEN Return("idle")
    ELSE sc' = [sc EXCEPT !.g = 1, !.i = @ + 1] /\ UNCHANGED pc

\* The loops of ensureDataNodePodVersion after a check: next group, or next
\* index unless pods are being restarted, or the end of the function.
NextCandidate(deleted) ==
    IF sc.g < Groups
    THEN sc' = [sc EXCEPT !.g = @ + 1, !.deleted = deleted] /\ UNCHANGED pc
    ELSE IF deleted
    THEN Return("idle")
    ELSE IF sc.i < Redundancy
    THEN sc' = [sc EXCEPT !.g = 1, !.i = @ + 1] /\ UNCHANGED pc
    ELSE Return("end")

\* Mutant: the version of the pod is not compared.
AnyPodRestarted(n) == TRUE

\* ensurePodVersion: the cached pod has another revision.
Outdated(n) == podCache[n] # sc.desired

\* ensurePodVersion: a pod that is not found is an error, an outdated one is
\* deleted by name, whatever pod has it by now.
EnsurePodVersion ==
    /\ pc = "check"
    /\ LET n == <<sc.g, sc.i>>
           found == podCache[n] # 0
       IN \/ /\ found /\ ~Outdated(n)
             /\ NextCandidate(sc.deleted)
             /\ UNCHANGED pod
          \/ /\ found /\ Outdated(n) /\ pod[n].phase # "gone"
             /\ pod' = [pod EXCEPT ![n].phase = "terminating"]
             /\ NextCandidate(TRUE)
          \/ /\ ~found \/ (Outdated(n) /\ pod[n].phase = "gone")
             /\ Return("idle")
             /\ UNCHANGED pod
    /\ UNCHANGED <<rev, podCache, sfCache, faults>>

\* After the loop: the sync continues with the MySQL Servers.
Continue ==
    /\ pc = "end"
    /\ Return("idle")
    /\ UNCHANGED <<rev, pod, podCache, sfCache, faults>>

\* A call fails or the operator crashes; the next sync starts afresh.
SyncAborted ==
    /\ pc # "idle"
    /\ Fault
    /\ Return("idle")
    /\ UNCHANGED <<rev, pod, podCache, sfCache>>

\* ReconcileStatefulSet patches the template and the sync stops.  The last
\* rollout need not be complete: after a SyncError the sync takes up a new
\* generation before anything else (patchConfigMap in ensureAllResources).
NewRevision ==
    /\ pc = "idle" /\ rev < MaxRev
    /\ rev' = rev + 1
    /\ UNCHANGED <<pod, podCache, sfCache, pc, sc, faults>>

-----------------------------------------------------------------------------
(* The informers and Kubernetes *)

DeliverStatefulSet ==
    /\ sfCache # Status
    /\ sfCache' = Status
    /\ UNCHANGED <<rev, pod, podCache, pc, sc, faults>>

DeliverPods ==
    /\ podCache # PodRevisions
    /\ podCache' = PodRevisions
    /\ UNCHANGED <<rev, pod, sfCache, pc, sc, faults>>

PodStep(n, from, to) ==
    /\ pod[n].phase = from
    /\ pod' = [pod EXCEPT ![n] = to]
    /\ UNCHANGED <<rev, podCache, sfCache, pc, sc>>

\* The process has stopped and the pod is removed.
PodRemoved(n) ==
    /\ PodStep(n, "terminating", [pod[n] EXCEPT !.phase = "gone"])
    /\ UNCHANGED faults

\* The StatefulSet controller creates the pod again, from the latest template.
PodCreated(n) ==
    /\ PodStep(n, "gone", [rev |-> rev, phase |-> "starting"])
    /\ UNCHANGED faults

PodReady(n) ==
    /\ PodStep(n, "starting", [pod[n] EXCEPT !.phase = "up"])
    /\ UNCHANGED faults

\* A data node crashes by itself and is restarted in its pod.
NodeCrashes(n) ==
    /\ PodStep(n, "up", [pod[n] EXCEPT !.phase = "crashed"])
    /\ Fault

NodeRestarts(n) ==
    /\ PodStep(n, "crashed", [pod[n] EXCEPT !.phase = "up"])
    /\ UNCHANGED faults

-----------------------------------------------------------------------------

Init ==
    /\ rev = 1
    /\ pod = [n \in Nodes |-> [rev |-> 1, phase |-> "up"]]
    /\ podCache = [n \in Nodes |-> 1]
    /\ sfCache = [rev |-> 1, ready |-> TRUE, complete |-> TRUE]
    /\ pc = "idle" /\ sc = NoSync
    /\ faults = 0

Check == BeginCheck \/ GetStatus \/ EnsurePodVersion \/ Continue

Pod(n) == PodRemoved(n) \/ PodCreated(n) \/ PodReady(n) \/ NodeRestarts(n)

Next ==
    \/ Check
    \/ SyncAborted
    \/ NewRevision
    \/ DeliverStatefulSet
    \/ DeliverPods
    \/ \E n \in Nodes : Pod(n) \/ NodeCrashes(n)

Spec == Init /\ [][Next]_vars

\* Syncs are run, watches deliver and Kubernetes replaces deleted pods.
Fairness ==
    /\ WF_vars(Check) /\ WF_vars(DeliverStatefulSet) /\ WF_vars(DeliverPods)
    /\ \A n \in Nodes : WF_vars(Pod(n))

FairSpec == Spec /\ Fairness

-----------------------------------------------------------------------------
(* Properties *)

\* Every variable has its type.
TypeOK ==
    /\ rev \in 1..MaxRev
    /\ pod \in [Nodes -> [rev : 1..MaxRev, phase : Phases]]
    /\ podCache \in [Nodes -> 0..MaxRev]
    /\ sfCache \in [rev : 1..MaxRev, ready : BOOLEAN, complete : BOOLEAN]
    /\ pc \in {"idle", "connect", "check", "end"}
    /\ sc \in [desired : 0..MaxRev, i : 1..Redundancy, g : 1..Groups, deleted : BOOLEAN]
    /\ faults \in 0..MaxFaults

\* "At any given time, only one data node per group will be affected by this
\* maneuver, ensuring MySQL Cluster's availability" (ensureDataNodePodVersion).
OneNodePerGroup ==
    \A n, m \in Nodes : n[1] = m[1] /\ Affected(n) /\ Affected(m) => n = m

\* A data node is restarted only when every data node of a lower index, in
\* every group, was replaced with the latest template, also after failed
\* calls, crashes and new revisions, and with pods that change during the
\* checks (the loops of ensureDataNodePodVersion).
RestartedInOrder ==
    [][\A n \in Nodes :
            pod[n].phase # "terminating" /\ pod'[n].phase = "terminating"
                => \A m \in Nodes : m[2] < n[2] => pod[m].rev = rev]_vars

\* Every data node eventually runs the template of every revision, unless a
\* newer one replaces it.
RolloutCompletes ==
    \A r \in 1..MaxRev :
        rev = r ~> (rev > r \/ \A n \in Nodes : pod[n].rev = r /\ pod[n].phase = "up")
=============================================================================
