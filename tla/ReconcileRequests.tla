------------------------- MODULE ReconcileRequests -------------------------
(***************************************************************************)
(* What the reconciliation of one NdbCluster may assume of the workqueue    *)
(* and its workers: a request is remembered until a sync that starts after  *)
(* it, and syncs of the same NdbCluster do not overlap.  NdbReconciler has   *)
(* the same two pieces of state for one key: dirty and pc.                  *)
(***************************************************************************)
CONSTANT Keys

VARIABLES
    pending,  \* keys with a request no sync has started for
    syncing   \* keys being synced

Init == pending = {} /\ syncing = {}

\* An event handler adds the key.
Request(k) ==
    /\ pending' = pending \cup {k}
    /\ UNCHANGED syncing

\* A worker starts a sync; a retry may already be scheduled again.
Begin(k) ==
    /\ k \in pending \ syncing
    /\ syncing' = syncing \cup {k}
    /\ pending' \in {pending, pending \ {k}}

\* The sync ends; with an error, it is requested again.
End(k) ==
    /\ k \in syncing
    /\ syncing' = syncing \ {k}
    /\ UNCHANGED pending

Next == \E k \in Keys : Request(k) \/ Begin(k) \/ End(k)

Spec == Init /\ [][Next]_<<pending, syncing>>

\* A request is followed by a sync that starts after it.
FairSpec == Spec /\ \A k \in Keys : /\ WF_<<pending, syncing>>(Begin(k))
                                    /\ WF_<<pending, syncing>>(End(k))
=============================================================================
