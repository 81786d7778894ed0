--------------------------- MODULE UpdateContract ---------------------------
(***************************************************************************)
(* What users may assume of the updates of an NdbCluster whose specs are   *)
(* not erroneous: they are made one at a time, each to the management      *)
(* nodes, then the data nodes, then the MySQL Servers, and an update is    *)
(* reported as processed when all of them have completed it.  There are no *)
(* caches, no syncs and no failures here.                                  *)
(*                                                                         *)
(* A report may be replaced by an old one, if OldReports is TRUE.  An old  *)
(* report may make the cluster look as if it had never been started, and   *)
(* the data nodes do not wait for the management nodes then.               *)
(***************************************************************************)
EXTENDS Naturals

CONSTANT OldReports

VARIABLES
    requested,  \* the generation of the last update that was accepted
    adopted,    \* the generation that is being deployed
    deployed,   \* for each workload, the generation that it is to have
    completed,  \* ... and the last one that all its pods have had
    processed   \* the generation that the status reports

vars == <<requested, adopted, deployed, completed, processed>>

Workloads == {"mgmd", "ndbmtd", "mysqld"}

\* The workloads that must have completed an update before this one gets it.
Before(w) == CASE w = "mgmd"   -> {}
               [] w = "ndbmtd" -> IF OldReports THEN {} ELSE {"mgmd"}
               [] w = "mysqld" -> {"mgmd", "ndbmtd"}

Init ==
    /\ requested = 1
    /\ adopted = 0
    /\ deployed = [w \in Workloads |-> 0]
    /\ completed = [w \in Workloads |-> 0]
    /\ processed = 0

\* An update is accepted when the last one is reported as processed.
Request ==
    /\ processed = requested
    /\ requested' = requested + 1
    /\ UNCHANGED <<adopted, deployed, completed, processed>>

\* It is adopted when every workload has completed the one before.
Adopt ==
    /\ adopted < requested
    /\ \A w \in Workloads : completed[w] = adopted
    /\ adopted' = requested
    /\ UNCHANGED <<requested, deployed, completed, processed>>

\* A workload gets it, once.  If that changes nothing for its pods, it is
\* completed at the same time.
Deploy(w) ==
    /\ deployed[w] < adopted
    /\ \A v \in Before(w) : completed[v] = adopted
    /\ deployed' = [deployed EXCEPT ![w] = adopted]
    /\ \/ completed' = completed
       \/ completed[w] = deployed[w] /\ completed' = [completed EXCEPT ![w] = adopted]
    /\ UNCHANGED <<requested, adopted, processed>>

\* All pods of a workload have it.
Complete(w) ==
    /\ completed[w] < deployed[w]
    /\ completed' = [completed EXCEPT ![w] = deployed[w]]
    /\ UNCHANGED <<requested, adopted, deployed, processed>>

\* The status tells users so.
Report ==
    /\ processed < adopted
    /\ \A w \in Workloads : completed[w] = adopted
    /\ processed' = adopted
    /\ UNCHANGED <<requested, adopted, deployed, completed>>

\* The status tells users of another update, that every workload has
\* completed, too.
ReportAnother ==
    /\ OldReports
    /\ \A w \in Workloads : processed' <= completed[w]
    /\ UNCHANGED <<requested, adopted, deployed, completed>>

Next ==
    \/ Request
    \/ Adopt
    \/ \E w \in Workloads : Deploy(w) \/ Complete(w)
    \/ Report
    \/ ReportAnother

Spec == Init /\ [][Next]_vars
=============================================================================
