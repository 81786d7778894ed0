---------------------------- MODULE ClusterStatus ----------------------------
(***************************************************************************)
(* The status of all nodes as GetStatus returns it, and the questions the   *)
(* operator asks of it (pkg/mgmapi/clusterstatus.go).  A status maps node    *)
(* ids to the type, the connection and the node group of the node.          *)
(***************************************************************************)
EXTENDS Integers, FiniteSets, SequencesExt

\* The node group of a new data node, before and after it connects.
NodeGroupNewDisconnectedDataNode == 65536
NodeGroupNewConnectedDataNode == -256

NodeStatus(type, connected, group) ==
    [type |-> type, connected |-> connected, group |-> group]

IsDataNode(ns) == ns.type = "NDB"

\* The ids in increasing order.
Sorted(ids) ==
    [i \in 1..Cardinality(ids) |-> CHOOSE n \in ids : Cardinality({m \in ids : m < n}) = i - 1]

\* Mutant: new data nodes that are connected are taken for a node group.
GroupedWithNewNodes(cs) ==
    LET data     == {n \in DOMAIN cs : IsDataNode(cs[n])}
        inducted == {n \in data : cs[n].connected}
        groups   == {cs[n].group : n \in inducted}
    IN  IF \E n \in data : ~cs[n].connected /\ cs[n].group # NodeGroupNewDisconnectedDataNode
        THEN <<>>
        ELSE [i \in 1..Cardinality(groups) |-> Sorted({n \in inducted : cs[n].group = i - 1})]

\* The ids of the data nodes of each node group, <<>> (nil) if a data node of the
\* cluster is not connected.  The code ranges over the indices of the sorted
\* node groups, so the n-th list is that of node group n - 1.
GetNodesGroupedByNodegroup(cs) ==
    LET data     == {n \in DOMAIN cs : IsDataNode(cs[n])}
        inducted == {n \in data : cs[n].connected /\ cs[n].group # NodeGroupNewConnectedDataNode}
        groups   == {cs[n].group : n \in inducted}
    IN  IF \E n \in data : ~cs[n].connected /\ cs[n].group # NodeGroupNewDisconnectedDataNode
        THEN <<>>
        ELSE [i \in 1..Cardinality(groups) |-> Sorted({n \in inducted : cs[n].group = i - 1})]

\* The sorted ids of the data nodes with that node group.
GetConnectedDataNodesWithNodeGroup(cs, ng) ==
    LET nodes == {n \in DOMAIN cs : IsDataNode(cs[n]) /\ cs[n].group = ng}
    IN  IF \E n \in nodes : ~cs[n].connected THEN <<>> ELSE Sorted(nodes)
=============================================================================
