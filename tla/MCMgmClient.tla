---------------------------- MODULE MCMgmClient ----------------------------
(***************************************************************************)
(* Instances of MgmClient for TLC.                                          *)
(***************************************************************************)
EXTENDS MgmClient

Node(connected, group) == NodeStatus("NDB", connected, group)

\* Four data nodes: both or one of the first node group are connected, the others
\* are in a node group, new, or not there yet.
FourNodes(connected, group) ==
    [n \in 3..6 |-> IF n <= 4 THEN Node(connected \/ n # 3, 0)
                    ELSE Node(group # NodeGroupNewDisconnectedDataNode, group)]

NoneConnected == [n \in 3..6 |-> Node(FALSE, IF n <= 4 THEN 0 ELSE 1)]

\* New data nodes for two node groups, or for one and a half.
NewNodes(last) ==
    [n \in 3..last |-> IF n <= 4 THEN Node(TRUE, 0) ELSE Node(TRUE, NodeGroupNewConnectedDataNode)]

\* A data node starts, restarts or is new; the operator meets them all; the other
\* programs do not look at the data nodes.
SomeClusters ==
    LET known == {FourNodes(FALSE, 1), FourNodes(FALSE, NodeGroupNewDisconnectedDataNode), NoneConnected}
    IN  [p \in AllPrograms |->
            CASE p = "initialize data node" -> known
              [] p \in {"createNodeGroups", "ensureDataNodePodVersion"} ->
                    known \cup {FourNodes(TRUE, 1), FourNodes(TRUE, NodeGroupNewConnectedDataNode),
                               NewNodes(7), NewNodes(8)}
              [] OTHER -> {NoneConnected}]

\* Node groups whose ids are not consecutive.
GapClusters == [p \in AllPrograms |-> {[n \in 3..6 |-> Node(TRUE, IF n <= 4 THEN 0 ELSE 2)]}]

Entry(key, value) == [key |-> key, value |-> value]

Value(key, v) == IF key \in LongParameters THEN Uint64(v \div WordSize, v % WordSize) ELSE Uint32(v)

\* A configuration in which the parameters own are set for the first data node, with
\* other values than the defaults and after or before its id, other parameters and
\* other sections around them.
ConfigWith(own, idLast, redo) ==
    LET value(key) == CASE key = RedoBuffer -> redo
                        [] key = NoRedologParts -> 4
                        [] key = TransactionMemory -> 0
                        [] OTHER -> key
        host       == Entry(5, String(<<1, 0>>))
        defaults   == [i \in DOMAIN MemoryParameters |->
                        Entry(MemoryParameters[i], Value(MemoryParameters[i], value(MemoryParameters[i])))]
        owns       == [i \in DOMAIN own |-> Entry(own[i], Value(own[i], value(own[i]) + 5000))]
        id(n)      == <<Entry(NodeId, Uint32(n))>>
    IN  [defaults |-> <<[type |-> NDB, entries |-> <<host>> \o defaults],
                        [type |-> MGM, entries |-> <<Entry(DataMemory, Uint64(0, 7))>>]>>,
         system   |-> [type |-> System, entries |-> <<Entry(ConfigGeneration, Uint32(1))>>],
         nodes    |-> <<[type |-> MGM, entries |-> id(1)],
                        [type |-> NDB, entries |-> IF idLast THEN owns \o id(3) ELSE id(3) \o <<host>> \o owns],
                        [type |-> NDB, entries |-> id(4) \o <<Entry(DataMemory, Uint64(0, 9))>>]>>,
         comm     |-> <<[type |-> 4, entries |-> <<Entry(400, Uint32(3))>>]>>]

SomeConfigs ==
    {ConfigWith(own, idLast, 32) : idLast \in BOOLEAN,
        own \in {<<>>, <<DataMemory>>, <<TransactionMemory, NoTables>>, <<NoOps>>}}

\* 1 GiB of redo buffer in 4 parts.
LargeRedoBuffer == {ConfigWith(<<>>, FALSE, 1024)}

\* The theorems rest on these: the second fails in the instance made for that.
ASSUME ReaderFindsGroups == GroupsReadable
ASSUME GapsOnlyOnPurpose == Clusters = GapClusters \/ NoGaps

Pool == <<148, 149>>
=============================================================================
