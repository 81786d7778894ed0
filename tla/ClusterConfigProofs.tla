------------------------ MODULE ClusterConfigProofs ------------------------
(***************************************************************************)
(* Proofs about ClusterConfig, for every set of specs and every number of   *)
(* updates.  Whether updates overlap or not, no config.ini has two nodes    *)
(* with the same id, and a data node keeps its id and its host for ever.    *)
(* When they come one after another, the ConfigMap has what the spec asks   *)
(* for, new data nodes are marked, the pods find their node ids, and a      *)
(* version names one config.ini.                                            *)
(***************************************************************************)
EXTENDS ClusterConfig, FiniteSetTheorems, TLAPS

Keys == {"gen", "ini", "cnf", "tde", "init"}

\* A set numbered by an interval is finite.
LEMMA ImageFinite ==
    ASSUME NEW n \in Int, NEW f
    PROVE  IsFiniteSet({f[i] : i \in 0..n})
<1>1. IsFiniteSet(0..n)
  BY FS_Interval
<1> DEFINE g == [i \in 0..n |-> f[i]]
           T == {f[i] : i \in 0..n}
<1>2. g \in Surjection(0..n, T)
  BY DEF Surjection
<1> QED  BY <1>1, <1>2, FS_Surjection

(* The nodes of a config.ini *)

\* A product of two natural numbers is one.
LEMMA SlotsType ==
    ASSUME NEW s \in SpecType
    PROVE  GetNumOfSectionsRequiredForMySQLServers(s) \in Nat
<1>1. s.max \in Nat /\ s.pool \in Nat
  BY DEF SpecType
<1> HIDE DEF SpecType
<1>2. \A a, b \in Nat : a * b \in Nat
  OBVIOUS
<1> QED  BY <1>1, <1>2 DEF GetNumOfSectionsRequiredForMySQLServers

\* The ids of the five kinds of nodes are in five disjoint ranges: the data
\* nodes' is below the operator's own API node, as there are 144 of them at most.
LEMMA NodeIdRanges ==
    ASSUME NEW s \in SpecType, NEW old
    PROVE  /\ \A n \in MgmdSections : n.id \in 1..GetManagementNodeCount
           /\ \A n \in DataNodeSections(s, old) :
                 n.id \in (GetManagementNodeCount + 1)..(NdbOperatorDedicatedAPINodeId - 1)
           /\ \A n \in GetMySQLServerNodeIds(s) :
                 n.id \in NdbNodeTypeAPIStartNodeId..(FirstFreeApiId(s) - 1)
           /\ \A n \in ApiSections(s) :
                 n.id = NdbOperatorDedicatedAPINodeId \/ (n.id \in Nat /\ n.id >= FirstFreeApiId(s))
<1>1. s.nodes \in 1..144 /\ s.free \in Nat
  BY DEF SpecType, MaxNumberOfDataNodes
<1>2. GetNumOfSectionsRequiredForMySQLServers(s) \in Nat
  BY SlotsType
<1>3. GetManagementNodeCount \in 1..2
  BY DEF GetManagementNodeCount
<1>4. \A n \in MgmdSections : n.id \in 1..GetManagementNodeCount
  BY <1>3 DEF MgmdSections, Node
<1>5. \A n \in DataNodeSections(s, old) :
         n.id \in (GetManagementNodeCount + 1)..(NdbOperatorDedicatedAPINodeId - 1)
  BY <1>1, <1>3 DEF DataNodeSections, DataNodeId, Node, NdbOperatorDedicatedAPINodeId
<1>6. \A n \in GetMySQLServerNodeIds(s) :
         n.id \in NdbNodeTypeAPIStartNodeId..(FirstFreeApiId(s) - 1)
  BY <1>2 DEF GetMySQLServerNodeIds, Node, FirstFreeApiId, NdbNodeTypeAPIStartNodeId,
              NdbOperatorDedicatedAPINodeId
<1>7. \A n \in ApiSections(s) :
         n.id = NdbOperatorDedicatedAPINodeId \/ (n.id \in Nat /\ n.id >= FirstFreeApiId(s))
  <2> DEFINE F == FirstFreeApiId(s)
             own == Node(NdbOperatorDedicatedAPINodeId, "api", -1, FALSE)
             node(k) == Node(F + k, "api", -1, FALSE)
  <2>1. F \in Nat
    BY <1>2 DEF FirstFreeApiId, NdbNodeTypeAPIStartNodeId, NdbOperatorDedicatedAPINodeId
  <2>2. own.id = NdbOperatorDedicatedAPINodeId /\ \A k : node(k).id = F + k
    BY DEF Node
  <2>3. ApiSections(s) = {own} \cup {node(k) : k \in 0..(s.free - 1)}
    BY DEF ApiSections
  <2> HIDE DEF F, own, node
  <2>4. \A n \in ApiSections(s) : n.id = NdbOperatorDedicatedAPINodeId \/ (n.id \in Nat /\ n.id >= F)
    BY <1>1, <2>1, <2>2, <2>3
  <2> QED  BY <2>4 DEF F
<1> QED  BY <1>4, <1>5, <1>6, <1>7

\* Within each kind an id determines the node.
LEMMA IdsWithinKind ==
    ASSUME NEW s \in SpecType, NEW old
    PROVE  /\ \A n, m \in MgmdSections : n.id = m.id => n = m
           /\ \A n, m \in DataNodeSections(s, old) : n.id = m.id => n = m
           /\ \A n, m \in GetMySQLServerNodeIds(s) : n.id = m.id => n = m
           /\ \A n, m \in ApiSections(s) : n.id = m.id => n = m
<1>1. s.nodes \in 1..144 /\ s.free \in Nat
  BY DEF SpecType, MaxNumberOfDataNodes
<1>2. GetNumOfSectionsRequiredForMySQLServers(s) \in Nat
  BY SlotsType
<1>3. GetManagementNodeCount \in 1..2
  BY DEF GetManagementNodeCount
<1>4. \A n, m \in MgmdSections : n.id = m.id => n = m
  <2> DEFINE node(i) == Node(i + 1, "mgmd", i, FALSE)
  <2>1. \A i, j \in 0..(GetManagementNodeCount - 1) : node(i).id = node(j).id => i = j
    BY <1>3 DEF Node
  <2>2. MgmdSections = {node(i) : i \in 0..(GetManagementNodeCount - 1)}
    BY DEF MgmdSections
  <2> HIDE DEF node
  <2> QED  BY <2>1, <2>2
<1>5. \A n, m \in DataNodeSections(s, old) : n.id = m.id => n = m
  <2> DEFINE start == IF old # 0 /\ old < s.nodes THEN GetManagementNodeCount + old + 1 ELSE 0
             node(i) == Node(DataNodeId(s, i), "ndbmtd", i, IsNewDataNode(start, DataNodeId(s, i)))
  <2>1. \A i, j \in 0..(s.nodes - 1) : node(i).id = node(j).id => i = j
    BY <1>1, <1>3 DEF DataNodeId, Node
  <2>2. DataNodeSections(s, old) = {node(i) : i \in 0..(s.nodes - 1)}
    BY DEF DataNodeSections
  <2> HIDE DEF node
  <2> QED  BY <2>1, <2>2
<1>6. \A n, m \in GetMySQLServerNodeIds(s) : n.id = m.id => n = m
  <2> DEFINE N == GetNumOfSectionsRequiredForMySQLServers(s)
             node(k) == Node(NdbNodeTypeAPIStartNodeId + k, "mysqld", k \div s.pool, FALSE)
  <2>1. \A k, l \in 0..(N - 1) : node(k).id = node(l).id => k = l
    BY <1>2 DEF Node, NdbNodeTypeAPIStartNodeId, NdbOperatorDedicatedAPINodeId
  <2>2. GetMySQLServerNodeIds(s) = {node(k) : k \in 0..(N - 1)}
    BY DEF GetMySQLServerNodeIds
  <2> HIDE DEF node, N
  <2> QED  BY <2>1, <2>2
<1>7. \A n, m \in ApiSections(s) : n.id = m.id => n = m
  <2> DEFINE F == FirstFreeApiId(s)
             own == Node(147, "api", -1, FALSE)
             node(k) == Node(F + k, "api", -1, FALSE)
  <2>1. F \in Nat /\ F > 147
    BY <1>2 DEF FirstFreeApiId, NdbNodeTypeAPIStartNodeId, NdbOperatorDedicatedAPINodeId
  <2>2. own.id = 147 /\ \A k : node(k).id = F + k
    BY DEF Node
  <2>3. ApiSections(s) = {own} \cup {node(k) : k \in 0..(s.free - 1)}
    BY DEF ApiSections, NdbOperatorDedicatedAPINodeId
  <2> HIDE DEF F, own, node
  <2>4. \A k, l \in 0..(s.free - 1) : node(k).id = node(l).id => k = l
    BY <1>1, <2>1, <2>2
  <2>5. \A k \in 0..(s.free - 1) : node(k).id # own.id
    BY <1>1, <2>1, <2>2
  <2> QED  BY <2>3, <2>4, <2>5
<1> QED  BY <1>4, <1>5, <1>6, <1>7

\* In a generated config.ini an id determines the node.
LEMMA GeneratedIdsDistinct ==
    ASSUME NEW s \in SpecType, NEW cs,
           NEW n \in GetConfigString(s, cs).nodes, NEW m \in GetConfigString(s, cs).nodes,
           n.id = m.id
    PROVE  n = m
<1> DEFINE D == DataNodeSections(s, cs.dataNodes)
           Q == GetMySQLServerNodeIds(s)
           A == ApiSections(s)
<1>1. GetConfigString(s, cs).nodes = MgmdSections \cup D \cup Q \cup A
  BY DEF GetConfigString
<1>2. FirstFreeApiId(s) \in Nat /\ FirstFreeApiId(s) >= 148
  BY SlotsType DEF FirstFreeApiId, NdbNodeTypeAPIStartNodeId, NdbOperatorDedicatedAPINodeId
<1>3. GetManagementNodeCount \in 1..2
  BY DEF GetManagementNodeCount
<1>4. /\ \A x \in MgmdSections : x.id \in 1..GetManagementNodeCount
      /\ \A x \in D : x.id \in (GetManagementNodeCount + 1)..146
      /\ \A x \in Q : x.id \in 148..(FirstFreeApiId(s) - 1)
      /\ \A x \in A : x.id = 147 \/ (x.id \in Nat /\ x.id >= FirstFreeApiId(s))
  BY NodeIdRanges DEF NdbNodeTypeAPIStartNodeId, NdbOperatorDedicatedAPINodeId
<1>5. /\ \A x, y \in MgmdSections : x.id = y.id => x = y
      /\ \A x, y \in D : x.id = y.id => x = y
      /\ \A x, y \in Q : x.id = y.id => x = y
      /\ \A x, y \in A : x.id = y.id => x = y
  BY IdsWithinKind
<1> HIDE DEF D, Q, A
<1>6. CASE n \in MgmdSections
  <2>1. m \in MgmdSections
    BY <1>1, <1>2, <1>3, <1>4, <1>6
  <2> QED  BY <2>1, <1>5, <1>6
<1>7. CASE n \in D
  <2>1. m \in D
    BY <1>1, <1>2, <1>3, <1>4, <1>7
  <2> QED  BY <2>1, <1>5, <1>7
<1>8. CASE n \in Q
  <2>1. m \in Q
    BY <1>1, <1>2, <1>3, <1>4, <1>8
  <2> QED  BY <2>1, <1>5, <1>8
<1>9. CASE n \in A
  <2>1. m \in A
    BY <1>1, <1>2, <1>3, <1>4, <1>9
  <2> QED  BY <2>1, <1>5, <1>9
<1> QED  BY <1>1, <1>6, <1>7, <1>8, <1>9

\* The data nodes of a generated config.ini are those of the spec, each with
\* the id that its ordinal gives it.
LEMMA GeneratedDataNodes ==
    ASSUME NEW s \in SpecType, NEW cs
    PROVE  /\ \A n \in SectionsOf(GetConfigString(s, cs), "ndbmtd") :
                 n.pod \in 0..(s.nodes - 1) /\ n.id = GetManagementNodeCount + 1 + n.pod
           /\ \A i \in 0..(s.nodes - 1) :
                 \E n \in SectionsOf(GetConfigString(s, cs), "ndbmtd") :
                    n.pod = i /\ n.id = GetManagementNodeCount + 1 + i
<1> DEFINE old == cs.dataNodes
           start == IF old # 0 /\ old < s.nodes THEN GetManagementNodeCount + old + 1 ELSE 0
           node(i) == Node(DataNodeId(s, i), "ndbmtd", i, IsNewDataNode(start, DataNodeId(s, i)))
<1>1. DataNodeSections(s, old) = {node(i) : i \in 0..(s.nodes - 1)}
  BY DEF DataNodeSections
<1>2. \A i : node(i).type = "ndbmtd" /\ node(i).pod = i
                /\ node(i).id = GetManagementNodeCount + 1 + i
  BY DEF Node, DataNodeId
<1> HIDE DEF node
<1>3. SectionsOf(GetConfigString(s, cs), "ndbmtd") = DataNodeSections(s, old)
  <2>1. \A n \in MgmdSections \cup GetMySQLServerNodeIds(s) \cup ApiSections(s) :
           n.type # "ndbmtd"
    BY DEF MgmdSections, GetMySQLServerNodeIds, ApiSections, Node
  <2>2. \A n \in DataNodeSections(s, old) : n.type = "ndbmtd"
    BY <1>1, <1>2
  <2> QED  BY <2>1, <2>2 DEF SectionsOf, GetConfigString
<1> QED  BY <1>1, <1>2, <1>3

-----------------------------------------------------------------------------
(* What a patch does to config.ini *)

\* A patch leaves config.ini alone or brings the one of the current spec.
LEMMA PatchedConfig ==
    ASSUME DOMAIN cm = Keys, DOMAIN cached = Keys, PatchConfigMap
    PROVE  /\ DOMAIN cm' = Keys
           /\ cm'.ini = cm.ini \/ cm'.ini = GetConfigString(spec, NewConfigSummary(read))
<1> DEFINE cs == NewConfigSummary(read)
           new == GetUpdatedConfigMap(cached, cs)
<1>1. cm' = [key \in DOMAIN cm |-> IF new[key] # cached[key] THEN new[key] ELSE cm[key]]
  BY DEF PatchConfigMap, Patched
<1>2. new.ini = cached.ini \/ new.ini = GetConfigString(spec, cs)
  <2> HIDE DEF cs
  <2> QED  BY DEF GetUpdatedConfigMap, Keys
<1> HIDE DEF new, cs
<1>3. cm'.ini = cm.ini \/ (new.ini # cached.ini /\ cm'.ini = new.ini)
  BY <1>1 DEF Keys
<1>4. DOMAIN cm' = Keys
  BY <1>1
<1> QED  BY <1>2, <1>3, <1>4 DEF cs

\* What the webhook admits is a spec with at least one MySQL Server.
LEMMA MutatedSpec ==
    ASSUME NEW s \in Specs
    PROVE  mutate(s) \in SpecType /\ mutate(s).servers >= 1
<1>1. s \in SpecType
  BY ConfigAssumption
<1>2. CASE s.servers = 0
  <2> DEFINE max == IF s.max = 0 THEN 1 ELSE s.max
             one == [s EXCEPT !.servers = 1]
  <2>1. mutate(s) = [one EXCEPT !.max = max]
    BY <1>1, <1>2 DEF mutate, SpecType
  <2>2. max \in Nat
    BY <1>1 DEF SpecType
  <2>3. one \in SpecType /\ one.servers = 1
    BY <1>1 DEF SpecType
  <2> HIDE DEF max, one
  <2> QED  BY <2>1, <2>2, <2>3 DEF SpecType
<1>3. CASE s.servers # 0
  <2> DEFINE max == IF s.max = 0 THEN s.servers + 2 ELSE s.max
  <2>1. mutate(s) = [s EXCEPT !.max = max]
    BY <1>3 DEF mutate
  <2>2. max \in Nat
    BY <1>1 DEF SpecType
  <2> HIDE DEF max
  <2> QED  BY <1>1, <1>3, <2>1, <2>2 DEF SpecType
<1> QED  BY <1>2, <1>3

-----------------------------------------------------------------------------
(* Node ids *)

\* Every data node of config.ini is one of the spec, with the id of its ordinal.
DataNodesPlaced ==
    \A n \in SectionsOf(cm.ini, "ndbmtd") :
        n.pod \in 0..(spec.nodes - 1) /\ n.id = GetManagementNodeCount + 1 + n.pod

\* The invariant: the spec only grows, so its data nodes stay those of config.ini.
NodeIdInv ==
    /\ spec \in SpecType
    /\ DOMAIN cm = Keys /\ DOMAIN cached = Keys
    /\ DistinctNodeIds
    /\ DataNodesPlaced

\* A config.ini just generated is as NodeIdInv says.
LEMMA GeneratedConfig ==
    ASSUME spec \in SpecType, NEW cs, cm'.ini = GetConfigString(spec, cs), UNCHANGED spec
    PROVE  DistinctNodeIds' /\ DataNodesPlaced'
<1>1. DistinctNodeIds'
  BY GeneratedIdsDistinct DEF DistinctNodeIds
<1>2. DataNodesPlaced'
  BY GeneratedDataNodes DEF DataNodesPlaced
<1> QED  BY <1>1, <1>2

\* NodeIdInv holds before anything is written: there is no node yet.
LEMMA NodeIdInit ==
    ASSUME Init
    PROVE  NodeIdInv
<1>1. spec \in SpecType
  BY MutatedSpec DEF Init
<1>2. DOMAIN cm = Keys /\ DOMAIN cached = Keys /\ cm.ini.nodes = {}
  BY DEF Init, NoConfigMap, Keys
<1> QED  BY <1>1, <1>2 DEF NodeIdInv, DistinctNodeIds, DataNodesPlaced, SectionsOf

\* Every action keeps NodeIdInv; only CreateConfigMap and PatchConfigMap write config.ini.
LEMMA NodeIdStep ==
    ASSUME NodeIdInv, [Next]_vars
    PROVE  NodeIdInv'
<1> USE DEF NodeIdInv
<1>1. CASE CreateConfigMap
  <2>1. DOMAIN cm' = Keys /\ cm'.ini = GetConfigString(spec, NewConfigSummary(NoConfigMap))
    BY <1>1 DEF CreateConfigMap, CreatedConfigMap, Keys
  <2>2. UNCHANGED <<spec, cached>>
    BY <1>1 DEF CreateConfigMap
  <2> QED  BY <2>1, <2>2, GeneratedConfig
<1>2. CASE PatchConfigMap
  <2>1. UNCHANGED <<spec, cached>>
    BY <1>2 DEF PatchConfigMap
  <2>2. DOMAIN cm' = Keys
    BY <1>2, PatchedConfig
  <2>3. CASE cm'.ini = cm.ini
    BY <2>1, <2>2, <2>3 DEF DistinctNodeIds, DataNodesPlaced
  <2>4. CASE cm'.ini = GetConfigString(spec, NewConfigSummary(read))
    BY <2>1, <2>2, <2>4, GeneratedConfig
  <2> QED  BY <1>2, <2>3, <2>4, PatchedConfig
<1>3. CASE DeliverConfigMap
  BY <1>3 DEF DeliverConfigMap, DistinctNodeIds, DataNodesPlaced
<1>4. CASE StartSync
  BY <1>4 DEF StartSync, DistinctNodeIds, DataNodesPlaced
<1>5. CASE CreateNodeGroups
  BY <1>5 DEF CreateNodeGroups, DistinctNodeIds, DataNodesPlaced
<1>6. CASE UpdateSpec
  <2>1. PICK s \in Specs : IsValidSpecUpdate(spec, mutate(s)) /\ spec' = mutate(s)
    BY <1>6 DEF UpdateSpec
  <2>2. spec' \in SpecType /\ spec.nodes <= spec'.nodes
    BY <2>1, MutatedSpec DEF IsValidSpecUpdate
  <2>3. UNCHANGED <<cm, cached>>
    BY <1>6 DEF UpdateSpec
  <2>4. DistinctNodeIds'
    BY <2>3 DEF DistinctNodeIds
  <2>5. spec.nodes \in Nat /\ spec'.nodes \in Nat
    BY <2>2 DEF SpecType, MaxNumberOfDataNodes
  <2>6. 0..(spec.nodes - 1) \subseteq 0..(spec'.nodes - 1)
    BY <2>2, <2>5
  <2>7. DataNodesPlaced'
    BY <2>3, <2>6 DEF DataNodesPlaced
  <2> QED  BY <2>2, <2>3, <2>4, <2>7
<1>7. CASE UNCHANGED vars
  BY <1>7 DEF vars, DistinctNodeIds, DataNodesPlaced
<1> QED  BY <1>1, <1>2, <1>3, <1>4, <1>5, <1>6, <1>7 DEF Next

\* No config.ini that the operator writes has two nodes with the same id:
\* at most two management nodes and 144 data nodes stay below the operator's
\* own API node, and the MySQL Servers and free slots follow it.
THEOREM NodeIdsDistinct == Spec => []DistinctNodeIds
<1>1. Init => NodeIdInv
  BY NodeIdInit
<1>2. NodeIdInv /\ [Next]_vars => NodeIdInv'
  BY NodeIdStep
<1>3. NodeIdInv => DistinctNodeIds
  BY DEF NodeIdInv
<1> QED  BY <1>1, <1>2, <1>3, PTL DEF Spec

\* A data node keeps its node id and its host in every later config.ini, from
\* whatever stale copy that was computed and however updates overlap.
THEOREM DataNodeIdsKept == Spec => DataNodesKeepIds
<1> DEFINE Kept == \A n \in SectionsOf(cm.ini, "ndbmtd") :
                      \E m \in SectionsOf(cm'.ini, "ndbmtd") : m.id = n.id /\ m.pod = n.pod
<1>1. ASSUME NodeIdInv, [Next]_vars
      PROVE  [Kept]_vars
  <2>1. CASE cm'.ini = cm.ini
    BY <2>1
  <2>2. ASSUME NEW cs, cm'.ini = GetConfigString(spec, cs)
        PROVE  Kept
    <3> SUFFICES ASSUME NEW n \in SectionsOf(cm.ini, "ndbmtd")
                 PROVE  \E m \in SectionsOf(cm'.ini, "ndbmtd") : m.id = n.id /\ m.pod = n.pod
      OBVIOUS
    <3>1. n.pod \in 0..(spec.nodes - 1) /\ n.id = GetManagementNodeCount + 1 + n.pod
      BY <1>1 DEF NodeIdInv, DataNodesPlaced
    <3> QED  BY <1>1, <2>2, <3>1, GeneratedDataNodes DEF NodeIdInv
  <2>3. CASE CreateConfigMap
    BY <2>2, <2>3 DEF CreateConfigMap, CreatedConfigMap
  <2>4. CASE PatchConfigMap
    BY <1>1, <2>1, <2>2, <2>4, PatchedConfig DEF NodeIdInv
  <2>5. CASE DeliverConfigMap \/ StartSync \/ CreateNodeGroups \/ UpdateSpec
    BY <2>1, <2>5 DEF DeliverConfigMap, StartSync, CreateNodeGroups, UpdateSpec
  <2> QED  BY <1>1, <2>3, <2>4, <2>5 DEF Next
<1>2. Init => NodeIdInv
  BY NodeIdInit
<1>3. NodeIdInv /\ [Next]_vars => NodeIdInv'
  BY NodeIdStep
<1> QED  BY <1>1, <1>2, <1>3, PTL DEF Spec, DataNodesKeepIds

-----------------------------------------------------------------------------
(* Types *)

\* The nodes of a config.ini, typed and finite in number.
NodesOK(nodes) ==
    /\ \A n \in nodes : n.id \in Nat /\ n.pod \in Int /\ n.new \in BOOLEAN
    /\ IsFiniteSet(nodes)

\* TypeOK with what makes it inductive: the cached ConfigMap is never ahead
\* of the one in the API server, and only nodes that are finite can be counted.
TypeInv ==
    /\ TypeOK
    /\ \A c \in {cm, cached, read} : DOMAIN c = Keys /\ NodesOK(c.ini.nodes)
    /\ cached.gen <= cm.gen

\* A generated config.ini has typed nodes, finite in number.
LEMMA GeneratedNodes ==
    ASSUME NEW s \in SpecType, NEW cs
    PROVE  NodesOK(GetConfigString(s, cs).nodes)
<1> DEFINE D == DataNodeSections(s, cs.dataNodes)
           Q == GetMySQLServerNodeIds(s)
           A == ApiSections(s)
           N == GetNumOfSectionsRequiredForMySQLServers(s)
           M == GetManagementNodeCount
           old == cs.dataNodes
           start == IF old # 0 /\ old < s.nodes THEN M + old + 1 ELSE 0
           ok(S) == (\A n \in S : n.id \in Nat /\ n.pod \in Int /\ n.new \in BOOLEAN)
                        /\ IsFiniteSet(S)
<1>1. /\ s.nodes \in 1..144 /\ s.free \in Nat /\ s.pool \in 1..63
      /\ N \in Nat /\ M \in 1..2 /\ FirstFreeApiId(s) \in Nat
  BY SlotsType DEF SpecType, MaxNumberOfDataNodes, GetManagementNodeCount, FirstFreeApiId,
                   NdbNodeTypeAPIStartNodeId, NdbOperatorDedicatedAPINodeId
<1>2. ok(MgmdSections)
  <2> DEFINE node(i) == Node(i + 1, "mgmd", i, FALSE)
             f == [i \in 0..(M - 1) |-> node(i)]
  <2>1. MgmdSections = {f[i] : i \in 0..(M - 1)}
    BY DEF MgmdSections
  <2>2. \A i \in 0..(M - 1) : f[i].id \in Nat /\ f[i].pod \in Int /\ f[i].new \in BOOLEAN
    <3> SUFFICES ASSUME NEW i \in 0..(M - 1)
                 PROVE  f[i].id \in Nat /\ f[i].pod \in Int /\ f[i].new \in BOOLEAN
      OBVIOUS
    <3>1. f[i].id \in Nat /\ f[i].pod \in Int
      BY <1>1 DEF Node
    <3>2. f[i].new \in BOOLEAN
      BY DEF Node
    <3> QED  BY <3>1, <3>2
  <2>3. IsFiniteSet({f[i] : i \in 0..(M - 1)})
    <3> HIDE DEF f
    <3> QED  BY <1>1, ImageFinite
  <2> HIDE DEF f
  <2> QED  BY <2>1, <2>2, <2>3
<1>3. ok(D)
  <2> DEFINE node(i) == Node(DataNodeId(s, i), "ndbmtd", i, IsNewDataNode(start, DataNodeId(s, i)))
             f == [i \in 0..(s.nodes - 1) |-> node(i)]
  <2>1. D = {f[i] : i \in 0..(s.nodes - 1)}
    BY DEF DataNodeSections
  <2>2. \A i \in 0..(s.nodes - 1) : f[i].id \in Nat /\ f[i].pod \in Int /\ f[i].new \in BOOLEAN
    <3> SUFFICES ASSUME NEW i \in 0..(s.nodes - 1)
                 PROVE  f[i].id \in Nat /\ f[i].pod \in Int /\ f[i].new \in BOOLEAN
      OBVIOUS
    <3>1. DataNodeId(s, i) \in Nat
      BY <1>1 DEF DataNodeId
    <3>2. IsNewDataNode(start, DataNodeId(s, i)) \in BOOLEAN
      BY DEF IsNewDataNode
    <3> HIDE DEF start
    <3> QED  BY <1>1, <3>1, <3>2 DEF Node
  <2>3. IsFiniteSet({f[i] : i \in 0..(s.nodes - 1)})
    <3> HIDE DEF f
    <3>1. s.nodes - 1 \in Int
      BY <1>1
    <3> QED  BY <3>1, ImageFinite
  <2> HIDE DEF f, D
  <2> QED  BY <2>1, <2>2, <2>3
<1>4. ok(Q)
  <2> DEFINE node(k) == Node(NdbNodeTypeAPIStartNodeId + k, "mysqld", k \div s.pool, FALSE)
             f == [k \in 0..(N - 1) |-> node(k)]
  <2>1. Q = {f[k] : k \in 0..(N - 1)}
    BY DEF GetMySQLServerNodeIds
  <2>2. \A k \in 0..(N - 1) : f[k].id \in Nat /\ f[k].pod \in Int /\ f[k].new \in BOOLEAN
    <3> SUFFICES ASSUME NEW k \in 0..(N - 1)
                 PROVE  f[k].id \in Nat /\ f[k].pod \in Int /\ f[k].new \in BOOLEAN
      OBVIOUS
    <3>1. f[k].id \in Nat /\ f[k].pod \in Int
      BY <1>1 DEF Node, NdbNodeTypeAPIStartNodeId, NdbOperatorDedicatedAPINodeId
    <3>2. f[k].new \in BOOLEAN
      BY DEF Node
    <3> QED  BY <3>1, <3>2
  <2>3. IsFiniteSet({f[k] : k \in 0..(N - 1)})
    <3> HIDE DEF f
    <3> QED  BY <1>1, ImageFinite
  <2> HIDE DEF f, Q
  <2> QED  BY <2>1, <2>2, <2>3
<1>5. ok(A)
  <2> DEFINE own == Node(NdbOperatorDedicatedAPINodeId, "api", -1, FALSE)
             node(k) == Node(FirstFreeApiId(s) + k, "api", -1, FALSE)
             f == [k \in 0..(s.free - 1) |-> node(k)]
  <2>1. A = {own} \cup {f[k] : k \in 0..(s.free - 1)}
    BY DEF ApiSections
  <2>2. \A k \in 0..(s.free - 1) : f[k].id \in Nat /\ f[k].pod \in Int /\ f[k].new \in BOOLEAN
    <3> SUFFICES ASSUME NEW k \in 0..(s.free - 1)
                 PROVE  f[k].id \in Nat /\ f[k].pod \in Int /\ f[k].new \in BOOLEAN
      OBVIOUS
    <3>1. f[k].id \in Nat /\ f[k].pod \in Int
      BY <1>1 DEF Node
    <3>2. f[k].new \in BOOLEAN
      BY DEF Node
    <3> QED  BY <3>1, <3>2
  <2>3. own.id \in Nat /\ own.pod \in Int /\ own.new \in BOOLEAN
    BY DEF Node, NdbOperatorDedicatedAPINodeId
  <2>4. IsFiniteSet({f[k] : k \in 0..(s.free - 1)})
    <3> HIDE DEF f
    <3> QED  BY <1>1, ImageFinite
  <2>5. IsFiniteSet({own} \cup {f[k] : k \in 0..(s.free - 1)})
    BY <2>4, FS_Singleton, FS_Union
  <2> HIDE DEF f, A, own
  <2> QED  BY <2>1, <2>2, <2>3, <2>5
<1>6. GetConfigString(s, cs).nodes = MgmdSections \cup D \cup Q \cup A
  BY DEF GetConfigString
<1> HIDE DEF D, Q, A
<1>7. IsFiniteSet(MgmdSections \cup D \cup Q \cup A)
  BY <1>2, <1>3, <1>4, <1>5, FS_Union
<1> QED  BY <1>2, <1>3, <1>4, <1>5, <1>6, <1>7 DEF NodesOK

\* The version of a generated config.ini is one more than the last one.
LEMMA GeneratedVersion ==
    ASSUME NEW s, NEW cs, cs.version \in Nat
    PROVE  GetConfigString(s, cs).version = cs.version + 1
BY DEF GetConfigString, GetConfigVersion

\* TypeInv holds initially, with the spec that the webhook has completed.
LEMMA TypeInit ==
    ASSUME Init
    PROVE  TypeInv
<1>1. spec \in SpecType /\ spec.servers >= 1 /\ spec.max >= spec.servers
  BY MutatedSpec DEF Init, hasValidSpec
<1>2. spec.servers \in 1..spec.max
  BY <1>1 DEF SpecType
<1>3. \A c \in {cm, cached, read} :
         /\ DOMAIN c = Keys /\ c.gen = 0 /\ c.init = FALSE
         /\ c.ini.version = 0 /\ c.ini.nodes = {}
  <2>1. /\ DOMAIN NoConfigMap = Keys /\ NoConfigMap.gen = 0
        /\ NoConfigMap.ini.version = 0 /\ NoConfigMap.ini.nodes = {}
    BY DEF NoConfigMap, Keys
  <2>2. NoConfigMap.init = FALSE
    BY DEF NoConfigMap
  <2> QED  BY <2>1, <2>2 DEF Init
<1>4. gen \in 1..MaxGen /\ inducted \in Nat
  BY ConfigAssumption DEF Init
<1>5. \A c \in {cm, cached, read} : NodesOK(c.ini.nodes)
  BY <1>3, FS_EmptySet DEF NodesOK
<1>6. \A c \in {cm, cached, read} : c.gen \in 0..gen /\ c.ini.version \in 0..c.gen
  BY <1>3, <1>4, ConfigAssumption
<1>7. \A c \in {cm, cached, read} : c.init \in BOOLEAN
  BY <1>3
<1>8. cached.gen <= cm.gen
  BY <1>3
<1> QED  BY <1>1, <1>2, <1>3, <1>4, <1>5, <1>6, <1>7, <1>8 DEF TypeInv, TypeOK, NodesOK

\* What the actions keep of TypeInv when the ConfigMap they write is typed.
LEMMA TypeKept ==
    ASSUME TypeInv, UNCHANGED <<gen, spec, cached>>, read' = read \/ read' = cm', inducted' \in Nat,
           DOMAIN cm' = Keys, NodesOK(cm'.ini.nodes), cm'.init \in BOOLEAN,
           cm'.gen \in 0..gen, cached.gen <= cm'.gen, cm'.ini.version \in 0..cm'.gen
    PROVE  TypeInv'
BY DEF TypeInv, TypeOK, NodesOK

\* Every action keeps TypeInv.
LEMMA TypeStep ==
    ASSUME TypeInv, [Next]_vars
    PROVE  TypeInv'
<1>0. /\ gen \in Nat /\ gen >= 1 /\ spec \in SpecType /\ spec.nodes \in Nat /\ inducted \in Nat
      /\ cm.gen \in 0..gen /\ cached.gen \in 0..gen /\ read.gen \in 0..gen
      /\ cm.ini.version \in 0..cm.gen /\ read.ini.version \in 0..read.gen
      /\ cached.gen <= cm.gen
  BY ConfigAssumption DEF TypeInv, TypeOK, SpecType, MaxNumberOfDataNodes
<1>1. CASE CreateConfigMap
  <2> DEFINE cs == NewConfigSummary(NoConfigMap)
  <2>1. cs.version = 0 /\ cm.gen = 0
    BY <1>1 DEF CreateConfigMap, NewConfigSummary, NoConfigMap
  <2> HIDE DEF cs
  <2>2. /\ DOMAIN cm' = Keys /\ cm'.gen = gen /\ cm'.init = FALSE
        /\ cm'.ini = GetConfigString(spec, cs)
    BY <1>1 DEF CreateConfigMap, CreatedConfigMap, Keys, cs
  <2>3. cm'.ini.version = 1
    BY <2>1, <2>2, GeneratedVersion
  <2>4. NodesOK(cm'.ini.nodes)
    BY <1>0, <2>2, GeneratedNodes
  <2>5. cm'.init \in BOOLEAN
    BY <2>2
  <2>6. UNCHANGED <<gen, spec, cached>> /\ read' = cm' /\ inducted' \in Nat
    BY <1>0, <1>1 DEF CreateConfigMap
  <2>7. cm'.gen \in 0..gen /\ cached.gen <= cm'.gen /\ cm'.ini.version \in 0..cm'.gen
    BY <1>0, <2>1, <2>2, <2>3
  <2> QED  BY <2>2, <2>4, <2>5, <2>6, <2>7, TypeKept
<1>2. CASE PatchConfigMap
  <2> DEFINE cs == NewConfigSummary(read)
             new == GetUpdatedConfigMap(cached, cs)
  <2>1. DOMAIN cm = Keys /\ DOMAIN cached = Keys
    BY DEF TypeInv
  <2>2. cm' = [key \in Keys |-> IF new[key] # cached[key] THEN new[key] ELSE cm[key]]
    BY <1>2, <2>1 DEF PatchConfigMap, Patched
  <2>3. cs.version = read.ini.version /\ cs.gen = read.gen
    BY DEF NewConfigSummary
  <2>4. new.init \in BOOLEAN
    <3> HIDE DEF cs
    <3> QED  BY <2>1 DEF GetUpdatedConfigMap, Keys
  <2>5. cm'.init \in BOOLEAN
    <3>1. cm'.init = new.init \/ cm'.init = cm.init
      <4> HIDE DEF new
      <4> QED  BY <2>2 DEF Keys
    <3>2. cm.init \in BOOLEAN
      BY DEF TypeInv, TypeOK
    <3> HIDE DEF new
    <3> QED  BY <3>1, <3>2, <2>4
  <2>6. DOMAIN cm' = Keys
    BY <2>2
  <2>7. cm'.ini = cm.ini \/ (cs.gen # gen /\ cm'.ini = GetConfigString(spec, cs))
    <3>1. new.ini = cached.ini \/ (cs.gen # gen /\ new.ini = GetConfigString(spec, cs))
      <4> HIDE DEF cs
      <4> QED  BY <2>1 DEF GetUpdatedConfigMap, Keys
    <3>2. cm'.ini = cm.ini \/ (new.ini # cached.ini /\ cm'.ini = new.ini)
      <4> HIDE DEF new
      <4> QED  BY <2>2 DEF Keys
    <3> HIDE DEF new, cs
    <3> QED  BY <3>1, <3>2
  <2>8. cm'.gen = IF cs.gen = gen THEN cm.gen ELSE gen
    <3>1. new.gen = IF cs.gen = gen THEN cached.gen ELSE gen
      <4> HIDE DEF cs
      <4> QED  BY <2>1 DEF GetUpdatedConfigMap, Keys
    <3>2. cm'.gen = IF new.gen # cached.gen THEN new.gen ELSE cm.gen
      <4> HIDE DEF new
      <4> QED  BY <2>2 DEF Keys
    <3> HIDE DEF new, cs
    <3> QED  BY <1>0, <3>1, <3>2
  <2> HIDE DEF new, cs
  <2>9. UNCHANGED <<gen, spec, cached, read>> /\ inducted' \in Nat
    BY <1>0, <1>2 DEF PatchConfigMap
  <2>10. NodesOK(cm'.ini.nodes)
    <3>1. NodesOK(cm.ini.nodes)
      BY DEF TypeInv
    <3>2. NodesOK(GetConfigString(spec, cs).nodes)
      BY <1>0, GeneratedNodes
    <3> QED  BY <2>7, <3>1, <3>2
  <2>11. cm'.gen \in 0..gen /\ cached.gen <= cm'.gen
    BY <1>0, <2>8
  <2>12. cm'.ini.version \in 0..cm'.gen
    <3>1. CASE cm'.ini = cm.ini
      BY <1>0, <2>8, <3>1
    <3>2. CASE cs.gen # gen /\ cm'.ini = GetConfigString(spec, cs)
      <4>1. cs.version \in Nat
        BY <1>0, <2>3
      <4>2. cm'.ini.version = cs.version + 1
        BY <3>2, <4>1, GeneratedVersion
      <4> QED  BY <1>0, <2>3, <2>8, <3>2, <4>2
    <3> QED  BY <2>7, <3>1, <3>2
  <2> QED  BY <2>5, <2>6, <2>9, <2>10, <2>11, <2>12, TypeKept
<1>3. CASE DeliverConfigMap
  BY <1>0, <1>3 DEF DeliverConfigMap, TypeInv, TypeOK
<1>4. CASE StartSync
  BY <1>0, <1>4 DEF StartSync, TypeInv, TypeOK
<1>5. CASE CreateNodeGroups
  <2>1. IsFiniteSet(SectionsOf(read.ini, "ndbmtd"))
    <3>1. IsFiniteSet(read.ini.nodes)
      BY DEF TypeInv, NodesOK
    <3> QED  BY <3>1, FS_Subset DEF SectionsOf
  <2>2. inducted' \in Nat
    BY <1>5, <2>1, FS_CardinalityType DEF CreateNodeGroups, NewConfigSummary
  <2> QED  BY <1>5, <2>2 DEF CreateNodeGroups, TypeInv, TypeOK
<1>6. CASE UpdateSpec
  <2>1. PICK s \in Specs : IsValidSpecUpdate(spec, mutate(s)) /\ spec' = mutate(s)
    BY <1>6 DEF UpdateSpec
  <2>2. spec' \in SpecType /\ spec'.servers >= 1 /\ spec'.max >= spec'.servers
    BY <2>1, MutatedSpec DEF IsValidSpecUpdate, hasValidSpec
  <2>3. spec'.servers \in 1..spec'.max
    BY <2>2 DEF SpecType
  <2>4. gen' \in 1..MaxGen /\ gen' = gen + 1
    BY <1>0, <1>6, ConfigAssumption DEF UpdateSpec
  <2>5. UNCHANGED <<cm, cached, read, inducted>>
    BY <1>6 DEF UpdateSpec
  <2>6. \A c \in {cm, cached, read} : c.gen \in 0..gen'
    BY <1>0, <2>4
  <2> QED  BY <2>2, <2>3, <2>4, <2>5, <2>6 DEF TypeInv, TypeOK
<1>7. CASE UNCHANGED vars
  BY <1>7 DEF vars, TypeInv, TypeOK
<1> QED  BY <1>1, <1>2, <1>3, <1>4, <1>5, <1>6, <1>7 DEF Next

\* Every variable keeps its type; a version of config.ini never gets ahead of
\* the generation it was written for, from whatever copy it was computed.
THEOREM ConfigTypeCorrect == Spec => []TypeOK
<1>1. Init => TypeInv
  BY TypeInit
<1>2. TypeInv /\ [Next]_vars => TypeInv'
  BY TypeStep
<1>3. TypeInv => TypeOK
  BY DEF TypeInv
<1> QED  BY <1>1, <1>2, <1>3, PTL DEF Spec

-----------------------------------------------------------------------------
(* What a generated config.ini holds *)

\* n values numbered without repetition are n values.
LEMMA ImageCardinality ==
    ASSUME NEW n \in Nat, NEW f,
           \A i, j \in 0..(n - 1) : f[i] = f[j] => i = j
    PROVE  /\ IsFiniteSet({f[i] : i \in 0..(n - 1)})
           /\ Cardinality({f[i] : i \in 0..(n - 1)}) = n
<1> DEFINE S == 0..(n - 1)
           T == {f[i] : i \in S}
           g == [i \in S |-> f[i]]
<1>1. IsFiniteSet(S) /\ Cardinality(S) = n
  BY FS_Interval
<1>2. g \in Bijection(S, T)
  <2>1. g \in [S -> T] /\ \A t \in T : \E i \in S : g[i] = t
    OBVIOUS
  <2>2. \A i, j \in S : g[i] = g[j] => i = j
    OBVIOUS
  <2> HIDE DEF S, T, g
  <2> QED  BY <2>1, <2>2 DEF Bijection, Injection, Surjection, IsInjective
<1> HIDE DEF S, T, g
<1>3. IsFiniteSet(T) /\ Cardinality(T) = Cardinality(S)
  <2>1. \E h : h \in Bijection(S, T)
    BY <1>2
  <2> QED  BY <1>1, <2>1, FS_Bijection DEF ExistsBijection
<1> QED  BY <1>1, <1>3 DEF S, T

\* Its data nodes.
LEMMA DataNodesCounted ==
    ASSUME NEW s \in SpecType, NEW old
    PROVE  Cardinality(DataNodeSections(s, old)) = s.nodes
<1> DEFINE start == IF old # 0 /\ old < s.nodes THEN GetManagementNodeCount + old + 1 ELSE 0
           node(i) == Node(DataNodeId(s, i), "ndbmtd", i, IsNewDataNode(start, DataNodeId(s, i)))
           f == [i \in 0..(s.nodes - 1) |-> node(i)]
<1>1. s.nodes \in Nat
  BY DEF SpecType, MaxNumberOfDataNodes
<1>2. DataNodeSections(s, old) = {f[i] : i \in 0..(s.nodes - 1)}
  BY DEF DataNodeSections
<1>3. \A i \in 0..(s.nodes - 1) : f[i].pod = i
  BY DEF Node
<1> HIDE DEF f
<1>4. \A i, j \in 0..(s.nodes - 1) : f[i] = f[j] => i = j
  BY <1>3
<1> QED  BY <1>1, <1>2, <1>4, ImageCardinality

\* Its slots for MySQL Servers.
LEMMA SlotsCounted ==
    ASSUME NEW s \in SpecType
    PROVE  Cardinality(GetMySQLServerNodeIds(s)) = GetNumOfSectionsRequiredForMySQLServers(s)
<1> DEFINE N == GetNumOfSectionsRequiredForMySQLServers(s)
           f == [k \in 0..(N - 1) |->
                    Node(NdbNodeTypeAPIStartNodeId + k, "mysqld", k \div s.pool, FALSE)]
<1>1. N \in Nat
  BY SlotsType
<1>2. GetMySQLServerNodeIds(s) = {f[k] : k \in 0..(N - 1)}
  BY DEF GetMySQLServerNodeIds
<1>3. \A k \in 0..(N - 1) : f[k].id = NdbNodeTypeAPIStartNodeId + k
  BY DEF Node
<1> HIDE DEF f, N
<1>4. \A k, l \in 0..(N - 1) : f[k] = f[l] => k = l
  BY <1>1, <1>3 DEF NdbNodeTypeAPIStartNodeId, NdbOperatorDedicatedAPINodeId
<1>5. /\ IsFiniteSet({f[k] : k \in 0..(N - 1)})
      /\ Cardinality({f[k] : k \in 0..(N - 1)}) = N
  BY <1>1, <1>4, ImageCardinality
<1> QED  BY <1>2, <1>5 DEF N

\* Its API slots: the free ones and the operator's own.
LEMMA ApiCounted ==
    ASSUME NEW s \in SpecType
    PROVE  Cardinality(ApiSections(s)) = s.free + 1
<1> DEFINE F == FirstFreeApiId(s)
           own == Node(147, "api", -1, FALSE)
           f == [k \in 0..(s.free - 1) |-> Node(F + k, "api", -1, FALSE)]
           T == {f[k] : k \in 0..(s.free - 1)}
<1>1. s.free \in Nat
  BY DEF SpecType
<1>2. F \in Nat /\ F > 147
  BY SlotsType DEF FirstFreeApiId, NdbNodeTypeAPIStartNodeId, NdbOperatorDedicatedAPINodeId
<1>3. ApiSections(s) = {own} \cup T
  BY DEF ApiSections, NdbOperatorDedicatedAPINodeId
<1>4. own.id = 147 /\ \A k \in 0..(s.free - 1) : f[k].id = F + k
  BY DEF Node
<1> HIDE DEF F, own, f
<1>5. \A k, l \in 0..(s.free - 1) : f[k] = f[l] => k = l
  BY <1>1, <1>2, <1>4
<1>6. \A k \in 0..(s.free - 1) : f[k] # own
  BY <1>1, <1>2, <1>4
<1>7. IsFiniteSet(T) /\ Cardinality(T) = s.free
  <2> DEFINE n == s.free
  <2>1. n \in Nat /\ \A k, l \in 0..(n - 1) : f[k] = f[l] => k = l
    BY <1>1, <1>5
  <2> HIDE DEF n
  <2>2. /\ IsFiniteSet({f[k] : k \in 0..(n - 1)})
        /\ Cardinality({f[k] : k \in 0..(n - 1)}) = n
    BY <2>1, ImageCardinality
  <2> QED  BY <2>2 DEF n
<1>8. own \notin T
  BY <1>6
<1> HIDE DEF T
<1>9. {own} \cup T = T \cup {own}
  OBVIOUS
<1> QED  BY <1>3, <1>7, <1>8, <1>9, FS_AddElement

\* Its nodes, by type.
LEMMA GeneratedSections ==
    ASSUME NEW s \in SpecType, NEW cs
    PROVE  /\ SectionsOf(GetConfigString(s, cs), "mgmd") = MgmdSections
           /\ SectionsOf(GetConfigString(s, cs), "ndbmtd") = DataNodeSections(s, cs.dataNodes)
           /\ SectionsOf(GetConfigString(s, cs), "mysqld") = GetMySQLServerNodeIds(s)
           /\ SectionsOf(GetConfigString(s, cs), "api") = ApiSections(s)
<1>1. \A n \in MgmdSections : n.type = "mgmd"
  BY DEF MgmdSections, Node
<1>2. \A n \in DataNodeSections(s, cs.dataNodes) : n.type = "ndbmtd"
  BY DEF DataNodeSections, Node
<1>3. \A n \in GetMySQLServerNodeIds(s) : n.type = "mysqld"
  BY DEF GetMySQLServerNodeIds, Node
<1>4. \A n \in ApiSections(s) : n.type = "api"
  BY DEF ApiSections, Node
<1> QED  BY <1>1, <1>2, <1>3, <1>4 DEF SectionsOf, GetConfigString

-----------------------------------------------------------------------------
(* When config.ini need not be generated again *)

\* No spec sets the parameter that the operator sets for TDE.
NoOverride == \A s \in Specs : EncryptedFileSystem \notin DOMAIN s.ndbd

\* The specs that the webhook lets through.
Admitted == {s \in {mutate(t) : t \in Specs} : hasValidSpec(s)}

\* The webhook fills in the MySQL Servers and nothing else.
LEMMA AdmittedSpec ==
    ASSUME NEW s \in Admitted
    PROVE  /\ s \in SpecType /\ hasValidSpec(s)
           /\ NoOverride => EncryptedFileSystem \notin DOMAIN s.ndbd
<1>1. PICK t \in Specs : s = mutate(t)
  BY DEF Admitted
<1>2. s \in SpecType /\ hasValidSpec(s)
  BY <1>1, MutatedSpec DEF Admitted
<1>3. s.ndbd = t.ndbd
  <2>1. t \in SpecType
    BY ConfigAssumption
  <2> QED  BY <1>1, <2>1 DEF mutate, SpecType
<1> QED  BY <1>2, <1>3 DEF NoOverride

\* The parameters that the operator sets for the data nodes.
OperatorParams(s) ==
    {NoOfReplicas, ServerPort} \cup (IF s.tde # "" THEN {EncryptedFileSystem} ELSE {})

\* They are as many as the summary takes them for.
LEMMA OperatorParamsCounted ==
    ASSUME NEW s
    PROVE  /\ IsFiniteSet(OperatorParams(s))
           /\ Cardinality(OperatorParams(s)) = IF s.tde # "" THEN 3 ELSE 2
<1> DEFINE two == {NoOfReplicas} \cup {ServerPort}
<1>1. IsFiniteSet({NoOfReplicas}) /\ Cardinality({NoOfReplicas}) = 1
  BY FS_Singleton
<1>2. ServerPort \notin {NoOfReplicas}
  BY DEF ServerPort, NoOfReplicas
<1>3. IsFiniteSet(two) /\ Cardinality(two) = 2
  <2>1. Cardinality(two) = Cardinality({NoOfReplicas}) + 1 /\ IsFiniteSet(two)
    BY <1>1, <1>2, FS_AddElement
  <2> QED  BY <1>1, <2>1
<1>4. EncryptedFileSystem \notin two
  BY DEF EncryptedFileSystem, ServerPort, NoOfReplicas
<1>5. two = {NoOfReplicas, ServerPort}
  OBVIOUS
<1> HIDE DEF two
<1>6. /\ IsFiniteSet(two \cup {EncryptedFileSystem})
      /\ Cardinality(two \cup {EncryptedFileSystem}) = 3
  <2>1. /\ IsFiniteSet(two \cup {EncryptedFileSystem})
        /\ Cardinality(two \cup {EncryptedFileSystem}) = Cardinality(two) + 1
    BY <1>3, <1>4, FS_AddElement
  <2> QED  BY <1>3, <2>1
<1>7. two \cup {} = two
  OBVIOUS
<1> QED  BY <1>3, <1>5, <1>6, <1>7 DEF OperatorParams

\* A subset is the whole set if it has as many elements, others counted too.
LEMMA SameByCount ==
    ASSUME NEW A, NEW S, NEW T, IsFiniteSet(A), IsFiniteSet(S), A \cap S = {}, T \subseteq S,
           Cardinality(T) + Cardinality(A) = Cardinality(A \cup S)
    PROVE  T = S
<1>1. Cardinality(A \cup S) = Cardinality(A) + Cardinality(S) - Cardinality(A \cap S)
  BY FS_Union
<1>2. Cardinality(A \cap S) = 0
  BY FS_EmptySet
<1>3. IsFiniteSet(T)
  BY FS_Subset
<1>4. Cardinality(A) \in Nat /\ Cardinality(S) \in Nat /\ Cardinality(T) \in Nat
  BY <1>3, FS_CardinalityType
<1>5. Cardinality(T) = Cardinality(S)
  BY <1>1, <1>2, <1>4
<1> QED  BY <1>5, FS_Subset

\* If the user's parameters are found in the section with as many others as
\* the operator sets, they are those that the section was made from.
LEMMA DefaultsUnchanged ==
    ASSUME NEW s \in SpecType, NEW t \in SpecType, hasValidSpec(s), hasValidSpec(t),
           EncryptedFileSystem \notin DOMAIN s.ndbd, EncryptedFileSystem \notin DOMAIN t.ndbd,
           s.tde = "" <=> t.tde = "",
           NEW k \in Nat, s.tde # "" => k = 3, s.tde = "" => k = 2,
           ~SectionChanged(t.ndbd, NdbdDefault(s), k)
    PROVE  NdbdDefault(t) = NdbdDefault(s)
<1> DEFINE ops == OperatorParams(s)
           S == DOMAIN s.ndbd
           T == DOMAIN t.ndbd
<1>1. IsFiniteSet(S) /\ IsFiniteSet(T)
  BY ConfigAssumption DEF SpecType
<1>2. IsFiniteSet(ops) /\ Cardinality(ops) = k
  BY OperatorParamsCounted
<1>3. OperatorParams(t) = ops
  BY DEF OperatorParams
<1>4. ops \cap S = {} /\ ops \cap T = {}
  BY DEF OperatorParams, hasValidSpec, disallowedConfigParams
<1> DEFINE preset(p) == CASE p = NoOfReplicas        -> "redundancyLevel"
                          [] p = ServerPort          -> "1186"
                          [] p = EncryptedFileSystem -> "1"
           value(c, p) == IF p \in DOMAIN c THEN c[p] ELSE preset(p)
<1>5. NdbdDefault(s) = [p \in ops \cup S |-> value(s.ndbd, p)]
  BY DEF NdbdDefault, OperatorParams
<1>6. NdbdDefault(t) = [p \in ops \cup T |-> value(t.ndbd, p)]
  BY <1>3 DEF NdbdDefault, OperatorParams
<1> HIDE DEF preset
<1>7. /\ DOMAIN NdbdDefault(s) = ops \cup S
      /\ \A p \in S : NdbdDefault(s)[p] = s.ndbd[p]
  <2> HIDE DEF ops
  <2> QED  BY <1>5
<1>8. /\ Cardinality(T) + k = Cardinality(ops \cup S)
      /\ \A p \in T : p \in ops \cup S /\ NdbdDefault(s)[p] = t.ndbd[p]
  <2> HIDE DEF ops, S
  <2> QED  BY <1>7 DEF SectionChanged
<1>9. T \subseteq S
  <2> HIDE DEF ops, S, T
  <2> QED  BY <1>4, <1>8
<1>10. Cardinality(T) + Cardinality(ops) = Cardinality(ops \cup S)
  <2> HIDE DEF ops, S, T
  <2> QED  BY <1>2, <1>8
<1>11. T = S
  <2> HIDE DEF ops, S, T
  <2> QED  BY <1>1, <1>2, <1>4, <1>9, <1>10, SameByCount
<1>12. \A p \in S : t.ndbd[p] = s.ndbd[p]
  <2> HIDE DEF ops, S, T
  <2> QED  BY <1>7, <1>8, <1>11
<1>13. \A p \in ops \cup S : value(t.ndbd, p) = value(s.ndbd, p)
  BY <1>11, <1>12
<1> HIDE DEF value, ops, S, T
<1> QED  BY <1>11, <1>13, <1>5, <1>6

\* config.ini has what a spec asks for: of the data nodes' parameters if no
\* spec overrides the operator's, of the MySQL Servers the node ids.
IniHolds(ini, s) ==
    /\ Cardinality(SectionsOf(ini, "ndbmtd")) = s.nodes
    /\ Cardinality(SectionsOf(ini, "api")) = s.free + 1
    /\ Cardinality(SectionsOf(ini, "mysqld")) = GetNumOfSectionsRequiredForMySQLServers(s)
    /\ SectionsOf(ini, "mgmd") = MgmdSections
    /\ \A i \in 0..(s.nodes - 1) :
          \E n \in SectionsOf(ini, "ndbmtd") : n.pod = i /\ n.id = GetManagementNodeCount + 1 + i
    /\ "ndbd default" \in DOMAIN ini.default
    /\ NoOverride => ini.default["ndbd default"] = NdbdDefault(s)
    /\ \A k \in 0..(GetNumOfSectionsRequiredForMySQLServers(s) - 1) :
          \E n \in SectionsOf(ini, "mysqld") : n.id = NdbNodeTypeAPIStartNodeId + k

\* my.cnf has what a spec asks for.
CnfHolds(cnf, s) ==
    /\ s.cnf = "" => cnf = NoSection
    /\ s.cnf # "" => DOMAIN cnf = {"header", "mysqld"} /\ cnf["mysqld"] = s.cnf

\* A ConfigMap has what a spec asks for.
Holds(c, s) ==
    /\ IniHolds(c.ini, s)
    /\ c.tde = s.tde
    /\ CnfHolds(c.cnf, s)

\* What GetConfigString returns has what its spec asks for.
LEMMA GeneratedHolds ==
    ASSUME NEW s \in SpecType, NEW cs
    PROVE  IniHolds(GetConfigString(s, cs), s)
<1> DEFINE ini == GetConfigString(s, cs)
<1>1. /\ SectionsOf(ini, "mgmd") = MgmdSections
      /\ SectionsOf(ini, "ndbmtd") = DataNodeSections(s, cs.dataNodes)
      /\ SectionsOf(ini, "mysqld") = GetMySQLServerNodeIds(s)
      /\ SectionsOf(ini, "api") = ApiSections(s)
  BY GeneratedSections
<1>2. \A i \in 0..(s.nodes - 1) :
         \E n \in SectionsOf(ini, "ndbmtd") : n.pod = i /\ n.id = GetManagementNodeCount + 1 + i
  BY GeneratedDataNodes
<1>3. "ndbd default" \in DOMAIN ini.default /\ ini.default["ndbd default"] = NdbdDefault(s)
  BY DEF GetConfigString, DefaultSections
<1>7. \A k \in 0..(GetNumOfSectionsRequiredForMySQLServers(s) - 1) :
         \E n \in GetMySQLServerNodeIds(s) : n.id = NdbNodeTypeAPIStartNodeId + k
  <2> TAKE k \in 0..(GetNumOfSectionsRequiredForMySQLServers(s) - 1)
  <2> DEFINE n == Node(NdbNodeTypeAPIStartNodeId + k, "mysqld", k \div s.pool, FALSE)
  <2>1. n \in GetMySQLServerNodeIds(s) /\ n.id = NdbNodeTypeAPIStartNodeId + k
    BY DEF GetMySQLServerNodeIds, Node
  <2> HIDE DEF n
  <2> QED  BY <2>1
<1> HIDE DEF ini
<1>4. Cardinality(SectionsOf(ini, "ndbmtd")) = s.nodes
  BY <1>1, DataNodesCounted
<1>5. Cardinality(SectionsOf(ini, "api")) = s.free + 1
  BY <1>1, ApiCounted
<1>6. Cardinality(SectionsOf(ini, "mysqld")) = GetNumOfSectionsRequiredForMySQLServers(s)
  BY <1>1, SlotsCounted
<1> QED  BY <1>1, <1>2, <1>3, <1>4, <1>5, <1>6, <1>7 DEF IniHolds, ini

\* Unless MySQLClusterConfigNeedsUpdate says so, the config.ini of the last
\* spec has what the next one asks for.
LEMMA UnneededHolds ==
    ASSUME NEW s \in Admitted, NEW t \in Admitted, s.nodes <= t.nodes,
           NEW c, Holds(c, s), ~MySQLClusterConfigNeedsUpdate(NewConfigSummary(c), t)
    PROVE  IniHolds(c.ini, t)
<1> DEFINE cs == NewConfigSummary(c)
           k == IF s.tde # "" THEN 3 ELSE 2
<1>1. /\ s \in SpecType /\ hasValidSpec(s) /\ t \in SpecType /\ hasValidSpec(t)
      /\ NoOverride => EncryptedFileSystem \notin DOMAIN s.ndbd
      /\ NoOverride => EncryptedFileSystem \notin DOMAIN t.ndbd
  BY AdmittedSpec
<1>2. s.nodes \in Nat /\ t.nodes \in Nat /\ s.nodes <= t.nodes
  BY <1>1 DEF SpecType, MaxNumberOfDataNodes
<1>3. /\ cs.dataNodes = s.nodes /\ cs.freeApi = s.free + 1 /\ cs.tde = s.tde
      /\ cs.slots = GetNumOfSectionsRequiredForMySQLServers(s)
      /\ NoOverride => cs.ndbd = NdbdDefault(s)
  BY DEF NewConfigSummary, Holds, IniHolds, GetSection
<1> HIDE DEF cs
<1>4. /\ ~(cs.dataNodes < t.nodes)
      /\ cs.slots = GetNumOfSectionsRequiredForMySQLServers(t)
      /\ ~(cs.tde # t.tde /\ (cs.tde = "" \/ t.tde = ""))
      /\ cs.freeApi = t.free + 1
  BY DEF MySQLClusterConfigNeedsUpdate, cs
<1>5. ~SectionChanged(t.ndbd, cs.ndbd, k)
  BY <1>3 DEF MySQLClusterConfigNeedsUpdate, cs
<1>6. k \in Nat /\ (s.tde # "" => k = 3) /\ (s.tde = "" => k = 2)
  OBVIOUS
<1> HIDE DEF k
<1>7. s.nodes = t.nodes
  <2>1. ~(s.nodes < t.nodes)
    BY <1>3, <1>4
  <2> QED  BY <1>2, <2>1
<1>8. s.tde = "" <=> t.tde = ""
  BY <1>3, <1>4
<1>9. NoOverride => NdbdDefault(t) = NdbdDefault(s)
  BY <1>1, <1>3, <1>5, <1>6, <1>8, DefaultsUnchanged
<1> QED  BY <1>3, <1>4, <1>7, <1>9 DEF Holds, IniHolds

\* What GetMySQLConfigString returns has what its spec asks for.
LEMMA GeneratedCnfHolds ==
    ASSUME NEW s, NEW version
    PROVE  CnfHolds(GetMySQLConfigString(s, version), s)
BY DEF CnfHolds, GetMySQLConfigString, NoSection

\* A copy of my.cnf that has what two specs ask for shows that they ask for the same.
LEMMA CnfTells ==
    ASSUME NEW s, NEW t, NEW a, NEW b, CnfHolds(a, s), CnfHolds(a, t), CnfHolds(b, s)
    PROVE  CnfHolds(b, t)
<1>1. DOMAIN NoSection # {"header", "mysqld"}
  <2>1. DOMAIN NoSection = {} /\ "header" \in {"header", "mysqld"}
    BY DEF NoSection
  <2> QED  BY <2>1
<1>2. s.cnf = t.cnf
  <2>1. \A u, v : CnfHolds(a, u) /\ CnfHolds(a, v) /\ u.cnf = "" => v.cnf = ""
    <3> SUFFICES ASSUME NEW u, NEW v, CnfHolds(a, u), CnfHolds(a, v), u.cnf = "", v.cnf # ""
                 PROVE  FALSE
      OBVIOUS
    <3>1. a = NoSection
      BY DEF CnfHolds
    <3>2. DOMAIN a = {"header", "mysqld"}
      BY DEF CnfHolds
    <3> QED  BY <1>1, <3>1, <3>2
  <2>2. s.cnf # "" /\ t.cnf # "" => s.cnf = t.cnf
    BY DEF CnfHolds
  <2>3. s.cnf = "" <=> t.cnf = ""
    BY <2>1
  <2> QED  BY <2>2, <2>3
<1> QED  BY <1>2 DEF CnfHolds

\* my.cnf is left alone only when there is none and none is asked for.
LEMMA UnneededCnfHolds ==
    ASSUME NEW s, NEW t, NEW c, CnfHolds(c.cnf, s),
           ~MySQLCnfNeedsUpdate(NewConfigSummary(c), t)
    PROVE  CnfHolds(c.cnf, t)
<1>1. NewConfigSummary(c).cnf = c.cnf
  BY DEF NewConfigSummary
<1> DEFINE only == [name \in {"mysqld"} |-> t.cnf]
<1>2. IF t.cnf = "" THEN c.cnf = NoSection ELSE c.cnf = only
  <2> HIDE DEF only
  <2> QED  BY <1>1 DEF MySQLCnfNeedsUpdate, only
<1>3. DOMAIN only # {} /\ DOMAIN only # {"header", "mysqld"}
  <2>1. DOMAIN only = {"mysqld"}
    OBVIOUS
  <2>2. "mysqld" \in {"mysqld"} /\ "header" \notin {"mysqld"} /\ "header" \in {"header", "mysqld"}
    OBVIOUS
  <2> HIDE DEF only
  <2> QED  BY <2>1, <2>2
<1>4. DOMAIN NoSection = {}
  BY DEF NoSection
<1> HIDE DEF only
<1>5. t.cnf = ""
  BY <1>2, <1>3, <1>4 DEF CnfHolds
<1> QED  BY <1>2, <1>5 DEF CnfHolds

-----------------------------------------------------------------------------
(* Updates one after another *)

\* What a patch writes, key by key: a key that the cached copy already has as
\* it should be is left alone.
LEMMA PatchFacts ==
    ASSUME DOMAIN cm = Keys, DOMAIN cached = Keys, PatchConfigMap,
           NEW cs, cs = NewConfigSummary(read),
           NEW ini, ini = GetConfigString(spec, cs),
           NEW cnf, cnf = GetMySQLConfigString(spec, cs.cnfVersion)
    PROVE  /\ read.gen = gen => /\ cm'.gen = cm.gen /\ cm'.ini = cm.ini
                                /\ cm'.cnf = cm.cnf /\ cm'.tde = cm.tde
           /\ read.gen # gen =>
                 /\ cm'.gen = gen \/ (cached.gen = gen /\ cm'.gen = cm.gen)
                 /\ cm'.tde = spec.tde \/ (cached.tde = spec.tde /\ cm'.tde = cm.tde)
                 /\ IF MySQLClusterConfigNeedsUpdate(cs, spec)
                    THEN cm'.ini = ini \/ (cached.ini = ini /\ cm'.ini = cm.ini)
                    ELSE cm'.ini = cm.ini
                 /\ IF MySQLCnfNeedsUpdate(cs, spec)
                    THEN cm'.cnf = cnf \/ (cached.cnf = cnf /\ cm'.cnf = cm.cnf)
                    ELSE cm'.cnf = cm.cnf
<1> DEFINE new == GetUpdatedConfigMap(cached, cs)
<1>1. \A key \in Keys : cm'[key] = IF new[key] # cached[key] THEN new[key] ELSE cm[key]
  BY DEF PatchConfigMap, Patched
<1>2. cs.gen = read.gen
  BY DEF NewConfigSummary
<1>3. CASE read.gen = gen
  <2>1. new = [cached EXCEPT !.init = FALSE]
    BY <1>2, <1>3 DEF GetUpdatedConfigMap
  <2>2. new.gen = cached.gen /\ new.ini = cached.ini /\ new.cnf = cached.cnf /\ new.tde = cached.tde
    BY <2>1 DEF Keys
  <2> HIDE DEF new
  <2> QED  BY <1>1, <1>3, <2>2 DEF Keys
<1>4. CASE read.gen # gen
  <2>1. /\ new.gen = gen /\ new.tde = spec.tde
        /\ new.ini = IF MySQLClusterConfigNeedsUpdate(cs, spec) THEN ini ELSE cached.ini
        /\ new.cnf = IF MySQLCnfNeedsUpdate(cs, spec) THEN cnf ELSE cached.cnf
    BY <1>2, <1>4 DEF GetUpdatedConfigMap
  <2> HIDE DEF new
  <2> QED  BY <1>1, <1>4, <2>1 DEF Keys
<1> QED  BY <1>3, <1>4

\* New data nodes are marked in a config.ini generated while the others are in
\* their node groups.
LEMMA GeneratedMarked ==
    ASSUME NEW s \in SpecType, NEW cs, cs.dataNodes \in Nat \ {0},
           NEW n \in SectionsOf(GetConfigString(s, cs), "ndbmtd"), cs.dataNodes < s.nodes
    PROVE  n.new = (n.pod >= cs.dataNodes)
<1> DEFINE old == cs.dataNodes
           start == GetManagementNodeCount + old + 1
           node(i) == Node(DataNodeId(s, i), "ndbmtd", i, IsNewDataNode(start, DataNodeId(s, i)))
<1>1. DataNodeSections(s, old) = {node(i) : i \in 0..(s.nodes - 1)}
  BY DEF DataNodeSections
<1>2. PICK i \in 0..(s.nodes - 1) : n = node(i)
  BY <1>1, GeneratedSections
<1>3. n.pod = i /\ n.new = IsNewDataNode(start, DataNodeId(s, i))
  BY <1>2 DEF Node
<1>4. GetManagementNodeCount \in 1..2 /\ s.nodes \in Nat
  BY DEF GetManagementNodeCount, SpecType, MaxNumberOfDataNodes
<1>5. IsNewDataNode(start, DataNodeId(s, i)) <=> i >= old
  BY <1>4 DEF IsNewDataNode, DataNodeId
<1>6. IsNewDataNode(start, DataNodeId(s, i)) \in BOOLEAN /\ (i >= old) \in BOOLEAN
  <2>1. IsNewDataNode(start, DataNodeId(s, i)) \in BOOLEAN
    BY DEF IsNewDataNode
  <2> QED  BY <2>1
<1> HIDE DEF start
<1> QED  BY <1>3, <1>5, <1>6

Copies == {cm, cached, read}

\* The data nodes of a copy of the ConfigMap.
DataNodes(c) == Cardinality(SectionsOf(c.ini, "ndbmtd"))

\* The sync is one generation behind at most, and its copy is the oldest.
OneBehind ==
    /\ gen <= read.gen + 1
    /\ read.gen <= cm.gen
    /\ cached.gen = 0 \/ read.gen <= cached.gen
    /\ \A c \in Copies : c.gen = 0 <=> c = NoConfigMap

\* Copies of the same generation have the same config.ini.
SameConfig == \A c, d \in Copies : c.gen = d.gen => c.ini = d.ini

\* Every copy has what the spec of its generation asks for: the current one or
\* the one before, which had no more data nodes.
Contents ==
    \E old \in Admitted :
        /\ old.nodes <= spec.nodes
        /\ \A c \in Copies : /\ c.gen = gen => Holds(c, spec)
                             /\ c.gen # gen /\ c.gen # 0 => Holds(c, old)

\* Once adopted, config.ini is what a patch from the sync's copy makes of it.
Derived ==
    cm.gen = gen /\ read.gen # gen /\ read.gen # 0 =>
        cm.ini = IF MySQLClusterConfigNeedsUpdate(NewConfigSummary(read), spec)
                 THEN GetConfigString(spec, NewConfigSummary(read)) ELSE read.ini

\* All data nodes of the generation before are in their node groups.
Grouped == \A c \in Copies : c.gen # gen /\ c.gen # 0 => DataNodes(c) = inducted

ContentInv ==
    /\ TypeInv /\ spec \in Admitted
    /\ OneBehind /\ SameConfig /\ Contents /\ Derived /\ Grouped /\ NewNodesMarked

\* The generations of the copies, as numbers.
LEMMA Generations ==
    ASSUME ContentInv
    PROVE  /\ gen \in Nat /\ gen >= 1 /\ cm.gen \in 0..gen /\ cached.gen \in 0..gen
           /\ read.gen \in 0..gen /\ cached.gen <= cm.gen
           /\ gen <= read.gen + 1 /\ read.gen <= cm.gen
           /\ cached.gen = 0 \/ read.gen <= cached.gen
           /\ spec \in SpecType /\ spec.nodes \in Nat /\ spec.nodes >= 1 /\ inducted \in Nat
BY ConfigAssumption DEF ContentInv, OneBehind, TypeInv, TypeOK, SpecType, MaxNumberOfDataNodes

\* ContentInv holds initially.
LEMMA ContentInit ==
    ASSUME Init
    PROVE  ContentInv
<1>1. TypeInv /\ spec \in Admitted
  BY TypeInit DEF Init, Admitted
<1>2. gen = 1 /\ cm = NoConfigMap /\ cached = NoConfigMap /\ read = NoConfigMap
  BY DEF Init
<1>3. NoConfigMap.gen = 0 /\ NoConfigMap.ini.nodes = {}
  BY DEF NoConfigMap
<1>4. OneBehind /\ SameConfig /\ Derived /\ Grouped
  BY <1>2, <1>3 DEF OneBehind, SameConfig, Derived, Grouped, Copies
<1>5. NewNodesMarked
  BY <1>2, <1>3 DEF NewNodesMarked, SectionsOf
<1>6. spec.nodes <= spec.nodes
  BY <1>1 DEF TypeInv, TypeOK, SpecType, MaxNumberOfDataNodes
<1>7. \A c \in Copies : c.gen # gen /\ c.gen = 0
  BY <1>2, <1>3 DEF Copies
<1>8. Contents
  BY <1>1, <1>6, <1>7 DEF Contents
<1> QED  BY <1>1, <1>4, <1>5, <1>8 DEF ContentInv

\* Copies that agree on config.ini and the TDE secret have the same outcome.
LEMMA SameOutcome ==
    ASSUME NEW c, NEW d, NEW s, c.ini = d.ini, c.tde = d.tde
    PROVE  /\ MySQLClusterConfigNeedsUpdate(NewConfigSummary(c), s)
                 <=> MySQLClusterConfigNeedsUpdate(NewConfigSummary(d), s)
           /\ GetConfigString(s, NewConfigSummary(c)) = GetConfigString(s, NewConfigSummary(d))
<1> DEFINE a == NewConfigSummary(c)
           b == NewConfigSummary(d)
<1>1. /\ a.version = b.version /\ a.dataNodes = b.dataNodes /\ a.slots = b.slots
      /\ a.freeApi = b.freeApi /\ a.ndbd = b.ndbd /\ a.mgmd = b.mgmd /\ a.tde = b.tde
  BY DEF NewConfigSummary
<1> HIDE DEF a, b
<1>2. MySQLClusterConfigNeedsUpdate(a, s) <=> MySQLClusterConfigNeedsUpdate(b, s)
  BY <1>1 DEF MySQLClusterConfigNeedsUpdate
<1>3. GetConfigString(s, a) = GetConfigString(s, b)
  BY <1>1 DEF GetConfigString
<1> QED  BY <1>2, <1>3 DEF a, b

\* A copy that is handed on, from the API server to the cache or from there to
\* the sync, keeps ContentInv.
LEMMA ContentDeliver ==
    ASSUME ContentInv, DeliverConfigMap
    PROVE  ContentInv'
<1>1. cached' = cm /\ UNCHANGED <<gen, spec, cm, read, inducted>>
  BY DEF DeliverConfigMap
<1>2. TypeInv'
  BY TypeStep DEF ContentInv, Next
<1>3. Copies' \subseteq Copies
  BY <1>1 DEF Copies
<1>4. OneBehind'
  BY <1>1, <1>3 DEF ContentInv, OneBehind
<1>5. SameConfig' /\ Derived' /\ Grouped' /\ Contents'
  BY <1>1, <1>3 DEF ContentInv, SameConfig, Derived, Grouped, Contents, DataNodes
<1>6. NewNodesMarked' /\ spec' \in Admitted
  BY <1>1 DEF ContentInv, NewNodesMarked
<1> QED  BY <1>2, <1>4, <1>5, <1>6 DEF ContentInv

\* A sync takes a copy of the cached ConfigMap.
LEMMA ContentSync ==
    ASSUME ContentInv, StartSync
    PROVE  ContentInv'
<1>1. cached # NoConfigMap /\ read' = cached /\ UNCHANGED <<gen, spec, cm, cached, inducted>>
  BY DEF StartSync
<1>2. TypeInv'
  BY TypeStep DEF ContentInv, Next
<1>3. Copies' \subseteq Copies
  BY <1>1 DEF Copies
<1>4. OneBehind'
  <2>1. cached.gen # 0
    BY <1>1 DEF ContentInv, OneBehind, Copies
  <2>2. gen <= cached.gen + 1
    BY <2>1, Generations
  <2>3. cached.gen <= cm.gen /\ cached.gen <= cached.gen
    BY Generations
  <2> QED  BY <1>1, <1>3, <2>2, <2>3 DEF ContentInv, OneBehind
<1>5. SameConfig' /\ Grouped' /\ Contents'
  BY <1>1, <1>3 DEF ContentInv, SameConfig, Grouped, Contents, DataNodes
<1>6. Derived'
  <2> SUFFICES ASSUME cm.gen = gen, cached.gen # gen, cached.gen # 0
               PROVE  cm.ini = IF MySQLClusterConfigNeedsUpdate(NewConfigSummary(cached), spec)
                               THEN GetConfigString(spec, NewConfigSummary(cached)) ELSE cached.ini
    BY <1>1 DEF Derived
  <2>1. read.gen = cached.gen
    BY Generations
  <2>2. read.ini = cached.ini
    BY <2>1 DEF ContentInv, SameConfig, Copies
  <2>3. read.tde = cached.tde
    BY <2>1 DEF ContentInv, Contents, Copies, Holds
  <2>4. cm.ini = IF MySQLClusterConfigNeedsUpdate(NewConfigSummary(read), spec)
                 THEN GetConfigString(spec, NewConfigSummary(read)) ELSE read.ini
    BY <2>1 DEF ContentInv, Derived
  <2> QED  BY <2>2, <2>3, <2>4, SameOutcome
<1>7. NewNodesMarked' /\ spec' \in Admitted
  BY <1>1 DEF ContentInv, NewNodesMarked
<1> QED  BY <1>2, <1>4, <1>5, <1>6, <1>7 DEF ContentInv

\* The first ConfigMap has what the first spec asks for, and its data nodes
\* form node groups when they start.
LEMMA ContentCreate ==
    ASSUME ContentInv, CreateConfigMap
    PROVE  ContentInv'
<1> DEFINE cs == NewConfigSummary(NoConfigMap)
<1>1. /\ cached = NoConfigMap /\ cm = NoConfigMap /\ read' = cm' /\ inducted' = spec.nodes
      /\ UNCHANGED <<gen, spec, cached>>
  BY DEF CreateConfigMap
<1>2. /\ cm'.gen = gen /\ cm'.ini = GetConfigString(spec, cs) /\ cm'.tde = spec.tde
      /\ cm'.cnf = GetMySQLConfigString(spec, 0)
  BY DEF CreateConfigMap, CreatedConfigMap
<1>3. TypeInv'
  BY TypeStep DEF ContentInv, Next
<1>4. NoConfigMap.gen = 0
  BY DEF NoConfigMap
<1>5. gen \in Nat /\ gen # 0 /\ spec \in SpecType /\ spec.nodes \in Nat
  BY Generations
<1>6. Copies' = {cm', NoConfigMap}
  BY <1>1 DEF Copies
<1>7. OneBehind'
  BY <1>1, <1>2, <1>4, <1>5, <1>6 DEF OneBehind
<1>8. SameConfig' /\ Derived' /\ Grouped'
  BY <1>1, <1>2, <1>4, <1>5, <1>6 DEF SameConfig, Derived, Grouped
<1>9. Holds(cm', spec)
  BY <1>2, <1>5, GeneratedHolds, GeneratedCnfHolds DEF Holds
<1>10. Contents'
  <2>1. spec' \in Admitted /\ spec'.nodes <= spec'.nodes
    BY <1>1, <1>5 DEF ContentInv
  <2>2. \A c \in Copies' : /\ c.gen = gen' => Holds(c, spec')
                           /\ c.gen # gen' /\ c.gen # 0 => Holds(c, spec')
    BY <1>1, <1>2, <1>4, <1>5, <1>6, <1>9
  <2> QED  BY <2>1, <2>2 DEF Contents
<1>11. NewNodesMarked'
  <2>1. DataNodes(cm') = spec.nodes
    BY <1>9 DEF Holds, IniHolds, DataNodes
  <2>2. ~(inducted' < DataNodes(cm'))
    BY <1>1, <1>5, <2>1
  <2> QED  BY <2>2 DEF NewNodesMarked, DataNodes
<1> QED  BY <1>1, <1>3, <1>7, <1>8, <1>10, <1>11 DEF ContentInv

\* New node groups are made for all data nodes of the current config.ini.
LEMMA ContentGroups ==
    ASSUME ContentInv, CreateNodeGroups
    PROVE  ContentInv'
<1>1. /\ read.gen = gen /\ inducted' = NewConfigSummary(read).dataNodes
      /\ UNCHANGED <<gen, spec, cm, cached, read>>
  BY DEF CreateNodeGroups
<1>2. TypeInv'
  BY TypeStep DEF ContentInv, Next
<1>3. cm.gen = gen /\ (cached.gen = gen \/ cached.gen = 0)
  BY <1>1, Generations
<1>4. inducted' = spec.nodes
  <2>1. Holds(read, spec)
    BY <1>1 DEF ContentInv, Contents, Copies
  <2> QED  BY <1>1, <2>1 DEF NewConfigSummary, Holds, IniHolds
<1>5. DataNodes(cm) = spec.nodes
  <2>1. Holds(cm, spec)
    BY <1>3 DEF ContentInv, Contents, Copies
  <2> QED  BY <2>1 DEF Holds, IniHolds, DataNodes
<1>6. NewNodesMarked'
  <2>1. ~(inducted' < DataNodes(cm'))
    BY <1>1, <1>4, <1>5, Generations
  <2> QED  BY <2>1 DEF NewNodesMarked, DataNodes
<1>7. Grouped'
  BY <1>1, <1>3 DEF Grouped, Copies
<1>8. OneBehind' /\ SameConfig' /\ Derived' /\ Contents' /\ spec' \in Admitted
  BY <1>1 DEF ContentInv, OneBehind, SameConfig, Derived, Contents, Copies
<1> QED  BY <1>2, <1>6, <1>7, <1>8 DEF ContentInv

\* An update comes when the last one has been adopted everywhere.
LEMMA ContentUpdate ==
    ASSUME ContentInv, UpdateSpec, ~MayOverlap
    PROVE  ContentInv'
<1>1. PICK s \in Specs : IsValidSpecUpdate(spec, mutate(s)) /\ spec' = mutate(s)
  BY DEF UpdateSpec
<1>2. /\ read.gen = gen /\ inducted = spec.nodes /\ gen' = gen + 1
      /\ UNCHANGED <<cm, cached, read, inducted>>
  BY DEF UpdateSpec, Processed
<1>3. TypeInv'
  BY TypeStep DEF ContentInv, Next
<1>4. spec' \in Admitted /\ spec.nodes <= spec'.nodes
  BY <1>1 DEF IsValidSpecUpdate, Admitted
<1>5. Copies' = Copies
  BY <1>2 DEF Copies
<1>6. \A c \in Copies : c.gen = gen \/ c.gen = 0
  BY <1>2, Generations DEF Copies
<1>7. gen \in Nat /\ gen' # gen /\ gen' # 0
  BY <1>2, Generations
<1>8. \A c \in Copies : c.gen = gen => Holds(c, spec)
  BY DEF ContentInv, Contents
<1>9. Contents'
  <2>1. spec \in Admitted /\ \A c \in Copies' : /\ c.gen = gen' => Holds(c, spec')
                                                /\ c.gen # gen' /\ c.gen # 0 => Holds(c, spec)
    BY <1>5, <1>6, <1>7, <1>8 DEF ContentInv
  <2> QED  BY <1>4, <2>1 DEF Contents
<1>10. Grouped'
  <2>1. \A c \in Copies : c.gen = gen => DataNodes(c) = inducted
    BY <1>2, <1>8 DEF Holds, IniHolds, DataNodes
  <2> QED  BY <1>2, <1>5, <1>6, <2>1 DEF Grouped, DataNodes
<1>11. OneBehind'
  <2>1. gen' <= read.gen + 1
    BY <1>2, Generations
  <2> QED  BY <1>2, <1>5, <2>1 DEF ContentInv, OneBehind
<1>12. SameConfig' /\ NewNodesMarked'
  BY <1>2, <1>5 DEF ContentInv, SameConfig, NewNodesMarked
<1>13. Derived'
  BY <1>2, <1>6, <1>7 DEF Derived, Copies
<1> QED  BY <1>3, <1>4, <1>9, <1>10, <1>11, <1>12, <1>13 DEF ContentInv

\* A patch of the sync's own generation leaves all but the restart request alone.
LEMMA ContentWithdraw ==
    ASSUME ContentInv, PatchConfigMap, read.gen = gen
    PROVE  ContentInv'
<1>1. /\ cm'.gen = cm.gen /\ cm'.ini = cm.ini /\ cm'.cnf = cm.cnf /\ cm'.tde = cm.tde
  BY PatchFacts DEF ContentInv, TypeInv
<1>2. UNCHANGED <<gen, spec, cached, read, inducted>>
  BY DEF PatchConfigMap
<1>3. TypeInv'
  BY TypeStep DEF ContentInv, Next
<1>4. cm.gen # 0
  BY Generations
<1>5. Copies' = {cm', cached, read}
  BY <1>2 DEF Copies
<1>6. OneBehind'
  <2>1. \A c \in Copies' : c.gen = 0 <=> c = NoConfigMap
    <3>1. NoConfigMap.gen = 0
      BY DEF NoConfigMap
    <3> QED  BY <1>1, <1>4, <1>5, <3>1 DEF ContentInv, OneBehind, Copies
  <2> QED  BY <1>1, <1>2, <2>1 DEF ContentInv, OneBehind
<1>7. SameConfig' /\ Derived' /\ Grouped' /\ NewNodesMarked'
  BY <1>1, <1>2, <1>5 DEF ContentInv, SameConfig, Derived, Grouped, NewNodesMarked, Copies, DataNodes
<1>8. Contents'
  <2>1. PICK old \in Admitted :
           /\ old.nodes <= spec.nodes
           /\ \A c \in Copies : /\ c.gen = gen => Holds(c, spec)
                                /\ c.gen # gen /\ c.gen # 0 => Holds(c, old)
    BY DEF ContentInv, Contents
  <2>2. \A s : Holds(cm, s) => Holds(cm', s)
    BY <1>1 DEF Holds
  <2>3. \A c \in Copies' : /\ c.gen = gen' => Holds(c, spec')
                           /\ c.gen # gen' /\ c.gen # 0 => Holds(c, old)
    BY <1>1, <1>2, <1>5, <2>1, <2>2 DEF Copies
  <2> QED  BY <1>2, <2>1, <2>3 DEF Contents
<1> QED  BY <1>2, <1>3, <1>6, <1>7, <1>8 DEF ContentInv

\* What the patch that first adopts a generation starts from: all copies are
\* of the generation before.
LEMMA BeforeAdoption ==
    ASSUME ContentInv, PatchConfigMap, read.gen # gen, cm.gen # gen
    PROVE  /\ cached.gen = read.gen /\ cm.gen = read.gen /\ read.gen # 0
           /\ cm.ini = read.ini /\ cached.ini = read.ini
           /\ DataNodes(read) = inducted
<1>1. read.gen # 0 /\ cached.gen # 0
  BY DEF PatchConfigMap, ContentInv, OneBehind, Copies
<1>2. cached.gen = read.gen /\ cm.gen = read.gen
  BY <1>1, Generations
<1> QED  BY <1>1, <1>2 DEF ContentInv, SameConfig, Grouped, Copies

\* The config.ini of a generation is regenerated or is the last one.
LEMMA AdoptedConfig ==
    ASSUME ContentInv, PatchConfigMap, read.gen # gen
    PROVE  /\ cm'.gen = gen
           /\ cm.gen = gen => cm'.ini = cm.ini
           /\ cm'.ini = IF MySQLClusterConfigNeedsUpdate(NewConfigSummary(read), spec)
                        THEN GetConfigString(spec, NewConfigSummary(read)) ELSE read.ini
<1> DEFINE need == MySQLClusterConfigNeedsUpdate(NewConfigSummary(read), spec)
           ini == GetConfigString(spec, NewConfigSummary(read))
<1>1. /\ cm'.gen = gen \/ (cached.gen = gen /\ cm'.gen = cm.gen)
      /\ need => cm'.ini = ini \/ (cached.ini = ini /\ cm'.ini = cm.ini)
      /\ ~need => cm'.ini = cm.ini
  BY PatchFacts DEF ContentInv, TypeInv
<1>2. read.gen # 0
  BY DEF PatchConfigMap, ContentInv, OneBehind, Copies
<1>3. cm.gen = gen => cm.ini = IF need THEN ini ELSE read.ini
  BY <1>2 DEF ContentInv, Derived
<1>4. cm.gen # gen => cm.ini = read.ini /\ cached.ini = cm.ini
  BY BeforeAdoption
<1>5. cm'.gen = gen
  BY <1>1, Generations
<1> HIDE DEF need, ini
<1>6. CASE need
  BY <1>1, <1>3, <1>4, <1>5, <1>6 DEF need, ini
<1>7. CASE ~need
  BY <1>1, <1>3, <1>4, <1>5, <1>7 DEF need, ini
<1> QED  BY <1>6, <1>7

\* The ConfigMap of a generation has what its spec asks for.
LEMMA AdoptedHolds ==
    ASSUME ContentInv, PatchConfigMap, read.gen # gen,
           NEW old \in Admitted, old.nodes <= spec.nodes,
           \A c \in Copies : /\ c.gen = gen => Holds(c, spec)
                             /\ c.gen # gen /\ c.gen # 0 => Holds(c, old)
    PROVE  Holds(cm', spec)
<1> DEFINE cs == NewConfigSummary(read)
           cnf == GetMySQLConfigString(spec, cs.cnfVersion)
<1>1. /\ cm'.tde = spec.tde \/ (cached.tde = spec.tde /\ cm'.tde = cm.tde)
      /\ MySQLCnfNeedsUpdate(cs, spec) =>
            cm'.cnf = cnf \/ (cached.cnf = cnf /\ cm'.cnf = cm.cnf)
      /\ ~MySQLCnfNeedsUpdate(cs, spec) => cm'.cnf = cm.cnf
  BY PatchFacts DEF ContentInv, TypeInv
<1>2. read.gen # 0 /\ spec \in Admitted /\ spec \in SpecType
  BY AdmittedSpec DEF PatchConfigMap, ContentInv, OneBehind, Copies
<1>3. Holds(read, old)
  BY <1>2 DEF Copies
<1>4. IniHolds(cm'.ini, spec)
  <2>1. CASE MySQLClusterConfigNeedsUpdate(cs, spec)
    BY <1>2, <2>1, AdoptedConfig, GeneratedHolds
  <2>2. CASE ~MySQLClusterConfigNeedsUpdate(cs, spec)
    BY <1>2, <1>3, <2>2, AdoptedConfig, UnneededHolds
  <2> QED  BY <2>1, <2>2
<1>5. CnfHolds(cnf, spec)
  BY GeneratedCnfHolds
<1>6. ~MySQLCnfNeedsUpdate(cs, spec) => CnfHolds(read.cnf, spec)
  BY <1>3, UnneededCnfHolds DEF Holds
<1> HIDE DEF cs, cnf
<1>7. CASE cm.gen = gen
  <2>1. Holds(cm, spec)
    BY <1>7 DEF Copies
  <2> QED  BY <1>1, <1>4, <1>5, <2>1 DEF Holds
<1>8. CASE cm.gen # gen
  <2>1. Holds(cm, old) /\ Holds(cached, old)
    BY <1>2, <1>8, BeforeAdoption DEF Copies
  <2>2. cm'.tde = spec.tde
    BY <1>1, <2>1 DEF Holds
  <2>3. CnfHolds(cm.cnf, old) /\ CnfHolds(cached.cnf, old) /\ CnfHolds(read.cnf, old)
    BY <1>3, <2>1 DEF Holds
  <2>4. CASE MySQLCnfNeedsUpdate(cs, spec)
    <3>1. CASE cm'.cnf = cnf
      BY <1>4, <1>5, <2>2, <3>1 DEF Holds
    <3>2. CASE cached.cnf = cnf /\ cm'.cnf = cm.cnf
      <4>1. CnfHolds(cm.cnf, spec)
        BY <1>5, <2>3, <3>2, CnfTells
      <4> QED  BY <1>4, <2>2, <3>2, <4>1 DEF Holds
    <3> QED  BY <1>1, <2>4, <3>1, <3>2
  <2>5. CASE ~MySQLCnfNeedsUpdate(cs, spec)
    <3>1. CnfHolds(cm.cnf, spec)
      BY <1>6, <2>3, <2>5, CnfTells
    <3> QED  BY <1>1, <1>4, <2>2, <2>5, <3>1 DEF Holds
  <2> QED  BY <2>4, <2>5
<1> QED  BY <1>7, <1>8

\* A patch that adopts a generation, or adopts it once more from a stale copy.
LEMMA ContentAdopt ==
    ASSUME ContentInv, PatchConfigMap, read.gen # gen
    PROVE  ContentInv'
<1> DEFINE need == MySQLClusterConfigNeedsUpdate(NewConfigSummary(read), spec)
<1>1. UNCHANGED <<gen, spec, cached, read, inducted>>
  BY DEF PatchConfigMap
<1>2. TypeInv'
  BY TypeStep DEF ContentInv, Next
<1>3. /\ cm'.gen = gen
      /\ cm.gen = gen => cm'.ini = cm.ini
      /\ cm'.ini = IF need THEN GetConfigString(spec, NewConfigSummary(read)) ELSE read.ini
  BY AdoptedConfig
<1>4. gen \in Nat /\ gen # 0 /\ read.gen # 0 /\ gen >= read.gen
  BY Generations DEF PatchConfigMap, ContentInv, OneBehind, Copies
<1>5. Copies' = {cm', cached, read}
  BY <1>1 DEF Copies
<1>6. OneBehind'
  <2>1. NoConfigMap.gen = 0
    BY DEF NoConfigMap
  <2>2. \A c \in Copies' : c.gen = 0 <=> c = NoConfigMap
    BY <1>3, <1>4, <1>5, <2>1 DEF ContentInv, OneBehind, Copies
  <2>3. read'.gen <= cm'.gen
    BY <1>1, <1>3, <1>4, Generations
  <2> QED  BY <1>1, <2>2, <2>3 DEF ContentInv, OneBehind
<1>7. SameConfig'
  <2>1. cached.gen = gen => cm.gen = gen
    BY Generations
  <2>2. cached.gen = gen => cached.ini = cm'.ini
    BY <1>3, <2>1 DEF ContentInv, SameConfig, Copies
  <2>3. cached.gen = read.gen => cached.ini = read.ini
    BY DEF ContentInv, SameConfig, Copies
  <2> QED  BY <1>1, <1>3, <1>5, <2>2, <2>3 DEF SameConfig
<1>8. Derived'
  BY <1>1, <1>3 DEF Derived
<1>9. Grouped'
  BY <1>1, <1>3, <1>5 DEF ContentInv, Grouped, Copies, DataNodes
<1>10. Contents'
  <2>1. PICK old \in Admitted :
           /\ old.nodes <= spec.nodes
           /\ \A c \in Copies : /\ c.gen = gen => Holds(c, spec)
                                /\ c.gen # gen /\ c.gen # 0 => Holds(c, old)
    BY DEF ContentInv, Contents
  <2>2. Holds(cm', spec)
    BY <2>1, AdoptedHolds
  <2>3. \A c \in Copies' : /\ c.gen = gen' => Holds(c, spec')
                           /\ c.gen # gen' /\ c.gen # 0 => Holds(c, old)
    BY <1>1, <1>3, <1>5, <2>1, <2>2 DEF Copies
  <2> QED  BY <1>1, <2>1, <2>3 DEF Contents
<1>11. NewNodesMarked'
  <2>1. CASE cm.gen = gen
    BY <1>1, <1>3, <2>1 DEF ContentInv, NewNodesMarked
  <2>2. CASE cm.gen # gen /\ ~need
    <3>1. cm'.ini = read.ini /\ DataNodes(read) = inducted
      BY <1>3, <2>2, BeforeAdoption
    <3>2. ~(inducted' < DataNodes(cm'))
      BY <1>1, <3>1, Generations DEF DataNodes
    <3> QED  BY <3>2 DEF NewNodesMarked, DataNodes
  <2>3. CASE cm.gen # gen /\ need
    <3> DEFINE cs == NewConfigSummary(read)
    <3>1. cs.dataNodes = inducted /\ cm'.ini = GetConfigString(spec, cs)
      BY <1>3, <2>3, BeforeAdoption DEF DataNodes, NewConfigSummary
    <3>2. spec \in SpecType /\ inducted \in Nat
      BY Generations
    <3>3. Cardinality(SectionsOf(GetConfigString(spec, cs), "ndbmtd")) = spec.nodes
      BY <3>2, GeneratedHolds DEF IniHolds
    <3>4. inducted # 0
      <4>1. PICK old \in Admitted : Holds(read, old)
        BY <1>4 DEF ContentInv, Contents, Copies
      <4>2. DataNodes(read) = old.nodes /\ old \in SpecType
        BY <4>1, AdmittedSpec DEF Holds, IniHolds, DataNodes
      <4>4. old.nodes # 0
        BY <4>2 DEF SpecType, MaxNumberOfDataNodes
      <4>3. DataNodes(read) = inducted
        BY <2>3, BeforeAdoption
      <4> QED  BY <4>2, <4>3, <4>4
    <3> HIDE DEF cs
    <3>5. ASSUME NEW n \in SectionsOf(GetConfigString(spec, cs), "ndbmtd"), inducted < spec.nodes
          PROVE  n.new = (n.pod >= inducted)
      BY <3>1, <3>2, <3>4, <3>5, GeneratedMarked
    <3> QED  BY <1>1, <3>1, <3>3, <3>5 DEF NewNodesMarked
  <2> QED  BY <2>1, <2>2, <2>3
<1> QED  BY <1>1, <1>2, <1>6, <1>7, <1>8, <1>9, <1>10, <1>11 DEF ContentInv

\* Every step keeps ContentInv when updates come one after another.
LEMMA ContentStep ==
    ASSUME ContentInv, [Next]_vars, ~MayOverlap
    PROVE  ContentInv'
<1>1. CASE CreateConfigMap
  BY <1>1, ContentCreate
<1>2. CASE DeliverConfigMap
  BY <1>2, ContentDeliver
<1>3. CASE StartSync
  BY <1>3, ContentSync
<1>4. CASE PatchConfigMap
  BY <1>4, ContentWithdraw, ContentAdopt
<1>5. CASE CreateNodeGroups
  BY <1>5, ContentGroups
<1>6. CASE UpdateSpec
  BY <1>6, ContentUpdate
<1>7. CASE UNCHANGED vars
  <2>1. TypeInv'
    BY TypeStep DEF ContentInv
  <2>2. UNCHANGED <<gen, spec, cm, cached, read, inducted>>
    BY <1>7 DEF vars
  <2> QED  BY <2>1, <2>2 DEF ContentInv, OneBehind, SameConfig, Contents, Derived, Grouped,
                            NewNodesMarked, Copies, DataNodes
<1> QED  BY <1>1, <1>2, <1>3, <1>4, <1>5, <1>6, <1>7 DEF Next

\* The slots that the connections of MySQL Server i claim are among those of
\* max servers, and the generator gives them to that server.
LEMMA SlotOfServer ==
    ASSUME NEW max \in Nat, NEW pool \in Nat \ {0}, NEW i \in 0..(max - 1), NEW k \in 0..(pool - 1)
    PROVE  /\ pool * i + k \in 0..(max * pool - 1)
           /\ (pool * i + k) \div pool = i
<1>1. pool * i \in Nat
  <2>1. \A a, b \in Nat : a * b \in Nat
    OBVIOUS
  <2> QED  BY <2>1
<1>2. (pool * i + k) \div pool = i
  OBVIOUS
<1>3. pool * i + pool <= max * pool
  <2>1. pool * i + pool = pool * (i + 1)
    OBVIOUS
  <2>2. \A a, b, c \in Nat : a <= b => c * a <= b * c
    OBVIOUS
  <2>3. i + 1 \in Nat /\ i + 1 <= max
    OBVIOUS
  <2> QED  BY <2>1, <2>2, <2>3
<1>4. max * pool \in Nat
  <2>1. \A a, b \in Nat : a * b \in Nat
    OBVIOUS
  <2> QED  BY <2>1
<1>5. \A a, b \in Nat : a + pool <= b => a + k \in 0..(b - 1)
  OBVIOUS
<1> QED  BY <1>1, <1>2, <1>3, <1>4, <1>5

\* The pod initializer finds the ids it computes in any config.ini that has
\* what the spec asks for.
LEMMA IdsFound ==
    ASSUME ContentInv, Adopted
    PROVE  PodsHaveNodeIds
<1> SUFFICES ASSUME NEW p \in Pods, NEW id \in NodeIdPool(p[1], p[2])
             PROVE  \E n \in cm.ini.nodes : n.id = id /\ n.type = p[1]
                                            /\ (p[1] # "mysqld" => n.pod = p[2])
  BY DEF PodsHaveNodeIds
<1>1. IniHolds(cm.ini, spec)
  BY DEF ContentInv, Contents, Copies, Adopted, Holds
<1>2. GetManagementNodeCount \in 1..2 /\ spec.nodes \in Nat /\ spec \in SpecType
  BY Generations DEF GetManagementNodeCount
<1>3. CASE p \in {"mgmd"} \X (0..(GetManagementNodeCount - 1))
  <2>1. PICK i \in 0..(GetManagementNodeCount - 1) : p = <<"mgmd", i>>
    BY <1>3
  <2>2. id = 1 + i
    BY <2>1 DEF NodeIdPool
  <2> DEFINE n == Node(i + 1, "mgmd", i, FALSE)
  <2>3. n \in SectionsOf(cm.ini, "mgmd")
    BY <1>1, <2>1 DEF IniHolds, MgmdSections
  <2>4. n.id = id /\ n.type = p[1] /\ n.pod = p[2]
    BY <1>2, <2>1, <2>2 DEF Node
  <2> HIDE DEF n
  <2> QED  BY <2>3, <2>4 DEF SectionsOf
<1>4. CASE p \in {"ndbmtd"} \X (0..(spec.nodes - 1))
  <2>1. PICK i \in 0..(spec.nodes - 1) : p = <<"ndbmtd", i>>
    BY <1>4
  <2>2. id = GetManagementNodeCount + 1 + i
    BY <2>1 DEF NodeIdPool
  <2>3. PICK n \in SectionsOf(cm.ini, "ndbmtd") : n.pod = i /\ n.id = GetManagementNodeCount + 1 + i
    BY <1>1, <2>1 DEF IniHolds
  <2> QED  BY <2>1, <2>2, <2>3 DEF SectionsOf
<1>5. CASE p \in {"mysqld"} \X (0..(spec.servers - 1))
  <2>1. PICK i \in 0..(spec.servers - 1) : p = <<"mysqld", i>>
    BY <1>5
  <2>2. id \in {NdbNodeTypeAPIStartNodeId + spec.pool * i + k : k \in 0..(spec.pool - 1)}
    BY <2>1 DEF NodeIdPool
  <2>3. PICK k \in 0..(spec.pool - 1) : id = NdbNodeTypeAPIStartNodeId + spec.pool * i + k
    BY <2>2
  <2>4. spec.pool \in Nat \ {0} /\ spec.max \in Nat /\ spec.servers \in 1..spec.max
    BY DEF ContentInv, TypeInv, TypeOK, SpecType
  <2>5. i \in 0..(spec.max - 1)
    BY <2>1, <2>4
  <2> DEFINE j == spec.pool * i + k
  <2>6. j \in 0..(GetNumOfSectionsRequiredForMySQLServers(spec) - 1)
    BY <2>3, <2>4, <2>5, SlotOfServer DEF GetNumOfSectionsRequiredForMySQLServers
  <2>7. id = NdbNodeTypeAPIStartNodeId + j
    <3>1. spec.pool * i \in Int /\ k \in Int
      BY <2>3, <2>4, <2>5
    <3>2. NdbNodeTypeAPIStartNodeId = 148
      BY DEF NdbNodeTypeAPIStartNodeId, NdbOperatorDedicatedAPINodeId
    <3>3. \A a, b \in Int : 148 + a + b = 148 + (a + b)
      OBVIOUS
    <3> QED  BY <2>3, <3>1, <3>2, <3>3
  <2> HIDE DEF j
  <2>8. PICK n \in SectionsOf(cm.ini, "mysqld") : n.id = NdbNodeTypeAPIStartNodeId + j
    BY <1>1, <2>6 DEF IniHolds
  <2> QED  BY <2>1, <2>7, <2>8 DEF SectionsOf
<1> QED  BY <1>3, <1>4, <1>5 DEF Pods

\* A data node that is in no node group yet is marked as new in config.ini, and
\* one that is in a group is not, however stale the copies are from which
\* config.ini is patched, as long as no update overtakes the previous one.
THEOREM NewDataNodesMarked ==
    ASSUME ~MayOverlap
    PROVE  Spec => []NewNodesMarked
<1>1. Init => ContentInv
  BY ContentInit
<1>2. ContentInv /\ [Next]_vars => ContentInv'
  BY ContentStep
<1>3. ContentInv => NewNodesMarked
  BY DEF ContentInv
<1> QED  BY <1>1, <1>2, <1>3, PTL DEF Spec

\* The ConfigMap of a generation has what its spec asks for, although config.ini
\* is regenerated only when counts and the user's own parameters differ; unless
\* the user sets the parameter that the operator sets for TDE.
THEOREM SpecApplied ==
    ASSUME ~MayOverlap, NoOverride
    PROVE  Spec => []ConfigApplied
<1>1. Init => ContentInv
  BY ContentInit
<1>2. ContentInv /\ [Next]_vars => ContentInv'
  BY ContentStep
<1>3. ContentInv => ConfigApplied
  BY DEF ContentInv, Contents, Copies, Holds, IniHolds, CnfHolds, ConfigApplied, Adopted
<1> QED  BY <1>1, <1>2, <1>3, PTL DEF Spec

\* Every pod of an adopted generation finds the ids that its initializer
\* computes in config.ini, for nodes of its type, the management and data nodes
\* at their own host: for all the specs that the webhook admits.
THEOREM PodIdsFound ==
    ASSUME ~MayOverlap
    PROVE  Spec => []PodsHaveNodeIds
<1>1. Init => ContentInv
  BY ContentInit
<1>2. ContentInv /\ [Next]_vars => ContentInv'
  BY ContentStep
<1>3. ContentInv => PodsHaveNodeIds
  BY IdsFound DEF PodsHaveNodeIds
<1> QED  BY <1>1, <1>2, <1>3, PTL DEF Spec

\* A config.ini that differs from the last one has a higher version, and a
\* patch repeated from a stale copy changes nothing: so the version in the
\* pods' annotation tells whether they run the current config.ini.
THEOREM VersionTellsConfig ==
    ASSUME ~MayOverlap
    PROVE  Spec => VersionNamesConfig
<1>1. Init => ContentInv
  BY ContentInit
<1>2. ContentInv /\ [Next]_vars => ContentInv'
  BY ContentStep
<1>3. ASSUME ContentInv, [Next]_vars
      PROVE  [cm'.ini # cm.ini => cm'.ini.version > cm.ini.version]_vars
  <2>1. CASE CreateConfigMap
    <3> DEFINE cs == NewConfigSummary(NoConfigMap)
    <3>1. cs.version = 0 /\ cm.ini.version = 0
      BY <2>1 DEF CreateConfigMap, NewConfigSummary, NoConfigMap
    <3>2. cm'.ini = GetConfigString(spec, cs)
      BY <2>1 DEF CreateConfigMap, CreatedConfigMap
    <3> HIDE DEF cs
    <3> QED  BY <3>1, <3>2, GeneratedVersion
  <2>2. CASE PatchConfigMap
    <3>1. CASE read.gen = gen \/ cm.gen = gen
      <4>1. cm'.ini = cm.ini
        BY <1>3, <2>2, <3>1, PatchFacts, AdoptedConfig DEF ContentInv, TypeInv
      <4> QED  BY <4>1
    <3>2. CASE read.gen # gen /\ cm.gen # gen
      <4> DEFINE cs == NewConfigSummary(read)
      <4>1. cm.ini = read.ini
        BY <1>3, <2>2, <3>2, BeforeAdoption
      <4>2. cs.version = cm.ini.version /\ cm.ini.version \in Nat
        <5>1. cs.version = read.ini.version
          BY DEF NewConfigSummary
        <5>2. cm.ini.version \in 0..cm.gen /\ cm.gen \in 0..gen /\ gen \in Nat
          BY <1>3, Generations DEF ContentInv, TypeInv, TypeOK
        <5> HIDE DEF cs
        <5> QED  BY <4>1, <5>1, <5>2
      <4> HIDE DEF cs
      <4>3. cm'.ini = cm.ini \/ cm'.ini = GetConfigString(spec, cs)
        BY <1>3, <2>2, <3>2, <4>1, AdoptedConfig DEF cs
      <4>4. CASE cm'.ini = GetConfigString(spec, cs)
        <5>1. cm'.ini.version = cm.ini.version + 1
          BY <4>2, <4>4, GeneratedVersion
        <5> QED  BY <4>2, <5>1
      <4> QED  BY <4>3, <4>4
    <3> QED  BY <3>1, <3>2
  <2>3. CASE DeliverConfigMap \/ StartSync \/ CreateNodeGroups \/ UpdateSpec \/ UNCHANGED vars
    BY <2>3 DEF DeliverConfigMap, StartSync, CreateNodeGroups, UpdateSpec, vars
  <2> QED  BY <1>3, <2>1, <2>2, <2>3 DEF Next
<1> QED  BY <1>1, <1>2, <1>3, PTL DEF Spec, VersionNamesConfig
=============================================================================
