--------------------------- MODULE ClusterConfig ---------------------------
(***************************************************************************)
(* What the operator writes into the ConfigMap of a NdbCluster over a       *)
(* sequence of spec updates: config.ini and my.cnf with their versions, the *)
(* TDE secret and the initial restart request; and the node ids that the    *)
(* pod initializer later claims for each pod of that cluster.               *)
(*                                                                          *)
(* NdbReconciler says when the ConfigMap is patched; here a patch may come  *)
(* as soon as the spec is newer than what the sync has read of it.          *)
(***************************************************************************)
EXTENDS Integers, FiniteSets

CONSTANTS
    Specs,       \* the specs users ask for
    Configs,     \* the parameters, with their values, they set for a kind of nodes
    Redundancy,  \* redundancyLevel: immutable
    MaxGen,      \* bound: generations of the NdbCluster
    MayOverlap   \* TRUE iff a SyncError may let an update overtake the previous one

\* Parameters that the operator sets in the default ndbd section.
NoOfReplicas        == "noofreplicas"
ServerPort          == "serverport"
EncryptedFileSystem == "encryptedfilesystem"

NdbOperatorDedicatedAPINodeId == 147
NdbNodeTypeAPIStartNodeId     == NdbOperatorDedicatedAPINodeId + 1
MaxNumberOfNodes              == 256
MaxNumberOfDataNodes          == 144

disallowedConfigParams ==
    {NoOfReplicas, ServerPort, "nodeid", "hostname", "executeoncomputer", "nodegroup",
     "portnumber", "datadir"}

\* A spec.  servers, max, pool: MySQL Servers, the number they may grow to and
\* the connections of each (0: not given); free: API slots; ndbd, mgmd:
\* parameters of the default sections; tde: secret ("": none); cnf: my.cnf
\* ("": none).
SpecType ==
    [nodes : 1..MaxNumberOfDataNodes, servers : Nat, max : Nat, pool : 1..63, free : Nat,
     ndbd : Configs, mgmd : Configs, tde : STRING, cnf : STRING]

ASSUME ConfigAssumption ==
    /\ Specs \subseteq SpecType
    /\ \A c \in Configs : IsFiniteSet(DOMAIN c)
    /\ Redundancy \in 1..4
    /\ MaxGen \in Nat \ {0}
    /\ MayOverlap \in BOOLEAN

VARIABLES
    gen,       \* generation of the NdbCluster
    spec,      \* its spec
    cm,        \* data of the ConfigMap in the API server
    cached,    \* ... and in the informer's cache
    read,      \* ... and what the running sync has summarised
    inducted   \* data nodes that belong to a node group

vars == <<gen, spec, cm, cached, read, inducted>>

-----------------------------------------------------------------------------
(* Admission *)

\* Mutant: the webhook does not fill in the MySQL Servers.
NoDefaults(s) == s

\* At least one MySQL Server; two more may be added if nothing is said.
mutate(s) ==
    IF s.servers = 0
    THEN [s EXCEPT !.servers = 1, !.max = IF s.max = 0 THEN 1 ELSE @]
    ELSE [s EXCEPT !.max = IF @ = 0 THEN s.servers + 2 ELSE @]

GetManagementNodeCount == IF Redundancy = 1 THEN 1 ELSE 2

hasValidSpec(s) ==
    /\ s.nodes % Redundancy = 0
    /\ GetManagementNodeCount + s.nodes + s.max + s.free + 1 <= MaxNumberOfNodes
    /\ DOMAIN s.ndbd \cap disallowedConfigParams = {}
    /\ DOMAIN s.mgmd \cap disallowedConfigParams = {}
    /\ s.max >= s.servers

IsValidSpecUpdate(s, new) ==
    /\ Redundancy # 1
    /\ s.nodes <= new.nodes
    /\ s.pool <= new.pool
    /\ hasValidSpec(new)

-----------------------------------------------------------------------------
(* config.ini *)

NoSection == [p \in {} |-> ""]

\* The section of a parsed config file, by name.
GetSection(sections, name) == IF name \in DOMAIN sections THEN sections[name] ELSE NoSection

GetNumOfSectionsRequiredForMySQLServers(s) == s.max * s.pool

\* The [ndbd default] section: what the operator sets, then what the user does.
NdbdDefault(s) ==
    LET operator == {NoOfReplicas, ServerPort} \cup
                    (IF s.tde # "" THEN {EncryptedFileSystem} ELSE {})
    IN  [p \in operator \cup DOMAIN s.ndbd |->
            IF p \in DOMAIN s.ndbd THEN s.ndbd[p]
            ELSE CASE p = NoOfReplicas        -> "redundancyLevel"
                   [] p = ServerPort          -> "1186"
                   [] p = EncryptedFileSystem -> "1"]

\* The default sections of config.ini.
DefaultSections(s) ==
    [name \in {"ndbd default"} \cup (IF DOMAIN s.mgmd # {} THEN {"ndb_mgmd default"} ELSE {}) |->
        IF name = "ndbd default" THEN NdbdDefault(s) ELSE s.mgmd]

\* The section of a node: its id, its type, the ordinal of the pod its
\* hostname names (-1: any host) and whether it has NodeGroup=65536.
Node(id, type, pod, new) == [id |-> id, type |-> type, pod |-> pod, new |-> new]

MgmdSections == {Node(i + 1, "mgmd", i, FALSE) : i \in 0..(GetManagementNodeCount - 1)}

\* Mutant: data nodes are numbered backwards, so that new ones come first.
NumberedBackwards(s, i) == GetManagementNodeCount + s.nodes - i

DataNodeId(s, i) == GetManagementNodeCount + 1 + i

\* Mutant: the first of the new data nodes is not marked.
NewAfterTheFirst(start, id) == start # 0 /\ id > start

IsNewDataNode(start, id) == start # 0 /\ id >= start

\* old: number of data nodes in the last config, 0 if there is none.
DataNodeSections(s, old) ==
    LET start == IF old # 0 /\ old < s.nodes THEN GetManagementNodeCount + old + 1 ELSE 0
    IN  {Node(DataNodeId(s, i), "ndbmtd", i, IsNewDataNode(start, DataNodeId(s, i))) :
            i \in 0..(s.nodes - 1)}

\* A MySQL Server has the slots of its connection pool next to each other.
GetMySQLServerNodeIds(s) ==
    {Node(NdbNodeTypeAPIStartNodeId + k, "mysqld", k \div s.pool, FALSE) :
        k \in 0..(GetNumOfSectionsRequiredForMySQLServers(s) - 1)}

\* Mutant: the connection pool is forgotten.
FreeAfterServers(s) == NdbNodeTypeAPIStartNodeId + s.max

FirstFreeApiId(s) == NdbNodeTypeAPIStartNodeId + GetNumOfSectionsRequiredForMySQLServers(s)

ApiSections(s) ==
    {Node(NdbOperatorDedicatedAPINodeId, "api", -1, FALSE)} \cup
    {Node(FirstFreeApiId(s) + k, "api", -1, FALSE) : k \in 0..(s.free - 1)}

\* Mutant: the version is not bumped.
SameConfigVersion(old) == IF old = 0 THEN 1 ELSE old

GetConfigVersion(old) == IF old = 0 THEN 1 ELSE old + 1

\* The new config.ini, from the spec and what NewConfigSummary says of the
\* last one.
GetConfigString(s, cs) ==
    [version |-> GetConfigVersion(cs.version),
     default |-> DefaultSections(s),
     nodes   |-> MgmdSections \cup DataNodeSections(s, cs.dataNodes)
                     \cup GetMySQLServerNodeIds(s) \cup ApiSections(s)]

\* my.cnf, parsed: the version is kept in a comment on top, which the parser
\* collects in a section of its own.
GetMySQLConfigString(s, version) ==
    IF s.cnf = "" THEN NoSection
    ELSE [name \in {"header", "mysqld"} |->
            IF name = "header" THEN GetConfigVersion(version) ELSE s.cnf]

-----------------------------------------------------------------------------
(* The ConfigMap *)

NoConfigMap ==
    [gen |-> 0, ini |-> [version |-> 0, default |-> NoSection, nodes |-> {}],
     cnf |-> NoSection, tde |-> "", init |-> FALSE]

SectionsOf(ini, type) == {n \in ini.nodes : n.type = type}

\* What a sync knows of the ConfigMap.
NewConfigSummary(c) ==
    [gen        |-> c.gen,
     version    |-> c.ini.version,
     dataNodes  |-> Cardinality(SectionsOf(c.ini, "ndbmtd")),
     slots      |-> Cardinality(SectionsOf(c.ini, "mysqld")),
     freeApi    |-> Cardinality(SectionsOf(c.ini, "api")),
     ndbd       |-> GetSection(c.ini.default, "ndbd default"),
     mgmd       |-> GetSection(c.ini.default, "mgmd default"),
     tde        |-> c.tde,
     cnf        |-> c.cnf,
     cnfVersion |-> IF c.cnf = NoSection THEN 0 ELSE c.cnf["header"]]

\* The user's parameters are not those of the section, which has others more.
SectionChanged(config, section, others) ==
    \/ Cardinality(DOMAIN config) + others # Cardinality(DOMAIN section)
    \/ \E p \in DOMAIN config : p \notin DOMAIN section \/ section[p] # config[p]

\* Mutant: the TDE secret is not compared.
NeedsUpdateWithoutTDE(cs, s) ==
    \/ SectionChanged(s.ndbd, cs.ndbd, IF cs.tde # "" THEN 3 ELSE 2)
    \/ cs.dataNodes < s.nodes
    \/ cs.slots # GetNumOfSectionsRequiredForMySQLServers(s)
    \/ cs.freeApi # s.free + 1
    \/ SectionChanged(s.mgmd, cs.mgmd, 0)

\* Mutant: the slots of the MySQL Servers are not counted.
NeedsUpdateWithoutSlots(cs, s) ==
    \/ SectionChanged(s.ndbd, cs.ndbd, IF cs.tde # "" THEN 3 ELSE 2)
    \/ cs.dataNodes < s.nodes
    \/ cs.tde # s.tde /\ (cs.tde = "" \/ s.tde = "")
    \/ cs.freeApi # s.free + 1
    \/ SectionChanged(s.mgmd, cs.mgmd, 0)

\* The management nodes' parameters are compared only if the spec has a
\* managementNode; without one s.mgmd is empty, and so is cs.mgmd, always: the
\* section is written under another name (ManagementConfigApplied).
MySQLClusterConfigNeedsUpdate(cs, s) ==
    \/ SectionChanged(s.ndbd, cs.ndbd, IF cs.tde # "" THEN 3 ELSE 2)
    \/ cs.dataNodes < s.nodes
    \/ cs.slots # GetNumOfSectionsRequiredForMySQLServers(s)
    \/ cs.tde # s.tde /\ (cs.tde = "" \/ s.tde = "")
    \/ cs.freeApi # s.free + 1
    \/ SectionChanged(s.mgmd, cs.mgmd, 0)

MySQLCnfNeedsUpdate(cs, s) ==
    IF s.cnf = "" THEN cs.cnf # NoSection
                  ELSE cs.cnf # [name \in {"mysqld"} |-> s.cnf]

CreatedConfigMap ==
    [gen  |-> gen,
     ini  |-> GetConfigString(spec, NewConfigSummary(NoConfigMap)),
     cnf  |-> GetMySQLConfigString(spec, 0),
     tde  |-> spec.tde,
     init |-> FALSE]

\* c: the cached copy; cs: the summary of the copy that the sync has read.
GetUpdatedConfigMap(c, cs) ==
    IF cs.gen = gen
    THEN [c EXCEPT !.init = FALSE]
    ELSE [gen  |-> gen,
          ini  |-> IF MySQLClusterConfigNeedsUpdate(cs, spec)
                   THEN GetConfigString(spec, cs) ELSE c.ini,
          cnf  |-> IF MySQLCnfNeedsUpdate(cs, spec)
                   THEN GetMySQLConfigString(spec, cs.cnfVersion) ELSE c.cnf,
          tde  |-> spec.tde,
          init |-> c.init \/ cs.tde # spec.tde]

\* The keys that differ between the cached copy and the updated one are sent.
Patched(c, old, new) ==
    [key \in DOMAIN c |-> IF new[key] # old[key] THEN new[key] ELSE c[key]]

-----------------------------------------------------------------------------
(* Actions *)

\* A sync that finds no ConfigMap in the cache creates it; that fails if there
\* is one.  The data nodes of the first config form node groups when they start.
CreateConfigMap ==
    /\ cached = NoConfigMap /\ cm = NoConfigMap
    /\ cm' = CreatedConfigMap
    /\ read' = cm'
    /\ inducted' = spec.nodes
    /\ UNCHANGED <<gen, spec, cached>>

DeliverConfigMap ==
    /\ cached # cm
    /\ cached' = cm
    /\ UNCHANGED <<gen, spec, cm, read, inducted>>

\* A sync summarises what it finds in the cache.
StartSync ==
    /\ cached # NoConfigMap /\ read # cached
    /\ read' = cached
    /\ UNCHANGED <<gen, spec, cm, cached, inducted>>

\* A sync adopts a newer generation, or withdraws the initial restart request
\* of its own one.  It reads the cache again for the copy it patches.
PatchConfigMap ==
    /\ cached # NoConfigMap /\ read # NoConfigMap
    /\ read.gen # gen \/ read.init
    /\ cm' = Patched(cm, cached, GetUpdatedConfigMap(cached, NewConfigSummary(read)))
    /\ cm' # cm
    /\ UNCHANGED <<gen, spec, cached, read, inducted>>

\* handleAddNodeOnline: the new data nodes get their node groups.
CreateNodeGroups ==
    /\ read.gen = gen
    /\ inducted < NewConfigSummary(read).dataNodes
    /\ inducted' = NewConfigSummary(read).dataNodes
    /\ UNCHANGED <<gen, spec, cm, cached, read>>

Processed == read.gen = gen /\ ~read.init /\ inducted = spec.nodes

UpdateSpec ==
    /\ gen < MaxGen
    /\ Processed \/ MayOverlap
    /\ \E s \in Specs :
          /\ IsValidSpecUpdate(spec, mutate(s))
          /\ mutate(s) # spec
          /\ spec' = mutate(s)
    /\ gen' = gen + 1
    /\ UNCHANGED <<cm, cached, read, inducted>>

Init ==
    /\ gen = 1
    /\ spec \in {mutate(s) : s \in Specs}
    /\ hasValidSpec(spec)
    /\ cm = NoConfigMap /\ cached = NoConfigMap /\ read = NoConfigMap
    /\ inducted = 0

Next ==
    \/ CreateConfigMap \/ DeliverConfigMap
    \/ StartSync \/ PatchConfigMap \/ CreateNodeGroups
    \/ UpdateSpec

Spec == Init /\ [][Next]_vars

-----------------------------------------------------------------------------
(* The pod initializer *)

\* writeNodeIDToFile: the node ids that pod i of a type claims.  It counts the
\* management nodes in its connect string and has the pool size in its
\* environment.
NodeIdPool(type, i) ==
    CASE type = "mgmd"   -> {1 + i}
      [] type = "ndbmtd" -> {GetManagementNodeCount + 1 + i}
      [] type = "mysqld" -> {NdbNodeTypeAPIStartNodeId + spec.pool * i + k :
                                k \in 0..(spec.pool - 1)}

Pods ==
    ({"mgmd"} \X (0..(GetManagementNodeCount - 1))) \cup ({"ndbmtd"} \X (0..(spec.nodes - 1)))
        \cup ({"mysqld"} \X (0..(spec.servers - 1)))

Digits(i) == IF i < 10 THEN 1 ELSE IF i < 100 THEN 2 ELSE 3

\* waitForPodDNSUpdate cuts the last two characters off the pod's hostname to
\* get its Service: this many are left over of the dash and the ordinal.
LeftOver(i) == 1 + Digits(i) - 2

-----------------------------------------------------------------------------
(* Properties *)

Adopted == cm.gen = gen

\* Every variable has its type, and a spec has got its defaults from the webhook.
TypeOK ==
    /\ gen \in 1..MaxGen
    /\ spec \in SpecType /\ spec.servers \in 1..spec.max
    /\ \A c \in {cm, cached, read} :
          /\ c.gen \in 0..gen /\ c.init \in BOOLEAN /\ c.ini.version \in 0..c.gen
          /\ \A n \in c.ini.nodes : n.id \in Nat /\ n.pod \in Int /\ n.new \in BOOLEAN
    /\ inducted \in Nat

\* A generation's ConfigMap has what its spec asks of the data nodes and of
\* the MySQL Servers, though config.ini is only regenerated if the summary of
\* the last one differs (MySQLClusterConfigNeedsUpdate, MySQLCnfNeedsUpdate).
ConfigApplied ==
    Adopted =>
        /\ cm.ini.default["ndbd default"] = NdbdDefault(spec)
        /\ Cardinality(SectionsOf(cm.ini, "ndbmtd")) = spec.nodes
        /\ Cardinality(SectionsOf(cm.ini, "api")) = spec.free + 1
        /\ cm.tde = spec.tde
        /\ IF spec.cnf = "" THEN cm.cnf = NoSection ELSE cm.cnf["mysqld"] = spec.cnf

\* ... and of the management nodes.
ManagementConfigApplied ==
    Adopted => GetSection(cm.ini.default, "ndb_mgmd default") = spec.mgmd

\* Every pod of a generation claims node ids that its config.ini has for nodes
\* of its type, those of the management and data nodes at that pod's host,
\* though config.ini is kept if only the numbers in it are right: the generator
\* and the pod initializer, which computes the ids on its own, agree
\* (GetConfigString, MySQLClusterConfigNeedsUpdate, writeNodeIDToFile).
PodsHaveNodeIds ==
    Adopted =>
        \A p \in Pods : \A id \in NodeIdPool(p[1], p[2]) :
            \E n \in cm.ini.nodes : n.id = id /\ n.type = p[1]
                                    /\ (p[1] # "mysqld" => n.pod = p[2])

\* ... and those of the MySQL Servers too at that pod's host: "successive nodeIds
\* are assigned to a single MySQL Server" (writeNodeIDToFile), and the hostname
\* of a section says which.
PodsFindTheirNodeIds ==
    Adopted =>
        \A p \in Pods : \A id \in NodeIdPool(p[1], p[2]) :
            \E n \in cm.ini.nodes : n.id = id /\ n.type = p[1] /\ n.pod = p[2]

\* No two nodes of a config.ini have the same id (GetConfigString).
DistinctNodeIds == \A n, m \in cm.ini.nodes : n.id = m.id => n = m

\* No config.ini has more nodes than a MySQL Cluster may have, nor an id
\* beyond their number (hasValidSpec).
NodeIdsInRange == \A n \in cm.ini.nodes : n.id \in 1..(MaxNumberOfNodes - 1)

\* A data node that is not in a node group yet is marked as new in config.ini,
\* and one that is in a group is not, until all are (IsNewDataNode).
NewNodesMarked ==
    \A n \in SectionsOf(cm.ini, "ndbmtd") :
        inducted < Cardinality(SectionsOf(cm.ini, "ndbmtd")) => n.new = (n.pod >= inducted)

\* A data node keeps its node id and its host in every later config.ini:
\* its data is found by them.
DataNodesKeepIds ==
    [][\A n \in SectionsOf(cm.ini, "ndbmtd") :
          \E m \in SectionsOf(cm'.ini, "ndbmtd") : m.id = n.id /\ m.pod = n.pod]_vars

\* The version of config.ini is an annotation of the pods: a new config.ini
\* has a higher one, or the pods are not restarted; a patch repeated from a
\* stale copy brings the same version with the same content.
VersionNamesConfig ==
    [][cm'.ini # cm.ini => cm'.ini.version > cm.ini.version]_vars

\* "Bump up the config version for every change": of my.cnf, and for no other.
CnfVersionNamesChange ==
    [][cm'.cnf # cm.cnf /\ cm.cnf # NoSection /\ cm'.cnf # NoSection
            => cm'.cnf["mysqld"] # cm.cnf["mysqld"]]_vars

\* Every pod looks up its own name under the Service it belongs to
\* (waitForPodDNSUpdate), or it waits forever.
PodNamesResolve == Adopted => \A p \in Pods : LeftOver(p[2]) = 0
=============================================================================
