----------------------------- MODULE MgmClient -----------------------------
(***************************************************************************)
(* The management client and the programs that use it: the pod initializers  *)
(* of data nodes and MySQL Servers, the operator's createNodeGroups and       *)
(* ensureDataNodePodVersion, and the memory request of the data nodes.       *)
(*                                                                          *)
(* A command is sent over one TCP connection and answered by lines that end  *)
(* with an empty one.  Nothing in a reply says which command it answers, but *)
(* for its header.  The management server may stop in the middle of a reply, *)
(* and a reply may come after the client has given up waiting for it.        *)
(***************************************************************************)
EXTENDS ConfigReader, ClusterStatus

CONSTANTS
    Programs,     \* the programs that may run: a subset of AllPrograms
    Mgmds,        \* management servers, node ids 1..Mgmds
    Clusters,     \* data nodes each program may find: their connection and node group
    ApiNode,      \* a connected API node, with an id above all others
    OwnId,        \* node id of the data node whose pod starts
    NodeIdPool,   \* node ids of the MySQL Server whose pod starts, in order
    Redundancy,   \* data nodes per node group
    Configs,      \* configurations with the parameters of the data nodes
    Replicas,     \* CoreDNS replicas
    Window,       \* successful lookups in a row that make up the 5 seconds
    MaxCrashes,   \* bound: crashes of management servers
    MaxTimeouts   \* bound: replies that come too late

AllPrograms == {"initialize data node", "initialize MySQL Server",
                "createNodeGroups", "ensureDataNodePodVersion", "memory"}
Initializers == {"initialize data node", "initialize MySQL Server"}

ASSUME MgmClientAssumption ==
    /\ Programs \subseteq AllPrograms
    /\ Mgmds \in Nat \ {0} /\ Redundancy \in Nat \ {0} /\ Window \in Nat \ {0}
    /\ MaxCrashes \in Nat /\ MaxTimeouts \in Nat
    /\ Replicas # {}
    /\ OwnId \in Nat /\ ApiNode \in Nat /\ NodeIdPool \in Seq(Nat) \ {<<>>}

VARIABLES
    program,   \* the program that runs
    cluster,   \* the data nodes: id to status
    config,    \* the configuration the management servers have
    answers,   \* what the client reads in the words they send for it
    dns,       \* replicas of the DNS that know the pod's address
    free,      \* node ids the management servers would hand out
    up,        \* management servers that are up
    conn,      \* the server the client is connected to, and whether it still is
    requests,  \* commands sent and not answered
    wire,      \* lines sent by the server and not read by the client
    pc,        \* dns, connect, ready, reply, failure handling, done, failed
    stage,     \* status: in GetStatus; work: in the commands after it
    todo,      \* commands to execute; the first one is being executed
    status,    \* what GetStatus has collected
    values,    \* config values read by the memory program
    streak,    \* successful lookups in a row
    granted,   \* node ids granted to this pod by a management server
    crashes,
    timeouts

env == <<program, config, answers>>
link == <<conn, requests, wire>>
local == <<pc, stage, todo, status, values, streak>>
vars == <<program, cluster, config, answers, dns, free, up, conn, requests, wire, pc,
          stage, todo, status, values, streak, granted, crashes, timeouts>>

-----------------------------------------------------------------------------
(* Commands and replies *)

Command(name, node, key, nodes) == [name |-> name, node |-> node, key |-> key, nodes |-> nodes]

GetStatus == Command("get status", 0, 0, <<>>)
GetConfig(node, key) == Command("get config_v2", node, key, <<>>)
TryReserveNodeId(id) == Command("get nodeid", id, 0, <<>>)
CreateNodeGroup(nodes) == Command("create nodegroup", 0, 0, nodes)

\* The 14 parameters that the memory request is computed from, in order.
MemoryParameters ==
    <<DataMemory, NoTables, NoAttributes, NoOrderedIndexes, NoUniqueHashIndexes, NoOps,
      TransBufferMem, IndexMem, RedoBuffer, LongSignalBuffer, DiskPageBufferMemory, Sga,
      TransactionMemory, NoRedologParts>>

LongParameters == {DataMemory, IndexMem, DiskPageBufferMemory, Sga, TransactionMemory}

\* A line of a reply to the command re.
Line(re, part) == [re |-> re, part |-> part, node |-> 0, ok |-> TRUE, ns |-> NodeStatus("", FALSE, 0)]

Unknown == -1

\* The data nodes a program may find: a new one has its own node group number
\* for when it is connected and when it is not, the other node groups are full.
ASSUME ClusterAssumption ==
    \A p \in Programs : \A c \in Clusters[p] :
        /\ IsFiniteSet(DOMAIN c) /\ \A n \in DOMAIN c : n \in Nat /\ n > Mgmds /\ n < ApiNode
        /\ c \in [DOMAIN c -> [type : {"NDB"}, connected : BOOLEAN, group : Int \ {Unknown}]]
        /\ \A n \in DOMAIN c :
              /\ c[n].connected => c[n].group # NodeGroupNewDisconnectedDataNode
              /\ ~c[n].connected => c[n].group # NodeGroupNewConnectedDataNode
              /\ c[n].group \in Nat \ {NodeGroupNewDisconnectedDataNode} =>
                    Cardinality({m \in DOMAIN c : c[m].group = c[n].group}) = Redundancy

NodeLine(part, node, ns) == [Line(GetStatus, part) EXCEPT !.node = node, !.ns = ns]

\* The nodes, in the order of their ids: the management server is one of them,
\* the other one is seen as the servers see each other.
AllNodes ==
    [n \in 1..Mgmds \cup DOMAIN cluster \cup {ApiNode} |->
        IF n <= Mgmds THEN NodeStatus("MGM", n \in up, Unknown)
        ELSE IF n = ApiNode THEN NodeStatus("API", TRUE, Unknown)
        ELSE cluster[n]]

\* The type of a node comes before its state, version and node group.
StatusLines ==
    LET nodes == AllNodes
        ids   == Sorted(DOMAIN nodes)
        id(i) == ids[(i + 1) \div 2]
    IN  [i \in 1..(2 * Len(ids)) |->
            NodeLine(IF i % 2 = 1 THEN "type" ELSE "state", id(i), nodes[id(i)])]

Reply(re) ==
    <<Line(re, "header")>>
    \o (CASE re.name = "get status" -> <<NodeLine("nodes", Cardinality(DOMAIN AllNodes),
                                                  NodeStatus("", FALSE, 0))>> \o StatusLines
          [] re.name = "get nodeid" -> <<[Line(re, "details") EXCEPT !.ok = re.node \in free]>>
          [] OTHER -> <<Line(re, "details")>>)
    \o <<Line(re, "end")>>
    \o (IF re.name = "get config_v2" THEN <<Line(re, "content")>> ELSE <<>>)

-----------------------------------------------------------------------------
(* executeCommand: what the client makes of the lines it has *)

NoConn == [to |-> 0, open |-> FALSE]

Expected(line, cmd) == line.part = "header" /\ line.re.name = cmd.name

\* The index of the last line that the command reads, 0 if it is still to come:
\* the end of a reply with the expected header, with the content that follows;
\* after any other first line, the next empty one (the deferred flush).
LastLine(cmd) ==
    LET ends  == {i \in 2..Len(wire) : wire[i].part = "end"}
        first == Min(ends)
    IN  IF ends = {} THEN 0
        ELSE IF Expected(wire[1], cmd) /\ cmd.name = "get config_v2"
        THEN IF first < Len(wire) THEN first + 1 ELSE 0
        ELSE first

\* The lines up to the end of the reply, or all there are if the server is gone.
Details(last) == {wire[i] : i \in 1..(IF last = 0 THEN Len(wire) ELSE last)}

\* Reading a connection may take more than the lines of the reply: the rest of
\* what was read goes away with the scanner.
ReadUpTo(last) ==
    \E more \in 0..(Len(wire) - last) : wire' = SubSeq(wire, last + more + 1, Len(wire))

\* Mutant: the result in the reply is not looked at.
SucceedsWithAnyResult(cmd, last) ==
    /\ wire # <<>> /\ Expected(wire[1], cmd)
    /\ CASE cmd.name = "get status" -> \E l \in Details(last) : l.part = "nodes"
         [] cmd.name = "get config_v2" -> last # 0
         [] OTHER -> \E l \in Details(last) : l.part = "details"

\* A reply without error, with all that is expected in it.
Succeeds(cmd, last) ==
    /\ wire # <<>> /\ Expected(wire[1], cmd)
    /\ \A l \in Details(last) : l.ok
    /\ CASE cmd.name = "get status" -> \E l \in Details(last) : l.part = "nodes"
         [] cmd.name = "get config_v2" -> last # 0
         [] OTHER -> \E l \in Details(last) : l.part = "details"

\* The node status of every node that a reply describes.  Without a type it has
\* the zero value, without a state it counts as not connected.
Collected(last) ==
    LET lines(part, n) == {l \in Details(last) : l.part = part /\ l.node = n}
        nodes == {l.node : l \in {k \in Details(last) : k.part \in {"type", "state"}}}
        isConnected(n) == \E l \in lines("state", n) : l.ns.connected
    IN  [declared |-> (CHOOSE l \in Details(last) : l.part = "nodes").node,
         typed    |-> {n \in nodes : lines("type", n) # {}},
         nodes    |-> [n \in nodes |->
            NodeStatus(IF lines("type", n) = {} THEN "NDB"
                       ELSE (CHOOSE l \in lines("type", n) : TRUE).ns.type,
                       lines("type", n) # {} /\ isConnected(n),
                       IF isConnected(n) THEN (CHOOSE l \in lines("state", n) : TRUE).ns.group
                       ELSE Unknown)]]

NoStatus == [declared |-> 0, typed |-> {}, nodes |-> <<>>]

\* Data nodes whose node group has not been found out.
Ungrouped == {n \in status.typed : IsDataNode(status.nodes[n]) /\ status.nodes[n].group = Unknown}

-----------------------------------------------------------------------------
(* The programs *)

Disconnect == conn' = NoConn /\ requests' = <<>> /\ wire' = <<>>

\* What each program does first: GetStatus, or the commands of its own.
FirstCommands ==
    CASE program = "initialize MySQL Server" ->
            [i \in DOMAIN NodeIdPool |-> TryReserveNodeId(NodeIdPool[i])]
      [] program = "memory" ->
            [i \in DOMAIN MemoryParameters |-> GetConfig(0, MemoryParameters[i])]
      [] OTHER -> <<GetStatus>>

HasStatus == program \notin {"initialize MySQL Server", "memory"}

\* An error: waitForNodeIdAvailability tries again over the same connection;
\* elsewhere the initializer exits, and its container starts over; the operator
\* returns the error.  The memory request leaves its connection open.
Fails ==
    \/ /\ program \in Initializers /\ stage = "work"
       /\ pc' = "ready"
       /\ UNCHANGED <<conn, requests, stage, todo, status, values, streak, granted>>
    \/ /\ program \in Initializers /\ stage = "status"
       /\ pc' = "dns" /\ streak' = 0 /\ todo' = <<>> /\ status' = NoStatus /\ granted' = {}
       /\ conn' = NoConn /\ requests' = <<>>
       /\ UNCHANGED <<stage, values>>
    \/ /\ program \notin Initializers
       /\ pc' = "failed" /\ todo' = <<>>
       /\ IF program = "memory" THEN UNCHANGED <<conn, requests>>
          ELSE conn' = NoConn /\ requests' = <<>>
       /\ UNCHANGED <<stage, status, values, streak, granted>>

\* What is left on the wire after an error: nothing, if the connection is given up.
LeftAfterError(rest) ==
    wire' = IF (program \in Initializers /\ stage = "work") \/ program = "memory" THEN rest ELSE <<>>

\* The reply is flushed, and with it what the scanner has read ahead: nothing, or
\* all that has come.
LeftAfterReply(last) ==
    \E n \in {IF last = 0 THEN Len(wire) ELSE last, Len(wire)} :
        LeftAfterError(SubSeq(wire, n + 1, Len(wire)))

\* Mutant: the lookups in a row are compared too strictly.
LookupOneTooMany(r) ==
    /\ pc = "dns"
    /\ streak' = IF r \in dns THEN streak + 1 ELSE 0
    /\ pc' = IF streak' > Window THEN "connect" ELSE "dns"
    /\ UNCHANGED <<env, cluster, dns, free, up, link, stage, todo, status, values, granted,
                   crashes, timeouts>>

\* waitForPodDNSUpdate: a lookup is answered by some replica.
LookupPod(r) ==
    /\ pc = "dns"
    /\ streak' = IF r \in dns THEN streak + 1 ELSE 0
    /\ pc' = IF streak' = Window THEN "connect" ELSE "dns"
    /\ UNCHANGED <<env, cluster, dns, free, up, link, stage, todo, status, values, granted,
                   crashes, timeouts>>

\* NewMgmClient: the first host of the connectstring that accepts.
Connect ==
    /\ pc = "connect"
    /\ \E s \in up :
        /\ \A t \in up : s <= t
        /\ conn' = [to |-> s, open |-> TRUE]
    /\ pc' = "ready" /\ todo' = FirstCommands
    /\ stage' = IF HasStatus THEN "status" ELSE "work"
    /\ UNCHANGED <<env, cluster, dns, free, up, requests, wire, status, values, streak, granted,
                   crashes, timeouts>>

\* No management server accepts: the initializer exits, the operator returns.
ConnectFails ==
    /\ pc = "connect" /\ up = {}
    /\ IF program \in Initializers THEN pc' = "dns" /\ streak' = 0
       ELSE pc' = "failed" /\ UNCHANGED streak
    /\ UNCHANGED <<env, cluster, dns, free, up, link, stage, todo, status, values, granted,
                   crashes, timeouts>>

\* The command is written.  If the server is gone the write may fail at once, or
\* only the read.
SendCommand ==
    /\ pc = "ready" /\ todo # <<>>
    /\ \/ /\ pc' = "reply"
          /\ requests' = IF conn.open THEN Append(requests, Head(todo)) ELSE requests
          /\ UNCHANGED <<conn, wire, stage, todo, status, values, streak, granted>>
       \/ /\ ~conn.open
          /\ Fails /\ LeftAfterError(wire)
    /\ UNCHANGED <<env, cluster, dns, free, up, crashes, timeouts>>

\* GetStatus looks up the node groups of the data nodes that are not connected in
\* the config, in the order of a map's iteration.
AskNodeGroup ==
    /\ pc = "ready" /\ stage = "status" /\ todo = <<>>
    /\ \E n \in Ungrouped : todo' = <<GetConfig(n, Nodegroup)>>
    /\ UNCHANGED <<env, cluster, dns, free, up, link, pc, stage, status, values, streak, granted,
                   crashes, timeouts>>

\* getConfig, with the type that the caller asks for.  The content is the same in
\* every reply, so it is read once, for every lookup (see Init).
ReadValue(words, cmd) ==
    LET value == readConfig(words, NDB, cmd.node, cmd.key)
    IN  IF cmd.key \in LongParameters THEN configValueAsUint64(value) ELSE configValueAsUint32(value)

Lookups ==
    IF program = "memory" THEN {GetConfig(0, key) : key \in ToSet(MemoryParameters)}
    ELSE {GetConfig(n, Nodegroup) : n \in DOMAIN cluster}

\* Mutant: the end of the connection goes unnoticed.
ReplyHasEnd(last) == last # 0

\* All lines of the reply are there, or all that will ever come.
ReplyIsOver(last) == last # 0 \/ ~conn.open

\* The reply to the command is there: it is used if it is in order.
ReadReply ==
    /\ pc = "reply"
    /\ LET cmd  == Head(todo)
           last == LastLine(cmd)
           fail == ~Succeeds(cmd, last) \/ (cmd.name = "get config_v2" /\ answers[cmd] = Nil)
       IN  /\ ReplyIsOver(last)
           /\ \/ /\ fail
                 /\ Fails
                 /\ LeftAfterReply(last)
              \/ /\ ~fail
                 /\ ReadUpTo(IF last = 0 THEN Len(wire) ELSE last)
                 /\ pc' = "ready"
                 /\ CASE cmd.name = "get status" ->
                            status' = Collected(last) /\ todo' = <<>> /\ UNCHANGED values
                      [] cmd.name = "get config_v2" /\ stage = "status" ->
                            /\ status' = [status EXCEPT !.nodes[cmd.node].group = answers[cmd].v]
                            /\ todo' = Tail(todo)
                            /\ UNCHANGED values
                      [] cmd.name = "get config_v2" /\ stage = "work" ->
                            /\ values' = Append(values, answers[cmd])
                            /\ todo' = Tail(todo)
                            /\ UNCHANGED status
                      [] OTHER -> todo' = Tail(todo) /\ UNCHANGED <<status, values>>
                 /\ UNCHANGED <<conn, requests, stage, streak, granted>>
    /\ UNCHANGED <<env, cluster, dns, free, up, crashes, timeouts>>

\* The deadline passes before the reply is complete.  What has been read is gone.
ReadTimesOut ==
    /\ pc = "reply" /\ conn.open /\ timeouts < MaxTimeouts
    /\ timeouts' = timeouts + 1
    /\ LET last == LastLine(Head(todo))
       IN  \E n \in 0..(IF last = 0 THEN Len(wire) ELSE last - 1) :
             LeftAfterError(SubSeq(wire, n + 1, Len(wire)))
    /\ Fails
    /\ UNCHANGED <<env, cluster, dns, free, up, crashes>>

GroupsKnown == pc = "ready" /\ stage = "status" /\ todo = <<>> /\ status # NoStatus /\ Ungrouped = {}

\* GetStatus compares the number of nodes with what the reply declared.
StatusMiscounted ==
    /\ GroupsKnown
    /\ \/ Cardinality(DOMAIN status.nodes) # status.declared
       \/ Cardinality(status.typed) # status.declared
    /\ Fails /\ LeftAfterError(<<>>)
    /\ UNCHANGED <<env, cluster, dns, free, up, crashes, timeouts>>

\* Mutant: the number of nodes is not checked.
StatusNotCounted == GroupsKnown

StatusReturned ==
    /\ GroupsKnown
    /\ Cardinality(DOMAIN status.nodes) = status.declared
    /\ Cardinality(status.typed) = status.declared

\* isSystemRestart: no data node is connected, so there is no failure to handle.
IsSystemRestart ==
    /\ StatusReturned /\ program = "initialize data node"
    /\ IF \E n \in DOMAIN status.nodes : IsDataNode(status.nodes[n]) /\ status.nodes[n].connected
       THEN pc' = "failure handling" /\ UNCHANGED link
       ELSE pc' = "done" /\ Disconnect
    /\ stage' = "work"
    /\ UNCHANGED <<env, cluster, dns, free, up, todo, status, values, streak, granted,
                   crashes, timeouts>>

\* waitForDataNodeFailureHandlingToComplete: a MySQL Server knows of it, or cannot
\* be asked, and then the node id has to become available.
FailureHandled ==
    /\ pc = "failure handling"
    /\ \/ OwnId \in free /\ pc' = "done" /\ Disconnect /\ UNCHANGED todo
       \/ pc' = "ready" /\ todo' = <<TryReserveNodeId(OwnId)>> /\ UNCHANGED link
    /\ UNCHANGED <<env, cluster, dns, free, up, stage, status, values, streak, granted,
                   crashes, timeouts>>

\* ensureDataNodePodVersion has the node groups that it restarts node by node.
EnsureDataNodePodVersion ==
    /\ StatusReturned /\ program = "ensureDataNodePodVersion"
    /\ pc' = "done" /\ stage' = "work" /\ Disconnect
    /\ UNCHANGED <<env, cluster, dns, free, up, todo, status, values, streak, granted,
                   crashes, timeouts>>

\* Mutant: the last nodes get a node group, however few they are.
CreateIncompleteNodeGroup ==
    /\ StatusReturned /\ program = "createNodeGroups"
    /\ LET new == GetConnectedDataNodesWithNodeGroup(status.nodes, NodeGroupNewConnectedDataNode)
       IN  todo' = [i \in 1..((Len(new) + Redundancy - 1) \div Redundancy) |->
                        CreateNodeGroup(SubSeq(new, (i - 1) * Redundancy + 1,
                            IF i * Redundancy > Len(new) THEN Len(new) ELSE i * Redundancy))]
    /\ stage' = "work"
    /\ UNCHANGED <<env, cluster, dns, free, up, link, pc, status, values, streak, granted,
                   crashes, timeouts>>

\* createNodeGroups: as many node groups as there are new nodes for.
CreateNodeGroups ==
    /\ StatusReturned /\ program = "createNodeGroups"
    /\ LET new == GetConnectedDataNodesWithNodeGroup(status.nodes, NodeGroupNewConnectedDataNode)
       IN  todo' = [i \in 1..(Len(new) \div Redundancy) |->
                        CreateNodeGroup(SubSeq(new, (i - 1) * Redundancy + 1, i * Redundancy))]
    /\ stage' = "work"
    /\ UNCHANGED <<env, cluster, dns, free, up, link, pc, status, values, streak, granted,
                   crashes, timeouts>>

\* All commands are executed.
Finish ==
    /\ pc = "ready" /\ stage = "work" /\ todo = <<>>
    /\ pc' = "done"
    /\ IF program = "memory" THEN UNCHANGED link ELSE Disconnect
    /\ UNCHANGED <<env, cluster, dns, free, up, stage, todo, status, values, streak, granted,
                   crashes, timeouts>>

-----------------------------------------------------------------------------
(* The management servers and the rest of the world *)

\* The server executes the next command and sends the reply.
Answer ==
    /\ conn.open /\ requests # <<>>
    /\ LET cmd == Head(requests)
           ids == {cmd.nodes[i] : i \in DOMAIN cmd.nodes}
           new == 1 + Max({cluster[n].group : n \in {m \in DOMAIN cluster :
                                cluster[m].group < NodeGroupNewDisconnectedDataNode}})
       IN  /\ wire' = wire \o Reply(cmd)
           /\ requests' = Tail(requests)
           /\ granted' = IF cmd.name = "get nodeid" /\ cmd.node \in free
                         THEN granted \cup {cmd.node} ELSE granted
           /\ cluster' = [n \in DOMAIN cluster |->
                            IF n \in ids THEN [cluster[n] EXCEPT !.group = new] ELSE cluster[n]]
    /\ UNCHANGED <<env, dns, free, up, conn, local, crashes, timeouts>>

\* A management server stops.  Of what it sent, a part may not arrive.  The client
\* can tell only between its lookups and its end: before, it is as if when it connects.
MgmdCrash(s) ==
    /\ s \in up /\ crashes < MaxCrashes /\ pc \notin {"dns", "done", "failed"}
    /\ up' = up \ {s} /\ crashes' = crashes + 1
    /\ IF conn.to = s
       THEN /\ conn' = [conn EXCEPT !.open = FALSE] /\ requests' = <<>>
            /\ \E n \in 0..Len(wire) : wire' = SubSeq(wire, 1, n)
       ELSE UNCHANGED link
    /\ UNCHANGED <<env, cluster, dns, free, local, granted, timeouts>>

MgmdRestart(s) ==
    /\ s \in 1..Mgmds \ up
    /\ up' = up \cup {s}
    /\ UNCHANGED <<env, cluster, dns, free, link, local, granted, crashes, timeouts>>

Ids == {OwnId} \cup {NodeIdPool[i] : i \in DOMAIN NodeIdPool}

\* The node ids that the pod claims.
Claimed == IF program = "initialize data node" THEN {OwnId} ELSE Ids \ {OwnId}

\* The failure of the previous node with that id has been handled.  This and the
\* DNS happen when an initializer can see them: nothing else depends on them.
NodeIdFreed(id) ==
    /\ program \in Initializers /\ stage = "work" /\ pc # "done"
    /\ id \in Claimed \ free
    /\ free' = free \cup {id}
    /\ UNCHANGED <<env, cluster, dns, up, link, local, granted, crashes, timeouts>>

\* A cached negative answer expires.
DnsUpdated(r) ==
    /\ pc = "dns" /\ r \notin dns
    /\ dns' = dns \cup {r}
    /\ UNCHANGED <<env, cluster, free, up, link, local, granted, crashes, timeouts>>

-----------------------------------------------------------------------------

\* The configuration says the node group of every data node.
GroupConfig(c) ==
    LET ids == Sorted(DOMAIN c)
        entry(key, w) == [key |-> key, value |-> Uint32(w)]
        group(n) == IF c[n].group = NodeGroupNewConnectedDataNode
                    THEN NodeGroupNewDisconnectedDataNode ELSE c[n].group
    IN  [defaults |-> <<[type |-> NDB, entries |-> <<entry(NoTables, 1)>>]>>,
         system   |-> [type |-> System, entries |-> <<entry(ConfigGeneration, 1)>>],
         nodes    |-> [i \in DOMAIN ids |-> [type |-> NDB,
                        entries |-> <<entry(NodeId, ids[i]), entry(Nodegroup, group(ids[i]))>>]],
         comm     |-> <<>>]

\* What the theorems take for granted of the reader: the client finds in the
\* configuration the node group of every data node that is not connected.
GroupsReadable ==
    \A p \in Programs \ {"memory"} : \A c \in Clusters[p] : \A n \in DOMAIN c :
        ~c[n].connected => ReadValue(Pack(GroupConfig(c)), GetConfig(n, Nodegroup)) = Uint32(c[n].group)

\* Data nodes that have a node group, and the ids of their node groups.
OldNodes(c) ==
    {n \in DOMAIN c : c[n].group \notin {NodeGroupNewConnectedDataNode, NodeGroupNewDisconnectedDataNode}}
OldGroups(c) == {c[n].group : n \in OldNodes(c)}

\* What they take for granted of the data nodes: the ids of the node groups are
\* consecutive, as CREATE NODEGROUP chooses them.
Consecutive(c) ==
    \A g \in OldGroups(c) :
        g \in 0..(NodeGroupNewDisconnectedDataNode - 1) /\ 0..g \subseteq OldGroups(c)

NoGaps == \A p \in Programs : \A c \in Clusters[p] : Consecutive(c)

Init ==
    /\ program \in Programs
    /\ cluster \in Clusters[program]
    /\ config \in IF program = "memory" THEN Configs ELSE {GroupConfig(cluster)}
    /\ \E words \in IF program = "memory" THEN Prefixes(Pack(config)) ELSE {Pack(config)} :
          answers = [cmd \in Lookups |-> ReadValue(words, cmd)]
    /\ dns = {} /\ streak = 0
    /\ free = Ids \ {OwnId, NodeIdPool[1]}
    /\ up = 1..Mgmds
    /\ conn = NoConn /\ requests = <<>> /\ wire = <<>>
    /\ pc = IF program \in Initializers THEN "dns" ELSE "connect"
    /\ stage = "status" /\ todo = <<>>
    /\ status = NoStatus /\ values = <<>>
    /\ granted = {} /\ crashes = 0 /\ timeouts = 0

Client ==
    \/ \E r \in Replicas : LookupPod(r)
    \/ Connect \/ ConnectFails \/ SendCommand \/ ReadReply \/ AskNodeGroup
    \/ StatusMiscounted \/ IsSystemRestart \/ FailureHandled \/ EnsureDataNodePodVersion
    \/ CreateNodeGroups \/ Finish

Next ==
    \/ Client
    \/ ReadTimesOut
    \/ Answer
    \/ \E s \in 1..Mgmds : MgmdCrash(s) \/ MgmdRestart(s)
    \/ \E id \in Ids : NodeIdFreed(id)
    \/ \E r \in Replicas : DnsUpdated(r)

Spec == Init /\ [][Next]_vars

\* Pods run, servers answer and are restarted, failures get handled, cached
\* answers expire.  Crashes and timeouts are under no obligation.
Fairness ==
    /\ WF_vars(Client) /\ WF_vars(Answer)
    /\ \A s \in 1..Mgmds : WF_vars(MgmdRestart(s))
    /\ \A id \in Ids : WF_vars(NodeIdFreed(id))
    /\ \A r \in Replicas : WF_vars(DnsUpdated(r))

FairSpec == Spec /\ Fairness

-----------------------------------------------------------------------------
(* What the memory request is computed from and to.  Amounts are in MiB, so  *)
(* that a 32-bit number of bytes wraps at 2^12.                              *)

WordSize == 2^12
BinarySize == 12

Amount(v) == IF v.type = "uint64" THEN v.v[1] * WordSize + v.v[2] ELSE v.v

\* The sum, from the amount of each parameter and the product of two of them.
Total(amount, redo) ==
    LET plain == {NoTables, NoAttributes, NoOrderedIndexes, NoUniqueHashIndexes, NoOps,
                  TransBufferMem, IndexMem, LongSignalBuffer, DiskPageBufferMemory, Sga,
                  DataMemory, NoRedologParts}
    IN  MapThenSumSet(LAMBDA k : amount[k], plain) + redo + BinarySize
        + (IF amount[TransactionMemory] = 0 THEN amount[DataMemory] \div 10
           ELSE amount[TransactionMemory])

\* Mutant: a TransactionMemory of 0 is added as it is.
TransactionMemoryAsConfigured ==
    LET amount == [k \in ToSet(MemoryParameters) |->
                    Amount(values[CHOOSE i \in DOMAIN MemoryParameters : MemoryParameters[i] = k])]
    IN  Total(amount, (amount[RedoBuffer] * amount[NoRedologParts]) % WordSize)
        - (IF amount[TransactionMemory] = 0 THEN amount[DataMemory] \div 10 ELSE 0)

\* getResourceRequestRequirements multiplies two uint32.
MemoryRequest ==
    LET amount == [k \in ToSet(MemoryParameters) |->
                    Amount(values[CHOOSE i \in DOMAIN MemoryParameters : MemoryParameters[i] = k])]
    IN  Total(amount, (amount[RedoBuffer] * amount[NoRedologParts]) % WordSize)

\* The amounts of the first data node.
Amounts(c) == [k \in ToSet(MemoryParameters) |-> Amount(Lookup(c, NDB, 0, k))]

\* What its parameters add up to.
MemoryNeeded ==
    LET amount == Amounts(config)
    IN  Total(amount, amount[RedoBuffer] * amount[NoRedologParts])

-----------------------------------------------------------------------------
(* Properties *)

TypeOK ==
    /\ program \in Programs
    /\ dns \subseteq Replicas /\ free \subseteq Ids /\ granted \subseteq Ids
    /\ up \subseteq 1..Mgmds
    /\ conn \in [to : 0..Mgmds, open : BOOLEAN]
    /\ pc \in {"dns", "connect", "ready", "reply", "failure handling", "done", "failed"}
    /\ stage \in {"status", "work"}
    /\ streak \in 0..Window
    /\ crashes \in 0..MaxCrashes /\ timeouts \in 0..MaxTimeouts

\* GetStatus returns all nodes, every data node with its true connection and node
\* group, or an error: a reply that was cut, or one that answers another command,
\* is never taken for a status.
StatusExact ==
    StatusReturned =>
        /\ DOMAIN status.nodes = DOMAIN AllNodes
        /\ \A n \in DOMAIN cluster : status.nodes[n] = cluster[n]

\* The node groups that are restarted node by node are all there, each with all
\* its nodes, and no new data node is among them.
NodeGroupsComplete ==
    LET groups == GetNodesGroupedByNodegroup(status.nodes)
    IN  pc = "done" /\ program = "ensureDataNodePodVersion" /\ groups # <<>> =>
            /\ \A i \in DOMAIN groups : Len(groups[i]) = Redundancy
            /\ UNION {ToSet(groups[i]) : i \in DOMAIN groups} =
                 {n \in DOMAIN cluster : cluster[n].group \notin
                    {NodeGroupNewConnectedDataNode, NodeGroupNewDisconnectedDataNode}}

\* createNodeGroups leaves no room for another node group, and makes none with too
\* few or too many nodes, although any command may fail.
NewNodesGrouped ==
    program = "createNodeGroups" =>
        /\ \A n \in DOMAIN cluster : cluster[n].group \in Nat =>
              cluster[n].group = NodeGroupNewDisconnectedDataNode
              \/ Cardinality({m \in DOMAIN cluster : cluster[m].group = cluster[n].group}) = Redundancy
        /\ pc = "done" => Cardinality({n \in DOMAIN cluster :
              cluster[n].group = NodeGroupNewConnectedDataNode}) < Redundancy

\* A pod goes on only after the failure of the previous node with its id has been
\* handled: every id was granted, or the cluster is starting.  This needs that no
\* reply comes late.
NodeIdsGranted ==
    /\ program = "initialize MySQL Server" /\ pc = "done" /\ timeouts = 0 =>
          ToSet(NodeIdPool) \subseteq granted
    /\ program = "initialize data node" /\ pc = "done" =>
          OwnId \in free \/ \A n \in DOMAIN cluster : ~cluster[n].connected

\* The memory that is requested is what the parameters add up to, or nothing is
\* requested: every parameter is the node's own or else the default, whatever the
\* layout of the configuration, also if it is cut.
MemoryRequestExact ==
    program = "memory" /\ pc = "done" => MemoryRequest = MemoryNeeded

\* The connection is lost while waiting for a node id.
Stranded == program \in Initializers /\ stage = "work" /\ ~conn.open

\* A program ends, unless the management server it waits on goes away.
ProgramEnds == <>(pc \in {"done", "failed"} \/ Stranded)

\* waitForNodeIdAvailability waits until the id can be allocated, and then returns.
InitializerEnds == <>(pc \in {"done", "failed"})

\* As NodeIdsGranted, with replies that come late.
NodeIdsGrantedDespiteTimeouts ==
    program = "initialize MySQL Server" /\ pc = "done" => ToSet(NodeIdPool) \subseteq granted
=============================================================================
