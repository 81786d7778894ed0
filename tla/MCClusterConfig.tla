-------------------------- MODULE MCClusterConfig --------------------------
(***************************************************************************)
(* Instances of ClusterConfig for TLC.                                      *)
(***************************************************************************)
EXTENDS ClusterConfig

None == NoSection

Param(p, v) == [q \in {p} |-> v]

\* Every spec below has one parameter at most for a kind of nodes.
AnyConfig ==
    {None} \cup
    UNION {[{p} -> {"0", "1", "2", "9", "80M", "90M"}] :
        p \in {"p", "datamemory", "maxnooftables", "nodeid", EncryptedFileSystem}}

Base == [nodes |-> 2, servers |-> 1, max |-> 2, pool |-> 1, free |-> 1,
         ndbd |-> None, mgmd |-> None, tde |-> "", cnf |-> ""]

\* Four MySQL Servers with one connection each, or two with two.
SlotSpecs == {[Base EXCEPT !.max = 4], [Base EXCEPT !.pool = 2]}

\* Data nodes, MySQL Servers and their pools, free slots, data node
\* parameters, TDE secret and my.cnf in every combination of small values,
\* some of which the webhook completes (servers = 0, max = 0) or refuses; and
\* as many slots for fewer MySQL Servers with more connections each.
AnySpec ==
    {[Base EXCEPT !.nodes = n, !.servers = m[1], !.max = m[2], !.pool = p,
                  !.ndbd = c, !.tde = t] :
        n \in {2, 3, 4}, m \in {<<0, 0>>, <<1, 0>>, <<2, 2>>, <<3, 2>>}, p \in {1, 4},
        c \in {None, Param("datamemory", "80M"), Param("nodeid", "1")}, t \in {"", "key1"}}
    \cup
    {[Base EXCEPT !.free = f, !.cnf = b, !.tde = t, !.ndbd = c] :
        f \in {0, 2}, b \in {"", "a", "b"}, t \in {"key1", "key2"},
        c \in {Param("datamemory", "90M"), Param("maxnooftables", "9")}}
    \cup SlotSpecs

\* The management nodes' parameters are set, changed and removed.
ManagementSpecs == {[Base EXCEPT !.mgmd = c] : c \in {None, Param("p", "1"), Param("p", "2")}}

\* my.cnf stays the same while the free slots change.
CnfSpecs == {[Base EXCEPT !.cnf = "a", !.free = f] : f \in {1, 2}}

\* The user sets the parameter that TDE implies.
OverrideSpecs ==
    {[Base EXCEPT !.tde = "key1", !.ndbd = c] :
        c \in {None, Param(EncryptedFileSystem, "0")}}

\* Many connections.
LargeSpecs == {[Base EXCEPT !.max = 60, !.pool = 2]}

\* More than ten data nodes.
ManyNodes == {[Base EXCEPT !.nodes = 12]}

\* Data nodes are added, then a parameter changes.
AddThenChange ==
    {[Base EXCEPT !.nodes = n, !.ndbd = c] :
        n \in {2, 4}, c \in {None, Param("datamemory", "80M")}}
=============================================================================
