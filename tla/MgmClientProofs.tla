-------------------------- MODULE MgmClientProofs --------------------------
(***************************************************************************)
(* Proofs about MgmClient, for all clusters, pools and configurations and   *)
(* any number of crashes and timeouts.                                      *)
(***************************************************************************)
EXTENDS MgmClient, FiniteSetTheorems, TLAPS

-----------------------------------------------------------------------------
(* Sorted *)

\* The rank of a number among those of a finite set.
Rank(S, n) == Cardinality({m \in S : m < n})

\* Ranks grow with the numbers, and stay below their number.
LEMMA Ranks ==
    ASSUME NEW S, IsFiniteSet(S), S \subseteq Int
    PROVE  /\ Cardinality(S) \in Nat
           /\ \A n \in S : Rank(S, n) \in 0..(Cardinality(S) - 1)
           /\ \A n, m \in S : n < m => Rank(S, n) < Rank(S, m)
<1> DEFINE B(n) == {m \in S : m < n}
<1>1. \A n : IsFiniteSet(B(n)) /\ Cardinality(B(n)) \in Nat
  <2>1. \A n : B(n) \in SUBSET S
    OBVIOUS
  <2> HIDE DEF B
  <2>2. \A n : IsFiniteSet(B(n))
    BY <2>1, FS_Subset
  <2> QED  BY <2>2, FS_CardinalityType
<1>2. Cardinality(S) \in Nat
  BY FS_CardinalityType
<1>3. ASSUME NEW n \in S
      PROVE  Rank(S, n) \in 0..(Cardinality(S) - 1)
  <2>1. B(n) \in SUBSET S /\ n \notin B(n) /\ B(n) # S
    OBVIOUS
  <2> HIDE DEF B
  <2>2. Cardinality(B(n)) <= Cardinality(S) /\ Cardinality(B(n)) # Cardinality(S)
    BY <2>1, FS_Subset
  <2>3. Cardinality(B(n)) \in 0..(Cardinality(S) - 1)
    BY <1>1, <1>2, <2>2
  <2> QED  BY <2>3 DEF Rank, B
<1>4. ASSUME NEW n \in S, NEW m \in S, n < m
      PROVE  Rank(S, n) < Rank(S, m)
  <2>1. B(n) \in SUBSET B(m) /\ n \in B(m) /\ n \notin B(n)
    <3>1. \A a, b, d \in Int : a < b /\ b < d => a < d
      OBVIOUS
    <3>2. ~(n < n)
      OBVIOUS
    <3> QED  BY <1>4, <3>1, <3>2
  <2>2. B(n) # B(m)
    BY <2>1
  <2> HIDE DEF B
  <2>3. Cardinality(B(n)) <= Cardinality(B(m)) /\ Cardinality(B(n)) # Cardinality(B(m))
    BY <1>1, <2>1, <2>2, FS_Subset
  <2>4. Cardinality(B(n)) < Cardinality(B(m))
    BY <1>1, <2>3
  <2> QED  BY <2>4 DEF Rank, B
<1> QED  BY <1>2, <1>3, <1>4

\* Every rank is taken.
LEMMA RanksTaken ==
    ASSUME NEW S, IsFiniteSet(S), S \subseteq Int,
           NEW i \in 1..Cardinality(S)
    PROVE  \E n \in S : Rank(S, n) = i - 1
<1> DEFINE c == Cardinality(S)
           T == 0..(c - 1)
           r == [n \in S |-> Rank(S, n)]
<1>1. c \in Nat /\ \A n \in S : Rank(S, n) \in T
  BY Ranks
<1>2. IsFiniteSet(T) /\ Cardinality(T) = c
  <2> HIDE DEF c
  <2> QED  BY <1>1, FS_Interval
<1>3. \A n, m \in S : Rank(S, n) = Rank(S, m) => n = m
  <2> SUFFICES ASSUME NEW n \in S, NEW m \in S, n # m
               PROVE  Rank(S, n) # Rank(S, m)
    OBVIOUS
  <2>1. n < m \/ m < n
    OBVIOUS
  <2>2. Rank(S, n) \in Int /\ Rank(S, m) \in Int
    BY <1>1
  <2>3. Rank(S, n) < Rank(S, m) \/ Rank(S, m) < Rank(S, n)
    BY <2>1, Ranks
  <2> QED  BY <2>2, <2>3
<1>4. r \in Injection(S, T)
  BY <1>1, <1>3 DEF Injection, IsInjective
<1> HIDE DEF r
<1>5. r \in Surjection(S, T)
  <2> HIDE DEF T, c
  <2>1. Cardinality(S) = Cardinality(T)
    BY <1>2 DEF c
  <2> QED  BY <1>2, <1>4, <2>1, FS_Injection
<1>6. i - 1 \in T
  BY <1>1
<1>7. PICK n \in S : r[n] = i - 1
  BY <1>5, <1>6 DEF Surjection
<1> QED  BY <1>7 DEF r

\* Sorted lists every number of a finite set once, in increasing order.
LEMMA SortedFacts ==
    ASSUME NEW S, IsFiniteSet(S), S \subseteq Int
    PROVE  /\ Cardinality(S) \in Nat
           /\ Sorted(S) \in [1..Cardinality(S) -> S]
           /\ \A n \in S : \E i \in 1..Cardinality(S) : Sorted(S)[i] = n
           /\ \A i, j \in 1..Cardinality(S) : i < j => Sorted(S)[i] < Sorted(S)[j]
<1> DEFINE c == Cardinality(S)
           s == Sorted(S)
<1>1. c \in Nat /\ \A n \in S : Rank(S, n) \in 0..(c - 1)
  BY Ranks
<1>2. \A n, m \in S : n < m => Rank(S, n) < Rank(S, m)
  BY Ranks
<1>3. \A n, m \in S : Rank(S, n) <= Rank(S, m) => n <= m
  <2> SUFFICES ASSUME NEW n \in S, NEW m \in S, Rank(S, n) <= Rank(S, m)
               PROVE  n <= m
    OBVIOUS
  <2>1. Rank(S, n) \in Int /\ Rank(S, m) \in Int
    BY <1>1
  <2>2. ~(Rank(S, m) < Rank(S, n))
    BY <2>1
  <2>3. ~(m < n)
    BY <1>2, <2>2
  <2> QED  BY <2>3
<1>4. s = [i \in 1..c |-> CHOOSE n \in S : Rank(S, n) = i - 1]
  BY DEF Sorted, Rank
<1>5. \A i \in 1..c : \E n \in S : Rank(S, n) = i - 1
  BY RanksTaken
<1> HIDE DEF s, c
<1>6. \A i \in 1..c : s[i] \in S /\ Rank(S, s[i]) = i - 1
  <2> SUFFICES ASSUME NEW i \in 1..c
               PROVE  s[i] \in S /\ Rank(S, s[i]) = i - 1
    OBVIOUS
  <2>1. s[i] = CHOOSE n \in S : Rank(S, n) = i - 1
    BY <1>4
  <2>2. \E n \in S : Rank(S, n) = i - 1
    BY <1>5
  <2> QED  BY <2>1, <2>2
<1>7. s \in [1..c -> S]
  BY <1>4, <1>6
<1>8. \A n \in S : \E i \in 1..c : s[i] = n
  <2> SUFFICES ASSUME NEW n \in S
               PROVE  \E i \in 1..c : s[i] = n
    OBVIOUS
  <2> DEFINE i == Rank(S, n) + 1
  <2>1. i \in 1..c /\ i - 1 = Rank(S, n)
    BY <1>1
  <2>2. s[i] \in S /\ Rank(S, s[i]) = Rank(S, n)
    BY <1>6, <2>1
  <2>3. Rank(S, n) \in Int
    BY <1>1
  <2> HIDE DEF i
  <2>4. Rank(S, s[i]) <= Rank(S, n) /\ Rank(S, n) <= Rank(S, s[i])
    BY <2>2, <2>3
  <2>5. s[i] <= n /\ n <= s[i]
    BY <1>3, <2>2, <2>4
  <2>6. s[i] = n
    <3>1. s[i] \in Int /\ n \in Int
      BY <2>2
    <3> QED  BY <2>5, <3>1
  <2> QED  BY <2>1, <2>6
<1>9. \A i, j \in 1..c : i < j => s[i] < s[j]
  <2> SUFFICES ASSUME NEW i \in 1..c, NEW j \in 1..c, i < j
               PROVE  s[i] < s[j]
    OBVIOUS
  <2>1. Rank(S, s[i]) = i - 1 /\ Rank(S, s[j]) = j - 1 /\ s[i] \in S /\ s[j] \in S
    BY <1>6
  <2>2. ~(s[j] <= s[i])
    <3>1. s[j] # s[i]
      BY <1>1, <2>1
    <3>2. ~(s[j] < s[i])
      <4>1. s[j] < s[i] => j - 1 < i - 1
        BY <1>2, <2>1
      <4> QED  BY <1>1, <4>1
    <3>3. s[i] \in Int /\ s[j] \in Int
      BY <2>1
    <3> QED  BY <3>1, <3>2, <3>3
  <2>3. s[i] \in Int /\ s[j] \in Int
    BY <2>1
  <2> QED  BY <2>2, <2>3
<1> QED  BY <1>1, <1>7, <1>8, <1>9 DEF s, c

\* A finite set of numbers that is not empty has a greatest one.
LEMMA MaxFacts ==
    ASSUME NEW S, IsFiniteSet(S), S \subseteq Int, S # {}
    PROVE  Max(S) \in S /\ \A n \in S : n <= Max(S)
<1> DEFINE c == Cardinality(S)
           s == Sorted(S)
<1>1. /\ c \in Nat /\ s \in [1..c -> S]
      /\ \A n \in S : \E i \in 1..c : s[i] = n
      /\ \A i, j \in 1..c : i < j => s[i] < s[j]
  BY SortedFacts
<1> HIDE DEF c, s
<1>2. c >= 1
  <2>1. PICK n \in S : TRUE
    OBVIOUS
  <2>2. PICK i \in 1..c : s[i] = n
    BY <1>1
  <2> QED  BY <1>1, <2>2
<1>3. s[c] \in S /\ \A n \in S : n <= s[c]
  <2>1. c \in 1..c
    BY <1>1, <1>2
  <2>2. s[c] \in S
    BY <1>1, <2>1
  <2>3. ASSUME NEW n \in S
        PROVE  n <= s[c]
    <3>1. PICK i \in 1..c : s[i] = n
      BY <1>1
    <3>2. CASE i = c
      BY <2>2, <3>1, <3>2
    <3>3. CASE i < c
      <4>1. n < s[c]
        BY <1>1, <2>1, <3>1, <3>3
      <4>2. n \in Int /\ s[c] \in Int
        BY <2>2
      <4> QED  BY <4>1, <4>2
    <3> QED  BY <1>1, <3>2, <3>3
  <2> QED  BY <2>2, <2>3
<1> QED  BY <1>3 DEF Max

-----------------------------------------------------------------------------
(* Types *)

\* TypeOK with what makes it inductive: lookups in a row that are not enough yet.
TypeInv ==
    /\ TypeOK
    /\ pc = "dns" => streak < Window

\* A failure leads to one of these, and touches nothing else that has a type.
LEMMA FailTypes ==
    ASSUME TypeInv, Fails
    PROVE  /\ pc' \in {"ready", "dns", "failed"}
           /\ conn' \in [to : 0..Mgmds, open : BOOLEAN]
           /\ streak' \in 0..Window /\ (pc' = "dns" => streak' < Window)
           /\ granted' \subseteq Ids
           /\ stage' = stage
<1>1. /\ conn \in [to : 0..Mgmds, open : BOOLEAN] /\ streak \in 0..Window
      /\ granted \subseteq Ids
  BY DEF TypeInv, TypeOK
<1>2. NoConn \in [to : 0..Mgmds, open : BOOLEAN]
  BY MgmClientAssumption DEF NoConn
<1>3. 0 \in 0..Window /\ 0 < Window
  BY MgmClientAssumption
<1>4. CASE pc' = "ready" /\ UNCHANGED <<conn, stage, streak, granted>>
  BY <1>1, <1>4
<1>5. CASE pc' = "dns" /\ streak' = 0 /\ granted' = {} /\ conn' = NoConn /\ UNCHANGED stage
  BY <1>2, <1>3, <1>5
<1>6. CASE pc' = "failed" /\ (conn' = NoConn \/ UNCHANGED conn) /\ UNCHANGED <<stage, streak, granted>>
  BY <1>1, <1>2, <1>6
<1>7. \/ pc' = "ready" /\ UNCHANGED <<conn, stage, streak, granted>>
      \/ pc' = "dns" /\ streak' = 0 /\ granted' = {} /\ conn' = NoConn /\ UNCHANGED stage
      \/ pc' = "failed" /\ (conn' = NoConn \/ UNCHANGED conn) /\ UNCHANGED <<stage, streak, granted>>
  BY DEF Fails
<1> QED  BY <1>4, <1>5, <1>6, <1>7

\* What the steps do to the variables that have a type.
LEMMA TypeKept ==
    ASSUME TypeInv, UNCHANGED <<program, dns, free, up>>,
           crashes' = crashes, timeouts' \in 0..MaxTimeouts,
           conn' \in [to : 0..Mgmds, open : BOOLEAN],
           pc' \in {"dns", "connect", "ready", "reply", "failure handling", "done", "failed"},
           stage' \in {"status", "work"}, streak' \in 0..Window, pc' = "dns" => streak' < Window,
           granted' \subseteq Ids
    PROVE  TypeInv'
BY DEF TypeInv, TypeOK

\* The first state has the right types.
LEMMA TypeInit ==
    ASSUME Init
    PROVE  TypeInv
<1>1. 0 \in 0..Window /\ 0 < Window /\ 0 \in 0..MaxCrashes /\ 0 \in 0..MaxTimeouts
  BY MgmClientAssumption
<1>2. NoConn \in [to : 0..Mgmds, open : BOOLEAN]
  BY MgmClientAssumption DEF NoConn
<1> QED  BY <1>1, <1>2 DEF Init, TypeInv, TypeOK

\* Every step keeps the types.
LEMMA TypeStep ==
    ASSUME TypeInv, [Next]_vars
    PROVE  TypeInv'
<1>0. /\ conn \in [to : 0..Mgmds, open : BOOLEAN] /\ streak \in 0..Window
      /\ granted \subseteq Ids /\ free \subseteq Ids /\ up \subseteq 1..Mgmds
      /\ timeouts \in 0..MaxTimeouts /\ crashes \in 0..MaxCrashes
      /\ stage \in {"status", "work"} /\ Window \in Nat \ {0}
      /\ pc = "dns" => streak < Window
      /\ pc \in {"dns", "connect", "ready", "reply", "failure handling", "done", "failed"}
      /\ MaxTimeouts \in Nat /\ MaxCrashes \in Nat /\ Mgmds \in Nat
  BY MgmClientAssumption DEF TypeInv, TypeOK
<1>b. streak \in 0..Window /\ Window \in Nat /\ 0 < Window /\ 0 \in 0..Window
  <2>1. Window \in Nat \ {0}
    BY MgmClientAssumption
  <2>2. 0 < Window /\ 0 \in 0..Window
    BY <2>1
  <2> QED  BY <1>0, <2>1, <2>2
<1>a. NoConn \in [to : 0..Mgmds, open : BOOLEAN]
  BY MgmClientAssumption DEF NoConn
<1>1. ASSUME NEW r \in Replicas, LookupPod(r)
      PROVE  TypeInv'
  <2>1. UNCHANGED <<program, dns, free, up, crashes, timeouts, conn, stage, granted>>
    BY <1>1 DEF LookupPod, env, link
  <2>2. /\ pc = "dns" /\ streak' = IF r \in dns THEN streak + 1 ELSE 0
        /\ pc' = IF streak' = Window THEN "connect" ELSE "dns"
    BY <1>1 DEF LookupPod
  <2>3. streak' \in 0..Window
    BY <1>0, <2>2
  <2>4. pc' = "dns" => streak' < Window
    <3>1. pc' = "dns" => streak' # Window
      BY <2>2
    <3>2. streak' # Window => streak' < Window
      BY <1>b, <2>3
    <3> QED  BY <3>1, <3>2
  <2>5. pc' \in {"connect", "dns"}
    BY <2>2
  <2> QED  BY <1>0, <2>1, <2>3, <2>4, <2>5, TypeKept
<1>2. CASE Connect
  <2>1. UNCHANGED <<program, dns, free, up, crashes, timeouts, streak, granted>> /\ pc' = "ready"
    BY <1>2 DEF Connect, env
  <2>2. stage' \in {"status", "work"}
    BY <1>2 DEF Connect
  <2>3. PICK s \in up : conn' = [to |-> s, open |-> TRUE]
    BY <1>2 DEF Connect
  <2>4. conn' \in [to : 0..Mgmds, open : BOOLEAN]
    <3>1. s \in 1..Mgmds
      BY <1>0, <2>3
    <3> QED  BY <2>3, <3>1
  <2> QED  BY <1>0, <2>1, <2>2, <2>4, TypeKept
<1>3. CASE ConnectFails
  <2>1. UNCHANGED <<program, dns, free, up, crashes, timeouts, conn, stage, granted>>
    BY <1>3 DEF ConnectFails, env, link
  <2>2. (pc' = "dns" /\ streak' = 0) \/ (pc' = "failed" /\ streak' = streak)
    BY <1>3 DEF ConnectFails
  <2> QED  BY <1>0, <1>b, <2>1, <2>2, TypeKept
<1>4. CASE SendCommand
  <2>1. UNCHANGED <<program, dns, free, up, crashes, timeouts>>
    BY <1>4 DEF SendCommand, env
  <2>2. CASE pc' = "reply" /\ UNCHANGED <<conn, stage, streak, granted>>
    BY <1>0, <2>1, <2>2, TypeKept
  <2>3. CASE Fails
    BY <1>0, <2>1, <2>3, FailTypes, TypeKept
  <2> QED  BY <1>4, <2>2, <2>3 DEF SendCommand
<1>5. CASE ReadReply
  <2>1. UNCHANGED <<program, dns, free, up, crashes, timeouts>>
    BY <1>5 DEF ReadReply, env
  <2>2. CASE pc' = "ready" /\ UNCHANGED <<conn, stage, streak, granted>>
    BY <1>0, <2>1, <2>2, TypeKept
  <2>3. CASE Fails
    BY <1>0, <2>1, <2>3, FailTypes, TypeKept
  <2> QED  BY <1>5, <2>2, <2>3 DEF ReadReply
<1>6. CASE AskNodeGroup
  BY <1>0, <1>6, TypeKept DEF AskNodeGroup, env, link
<1>7. CASE StatusMiscounted
  <2>1. UNCHANGED <<program, dns, free, up, crashes, timeouts>> /\ Fails
    BY <1>7 DEF StatusMiscounted, env
  <2> QED  BY <1>0, <2>1, FailTypes, TypeKept
<1>8. CASE IsSystemRestart
  <2>1. /\ UNCHANGED <<program, dns, free, up, crashes, timeouts, streak, granted>>
        /\ stage' = "work" /\ pc' \in {"failure handling", "done"} /\ conn' \in {conn, NoConn}
    BY <1>8 DEF IsSystemRestart, env, link, Disconnect
  <2> QED  BY <1>0, <1>a, <2>1, TypeKept
<1>9. CASE FailureHandled
  <2>1. /\ UNCHANGED <<program, dns, free, up, crashes, timeouts, streak, granted, stage>>
        /\ pc' \in {"ready", "done"} /\ conn' \in {conn, NoConn}
    BY <1>9 DEF FailureHandled, env, link, Disconnect
  <2> QED  BY <1>0, <1>a, <2>1, TypeKept
<1>10. CASE EnsureDataNodePodVersion
  <2>1. /\ UNCHANGED <<program, dns, free, up, crashes, timeouts, streak, granted>>
        /\ stage' = "work" /\ pc' = "done" /\ conn' = NoConn
    BY <1>10 DEF EnsureDataNodePodVersion, env, Disconnect
  <2> QED  BY <1>0, <1>a, <2>1, TypeKept
<1>11. CASE CreateNodeGroups
  <2>1. /\ UNCHANGED <<program, dns, free, up, crashes, timeouts, streak, granted, conn, pc>>
        /\ stage' = "work"
    BY <1>11 DEF CreateNodeGroups, env, link
  <2> QED  BY <1>0, <2>1, TypeKept
<1>12. CASE Finish
  <2>1. /\ UNCHANGED <<program, dns, free, up, crashes, timeouts, streak, granted, stage>>
        /\ pc' = "done" /\ conn' \in {conn, NoConn}
    BY <1>12 DEF Finish, env, link, Disconnect
  <2> QED  BY <1>0, <1>a, <2>1, TypeKept
<1>13. CASE ReadTimesOut
  <2>1. UNCHANGED <<program, dns, free, up, crashes>> /\ Fails /\ timeouts' \in 0..MaxTimeouts
    BY <1>0, <1>13 DEF ReadTimesOut, env
  <2> QED  BY <1>0, <2>1, FailTypes, TypeKept
<1>14. CASE Answer
  <2>1. UNCHANGED <<program, dns, free, up, crashes, timeouts, conn, pc, stage, streak>>
    BY <1>14 DEF Answer, env, local
  <2>2. granted' \subseteq granted \cup free
    BY <1>14 DEF Answer
  <2>3. granted' \subseteq Ids
    BY <1>0, <2>2
  <2> QED  BY <1>0, <2>1, <2>3, TypeKept
<1>15. ASSUME NEW s \in 1..Mgmds, MgmdCrash(s)
       PROVE  TypeInv'
  <2>1. UNCHANGED <<program, dns, free, pc, stage, streak, granted, timeouts>>
    BY <1>15 DEF MgmdCrash, env, local
  <2>2. up' \subseteq 1..Mgmds
    BY <1>0, <1>15 DEF MgmdCrash
  <2>4. crashes' \in 0..MaxCrashes
    <3>1. crashes' = crashes + 1 /\ crashes < MaxCrashes
      BY <1>15 DEF MgmdCrash
    <3>2. crashes \in 0..MaxCrashes /\ MaxCrashes \in Nat
      BY MgmClientAssumption DEF TypeInv, TypeOK
    <3> QED  BY <3>1, <3>2
  <2>3. conn' \in [to : 0..Mgmds, open : BOOLEAN]
    BY <1>0, <1>15 DEF MgmdCrash, link
  <2> QED  BY <2>1, <2>2, <2>3, <2>4 DEF TypeInv, TypeOK
<1>16. ASSUME NEW s \in 1..Mgmds, MgmdRestart(s)
       PROVE  TypeInv'
  <2>1. UNCHANGED <<program, dns, free, pc, stage, streak, granted, timeouts, crashes, conn>>
    BY <1>16 DEF MgmdRestart, env, local, link
  <2>2. up' \subseteq 1..Mgmds
    BY <1>0, <1>16 DEF MgmdRestart
  <2> QED  BY <2>1, <2>2 DEF TypeInv, TypeOK
<1>17. ASSUME NEW id \in Ids, NodeIdFreed(id)
       PROVE  TypeInv'
  <2>1. UNCHANGED <<program, dns, up, pc, stage, streak, granted, timeouts, crashes, conn>>
    BY <1>17 DEF NodeIdFreed, env, local, link
  <2>2. free' \subseteq Ids
    BY <1>0, <1>17 DEF NodeIdFreed
  <2> QED  BY <2>1, <2>2 DEF TypeInv, TypeOK
<1>18. ASSUME NEW r \in Replicas, DnsUpdated(r)
       PROVE  TypeInv'
  <2>1. UNCHANGED <<program, free, up, pc, stage, streak, granted, timeouts, crashes, conn>>
    BY <1>18 DEF DnsUpdated, env, local, link
  <2>2. dns' \subseteq Replicas
    BY <1>18 DEF DnsUpdated, TypeInv, TypeOK
  <2> QED  BY <2>1, <2>2 DEF TypeInv, TypeOK
<1>19. CASE UNCHANGED vars
  BY <1>19 DEF vars, TypeInv, TypeOK
<1> QED  BY <1>1, <1>2, <1>3, <1>4, <1>5, <1>6, <1>7, <1>8, <1>9, <1>10, <1>11, <1>12, <1>13,
            <1>14, <1>15, <1>16, <1>17, <1>18, <1>19 DEF Next, Client

\* Every variable keeps its type, and no node id is granted that the pod does not ask for.
THEOREM MgmTypeCorrect == Spec => []TypeOK
<1>1. Init => TypeInv
  BY TypeInit
<1>2. TypeInv /\ [Next]_vars => TypeInv'
  BY TypeStep
<1>3. TypeInv => TypeOK
  BY DEF TypeInv
<1> QED  BY <1>1, <1>2, <1>3, PTL DEF Spec

-----------------------------------------------------------------------------
(* Commands, lines and replies *)

\* All nodes of the cluster, if its data nodes are c.
NodesOf(c) == 1..Mgmds \cup DOMAIN c \cup {ApiNode}
Nodes == NodesOf(cluster)

\* The commands a program can send.
CommandsSent ==
    {GetStatus} \cup {GetConfig(n, key) : n \in Nat, key \in Nat}
    \cup {TryReserveNodeId(n) : n \in Nat} \cup {CreateNodeGroup(ns) : ns \in Seq(Nat)}

\* What a reply says of a node, or a status has of it.
NodeStatuses == [type : {"NDB", "MGM", "API", ""}, connected : BOOLEAN, group : Int]

\* The parts of a reply, and its lines.
Parts == {"header", "nodes", "type", "state", "details", "end", "content"}

\* A line names the command it answers.
Lines == [re : CommandsSent, part : Parts, node : Nat, ok : BOOLEAN, ns : NodeStatuses]

\* What is known of the data nodes all the time.
ClusterOK ==
    /\ IsFiniteSet(DOMAIN cluster)
    /\ \A n \in DOMAIN cluster : n \in Nat /\ n > Mgmds /\ n < ApiNode
    /\ cluster \in [DOMAIN cluster -> [type : {"NDB"}, connected : BOOLEAN, group : Int]]

\* The position of the empty line in a reply, and the number of lines, for data nodes c.
EndAt(cmd, c) == IF cmd = GetStatus THEN 2 * Cardinality(NodesOf(c)) + 3 ELSE 3
ReplyLen(cmd, c) == IF cmd.name = "get config_v2" THEN 4 ELSE EndAt(cmd, c)

\* A line about a node is true of data nodes, and the states of all nodes with
\* smaller ids come before it.
StatusLine(lines, i, c) ==
    /\ lines[i].part = "nodes" => lines[i].node = Cardinality(NodesOf(c))
    /\ lines[i].part \in {"type", "state"} =>
          /\ lines[i].node \in NodesOf(c)
          /\ lines[i].node \in DOMAIN c => lines[i].ns = c[lines[i].node]
          /\ lines[i].node \notin DOMAIN c => lines[i].ns.type # "NDB"
          /\ \A n \in NodesOf(c) : n < lines[i].node =>
                \E j \in 1..(i - 1) : lines[j].part = "state" /\ lines[j].node = n

\* The lines begin a reply to the command.
Begins(lines, cmd, c) ==
    /\ lines \in Seq(Lines)
    /\ Len(lines) <= ReplyLen(cmd, c)
    /\ \A i \in 1..Len(lines) :
          /\ lines[i].re = cmd
          /\ lines[i].part = "end" <=> i = EndAt(cmd, c)
          /\ lines[i].part = "header" <=> i = 1
          /\ cmd = GetStatus => StatusLine(lines, i, c)

\* The names tell the commands apart.
LEMMA CommandNames ==
    ASSUME NEW cmd \in CommandsSent
    PROVE  /\ cmd.name = "get status" => cmd = GetStatus
           /\ cmd.name \in {"get status", "get config_v2", "get nodeid", "create nodegroup"}
           /\ cmd.node \in Nat
           /\ cmd.nodes \in Seq(Nat)
           /\ cmd.name # "create nodegroup" => cmd.nodes = <<>>
<1>5. <<>> \in Seq(Nat)
  OBVIOUS
<1>1. ASSUME cmd = GetStatus
      PROVE  cmd.name = "get status" /\ cmd.node \in Nat /\ cmd.nodes = <<>>
  <2>1. GetStatus = [name |-> "get status", node |-> 0, key |-> 0, nodes |-> <<>>]
    BY DEF GetStatus, Command
  <2> QED  BY <1>1, <2>1
<1>2. ASSUME NEW n \in Nat, NEW key \in Nat, cmd = GetConfig(n, key)
      PROVE  /\ cmd.name = "get config_v2" /\ cmd.node \in Nat /\ cmd.nodes = <<>>
  BY <1>2 DEF GetConfig, Command
<1>3. ASSUME NEW n \in Nat, cmd = TryReserveNodeId(n)
      PROVE  /\ cmd.name = "get nodeid" /\ cmd.node \in Nat /\ cmd.nodes = <<>>
  BY <1>3 DEF TryReserveNodeId, Command
<1>4. ASSUME NEW ns \in Seq(Nat), cmd = CreateNodeGroup(ns)
      PROVE  /\ cmd.name = "create nodegroup" /\ cmd.node \in Nat /\ cmd.nodes \in Seq(Nat)
  BY <1>4 DEF CreateNodeGroup, Command
<1>6. \/ cmd = GetStatus \/ (\E n \in Nat, key \in Nat : cmd = GetConfig(n, key))
      \/ (\E n \in Nat : cmd = TryReserveNodeId(n)) \/ (\E ns \in Seq(Nat) : cmd = CreateNodeGroup(ns))
  BY DEF CommandsSent
<1> QED  BY <1>1, <1>2, <1>3, <1>4, <1>5, <1>6

\* The nodes of a cluster.
LEMMA NodesFinite ==
    ASSUME ClusterOK
    PROVE  /\ IsFiniteSet(Nodes) /\ Nodes \subseteq Nat /\ Cardinality(Nodes) \in Nat
           /\ DOMAIN AllNodes = Nodes
           /\ ApiNode \in Nodes \ DOMAIN cluster /\ \A n \in Nodes : n <= ApiNode \/ n \in 1..Mgmds
<1>1. Mgmds \in Nat /\ ApiNode \in Nat
  BY MgmClientAssumption
<1>2. IsFiniteSet(1..Mgmds) /\ IsFiniteSet({ApiNode})
  <2>1. Mgmds \in Int /\ 1 \in Int
    BY <1>1
  <2>2. IsFiniteSet(1..Mgmds)
    BY <2>1, FS_Interval
  <2> QED  BY <2>2, FS_Singleton
<1>3. IsFiniteSet(Nodes)
  BY <1>2, FS_Union DEF Nodes, NodesOf, ClusterOK
<1>4. Nodes \subseteq Nat
  BY <1>1 DEF Nodes, NodesOf, ClusterOK
<1>5. ApiNode \in Nodes \ DOMAIN cluster
  BY <1>1 DEF Nodes, NodesOf, ClusterOK
<1>6. \A n \in Nodes : n <= ApiNode \/ n \in 1..Mgmds
  BY <1>1 DEF Nodes, NodesOf, ClusterOK
<1>7. DOMAIN AllNodes = Nodes
  BY DEF AllNodes, Nodes, NodesOf
<1>8. Cardinality(Nodes) \in Nat
  BY <1>3, FS_CardinalityType
<1> QED  BY <1>3, <1>4, <1>5, <1>6, <1>7, <1>8

\* What the servers say of the nodes.
LEMMA TrueNodes ==
    ASSUME ClusterOK, NEW n \in Nodes
    PROVE  /\ AllNodes[n] \in NodeStatuses
           /\ n \in DOMAIN cluster => AllNodes[n] = cluster[n]
           /\ n \notin DOMAIN cluster => AllNodes[n].type # "NDB"
<1>1. AllNodes[n] = IF n <= Mgmds THEN NodeStatus("MGM", n \in up, Unknown)
                    ELSE IF n = ApiNode THEN NodeStatus("API", TRUE, Unknown)
                    ELSE cluster[n]
  BY DEF AllNodes, Nodes, NodesOf
<1>0. Unknown \in Int
  BY DEF Unknown
<1>a. ASSUME NEW b \in BOOLEAN, NEW t \in {"MGM", "API"}
      PROVE  NodeStatus(t, b, Unknown) \in NodeStatuses /\ NodeStatus(t, b, Unknown).type # "NDB"
  <2>1. t \in {"NDB", "MGM", "API", ""} /\ t # "NDB"
    OBVIOUS
  <2>2. NodeStatus(t, b, Unknown) = [type |-> t, connected |-> b, group |-> Unknown]
    BY DEF NodeStatus
  <2>3. ASSUME NEW ty \in {"NDB", "MGM", "API", ""}, NEW gr \in Int
        PROVE  [type |-> ty, connected |-> b, group |-> gr] \in NodeStatuses
    BY DEF NodeStatuses
  <2>4. [type |-> t, connected |-> b, group |-> Unknown].type = t
    OBVIOUS
  <2> QED  BY <1>0, <2>1, <2>2, <2>3, <2>4
<1>b. (n \in up) \in BOOLEAN
  OBVIOUS
<1>2. NodeStatus("MGM", n \in up, Unknown) \in NodeStatuses /\ NodeStatus("MGM", n \in up, Unknown).type # "NDB"
  BY <1>a, <1>b, Zenon
<1>3. NodeStatus("API", TRUE, Unknown) \in NodeStatuses /\ NodeStatus("API", TRUE, Unknown).type # "NDB"
  BY <1>a
<1>4. CASE n \in DOMAIN cluster
  <2>1. ~(n <= Mgmds) /\ n # ApiNode
    BY <1>4, MgmClientAssumption DEF ClusterOK
  <2>2. cluster[n] \in NodeStatuses
    <3>1. cluster[n] \in [type : {"NDB"}, connected : BOOLEAN, group : Int]
      BY <1>4 DEF ClusterOK
    <3> QED  BY <3>1 DEF NodeStatuses
  <2> QED  BY <1>1, <1>4, <2>1, <2>2
<1>5. CASE n \notin DOMAIN cluster
  <2>1. n <= Mgmds \/ n = ApiNode
    BY <1>5, MgmClientAssumption DEF Nodes, NodesOf
  <2> QED  BY <1>1, <1>2, <1>3, <1>5, <2>1
<1> QED  BY <1>4, <1>5

\* A line about nodes, field by field.
LEMMA NodeLines ==
    ASSUME NEW part \in Parts, NEW n \in Nat, NEW ns \in NodeStatuses
    PROVE  /\ NodeLine(part, n, ns) \in Lines
           /\ NodeLine(part, n, ns).re = GetStatus /\ NodeLine(part, n, ns).part = part
           /\ NodeLine(part, n, ns).node = n /\ NodeLine(part, n, ns).ns = ns
           /\ NodeLine(part, n, ns).ok = TRUE
<1> DEFINE none == NodeStatus("", FALSE, 0)
<1>0. Line(GetStatus, part) = [re |-> GetStatus, part |-> part, node |-> 0, ok |-> TRUE, ns |-> none]
  BY DEF Line
<1> DEFINE line == Line(GetStatus, part)
           moved == [line EXCEPT !.node = n]
<1>c. line = [re |-> GetStatus, part |-> part, node |-> 0, ok |-> TRUE, ns |-> none]
  BY <1>0
<1> HIDE DEF none
<1>a. moved = [re |-> GetStatus, part |-> part, node |-> n, ok |-> TRUE, ns |-> none]
  <2> HIDE DEF line
  <2>1. \A c, o, l : l = [re |-> c, part |-> part, node |-> 0, ok |-> o, ns |-> none] =>
            [l EXCEPT !.node = n] = [re |-> c, part |-> part, node |-> n, ok |-> o, ns |-> none]
    OBVIOUS
  <2> QED  BY <1>c, <2>1
<1>b. NodeLine(part, n, ns) = [moved EXCEPT !.ns = ns]
  <2>1. NodeLine(part, n, ns) = [line EXCEPT !.node = n, !.ns = ns]
    BY DEF NodeLine
  <2> HIDE DEF line
  <2> QED  BY <2>1
<1> HIDE DEF line, moved
<1>1. NodeLine(part, n, ns) = [re |-> GetStatus, part |-> part, node |-> n, ok |-> TRUE, ns |-> ns]
  BY <1>a, <1>b
<1>2. ASSUME NEW cmd \in CommandsSent
      PROVE  [re |-> cmd, part |-> part, node |-> n, ok |-> TRUE, ns |-> ns] \in Lines
  BY DEF Lines
<1>3. GetStatus \in CommandsSent
  BY DEF CommandsSent
<1> QED  BY <1>1, <1>2, <1>3

\* Any other line.
LEMMA PlainLines ==
    ASSUME NEW cmd \in CommandsSent, NEW part \in Parts
    PROVE  /\ Line(cmd, part) \in Lines
           /\ Line(cmd, part).re = cmd /\ Line(cmd, part).part = part
<1> DEFINE none == NodeStatus("", FALSE, 0)
<1>1. none \in NodeStatuses
  BY DEF NodeStatus, NodeStatuses
<1>2. Line(cmd, part) = [re |-> cmd, part |-> part, node |-> 0, ok |-> TRUE, ns |-> none]
  BY DEF Line
<1> HIDE DEF none
<1>3. ASSUME NEW k \in BOOLEAN
      PROVE  [re |-> cmd, part |-> part, node |-> 0, ok |-> k, ns |-> none] \in Lines
  BY <1>1 DEF Lines
<1>4. Line(cmd, part) \in Lines
  BY <1>2, <1>3, Zenon
<1> QED  BY <1>2, <1>4

\* The lines about the nodes: the states of smaller ids come first.
LEMMA StatusLinesFacts ==
    ASSUME ClusterOK
    PROVE  /\ StatusLines \in Seq(Lines) /\ Len(StatusLines) = 2 * Cardinality(Nodes)
           /\ \A i \in 1..(2 * Cardinality(Nodes)) :
                /\ StatusLines[i].re = GetStatus /\ StatusLines[i].ok = TRUE
                /\ StatusLines[i].part \in {"type", "state"}
                /\ StatusLines[i].node \in Nodes
                /\ StatusLines[i].ns = AllNodes[StatusLines[i].node]
                /\ \A n \in Nodes : n < StatusLines[i].node =>
                      \E j \in 1..(i - 1) : StatusLines[j].part = "state" /\ StatusLines[j].node = n
<1> DEFINE c == Cardinality(Nodes)
           ids == Sorted(Nodes)
           h(i) == (i + 1) \div 2
           kind(i) == IF i % 2 = 1 THEN "type" ELSE "state"
<1>1. IsFiniteSet(Nodes) /\ Nodes \subseteq Nat /\ DOMAIN AllNodes = Nodes
  BY NodesFinite
<1>2. /\ c \in Nat /\ ids \in [1..c -> Nodes]
      /\ \A n \in Nodes : \E i \in 1..c : ids[i] = n
      /\ \A i, j \in 1..c : i < j => ids[i] < ids[j]
  <2>1. Nodes \subseteq Int
    BY <1>1
  <2> QED  BY <1>1, <2>1, SortedFacts
<1>3. Len(ids) = c
  <2>1. ids = [i \in 1..c |-> ids[i]]
    BY <1>2
  <2> HIDE DEF ids, c
  <2> QED  BY <1>2, <2>1
<1>4. StatusLines = [i \in 1..(2 * c) |-> NodeLine(kind(i), ids[h(i)], AllNodes[ids[h(i)]])]
  BY <1>1, <1>3 DEF StatusLines
<1> HIDE DEF ids, c
<1>5. \A i \in 1..(2 * c) : h(i) \in 1..c
  BY <1>2
<1>6. ASSUME NEW i \in 1..(2 * c)
      PROVE  /\ StatusLines[i] = NodeLine(kind(i), ids[h(i)], AllNodes[ids[h(i)]])
             /\ StatusLines[i] \in Lines /\ StatusLines[i].re = GetStatus /\ StatusLines[i].ok = TRUE
             /\ StatusLines[i].part = kind(i) /\ StatusLines[i].node = ids[h(i)]
             /\ ids[h(i)] \in Nodes
             /\ StatusLines[i].ns = AllNodes[ids[h(i)]]
  <2>1. ids[h(i)] \in Nodes /\ ids[h(i)] \in Nat
    <3>1. h(i) \in 1..c
      BY <1>5
    <3> QED  BY <1>1, <1>2, <3>1
  <2>2. AllNodes[ids[h(i)]] \in NodeStatuses
    BY <2>1, TrueNodes
  <2>3. kind(i) \in Parts
    BY DEF Parts
  <2>4. StatusLines[i] = NodeLine(kind(i), ids[h(i)], AllNodes[ids[h(i)]])
    BY <1>4
  <2> HIDE DEF h, kind
  <2> DEFINE n == ids[h(i)]
             ns == AllNodes[n]
             part == kind(i)
  <2>5. n \in Nat /\ ns \in NodeStatuses /\ part \in Parts
    BY <2>1, <2>2, <2>3
  <2>6. StatusLines[i] = NodeLine(part, n, ns)
    BY <2>4
  <2>7. n \in Nodes
    BY <2>1
  <2> HIDE DEF n, ns, part
  <2>8. /\ NodeLine(part, n, ns) \in Lines
        /\ NodeLine(part, n, ns).re = GetStatus /\ NodeLine(part, n, ns).part = part
        /\ NodeLine(part, n, ns).node = n /\ NodeLine(part, n, ns).ns = ns
        /\ NodeLine(part, n, ns).ok = TRUE
    BY <2>5, NodeLines
  <2>9. /\ StatusLines[i] \in Lines /\ StatusLines[i].re = GetStatus /\ StatusLines[i].ok = TRUE
        /\ StatusLines[i].part = part /\ StatusLines[i].node = n /\ StatusLines[i].ns = ns
    BY <2>6, <2>8
  <2> QED  BY <2>6, <2>7, <2>9 DEF n, ns, part
<1>7. StatusLines \in Seq(Lines) /\ Len(StatusLines) = 2 * c
  <2>1. StatusLines \in [1..(2 * c) -> Lines]
    BY <1>4, <1>6
  <2>2. 2 * c \in Nat
    BY <1>2
  <2> QED  BY <2>1, <2>2
<1>8. ASSUME NEW i \in 1..(2 * c), NEW n \in Nodes, n < StatusLines[i].node
      PROVE  \E j \in 1..(i - 1) : StatusLines[j].part = "state" /\ StatusLines[j].node = n
  <2>1. PICK k \in 1..c : ids[k] = n
    BY <1>2
  <2>2. n < ids[h(i)] /\ h(i) \in 1..c /\ n \in Int /\ ids[h(i)] \in Int
    <3>1. StatusLines[i].node = ids[h(i)] /\ ids[h(i)] \in Nodes
      BY <1>6
    <3>2. h(i) \in 1..c
      BY <1>5
    <3> HIDE DEF h
    <3>3. \A m \in Nodes : m \in Int
      BY <1>1
    <3> QED  BY <1>8, <3>1, <3>2, <3>3
  <2>3. k < h(i)
    <3>1. CASE k = h(i)
      BY <2>1, <2>2, <3>1
    <3>2. CASE h(i) < k
      <4>1. ids[h(i)] < ids[k]
        BY <1>2, <2>2, <3>2
      <4> QED  BY <2>1, <2>2, <4>1
    <3>3. k \in Int /\ h(i) \in Int
      BY <2>2
    <3> HIDE DEF h
    <3> QED  BY <3>1, <3>2, <3>3
  <2>4. 2 * k \in 1..(i - 1) /\ 2 * k \in 1..(2 * c) /\ h(2 * k) = k /\ (2 * k) % 2 # 1
    BY <1>2, <2>3
  <2>5. StatusLines[2 * k].part = "state" /\ StatusLines[2 * k].node = n
    BY <1>6, <2>1, <2>4
  <2> QED  BY <2>4, <2>5
<1>9. \A i \in 1..(2 * c) : StatusLines[i].part \in {"type", "state"}
  <2> SUFFICES ASSUME NEW i \in 1..(2 * c)
               PROVE  StatusLines[i].part \in {"type", "state"}
    OBVIOUS
  <2>1. StatusLines[i].part = kind(i)
    BY <1>6
  <2> QED  BY <2>1
<1> QED  BY <1>6, <1>7, <1>8, <1>9 DEF c

\* A sequence with one element put before it.
LEMMA Prepended ==
    ASSUME NEW S, NEW s \in Seq(S), NEW x \in S,
           NEW u, u = <<x>> \o s
    PROVE  /\ u \in Seq(S) /\ Len(u) = Len(s) + 1 /\ u[1] = x
           /\ \A i \in 2..(Len(s) + 1) : u[i] = s[i - 1]
  OBVIOUS

\* A sequence with one more element.
LEMMA Extended ==
    ASSUME NEW S, NEW s \in Seq(S), NEW x \in S,
           NEW u, u = s \o <<x>>
    PROVE  /\ u \in Seq(S) /\ Len(u) = Len(s) + 1 /\ u[Len(s) + 1] = x
           /\ \A i \in 1..Len(s) : u[i] = s[i]
<1>1. u = Append(s, x)
  OBVIOUS
<1> QED  BY <1>1

\* Three or four elements one after the other.
Three(h, d, e) == <<h>> \o <<d>> \o <<e>> \o <<>>
Four(h, d, e, t) == <<h>> \o <<d>> \o <<e>> \o <<t>>

\* Their elements.
LEMMA FewElements ==
    ASSUME NEW S, NEW h \in S, NEW d \in S, NEW e \in S, NEW t \in S
    PROVE  /\ Three(h, d, e) \in Seq(S) /\ Len(Three(h, d, e)) = 3
           /\ Three(h, d, e)[1] = h /\ Three(h, d, e)[2] = d /\ Three(h, d, e)[3] = e
           /\ Four(h, d, e, t) \in Seq(S) /\ Len(Four(h, d, e, t)) = 4
           /\ Four(h, d, e, t)[1] = h /\ Four(h, d, e, t)[2] = d
           /\ Four(h, d, e, t)[3] = e /\ Four(h, d, e, t)[4] = t
<1>1. PICK r1 : r1 = <<h>>
  OBVIOUS
<1>2. r1 \in Seq(S) /\ Len(r1) = 1 /\ r1[1] = h
  BY <1>1
<1>3. PICK r2 : r2 = r1 \o <<d>>
  OBVIOUS
<1>4. r2 \in Seq(S) /\ Len(r2) = 2 /\ r2[1] = h /\ r2[2] = d
  <2>1. /\ r2 \in Seq(S) /\ Len(r2) = Len(r1) + 1 /\ r2[Len(r1) + 1] = d
        /\ \A i \in 1..Len(r1) : r2[i] = r1[i]
    BY <1>2, <1>3, Extended
  <2> QED  BY <1>2, <2>1
<1>5. PICK r3 : r3 = r2 \o <<e>>
  OBVIOUS
<1>6. r3 \in Seq(S) /\ Len(r3) = 3 /\ r3[1] = h /\ r3[2] = d /\ r3[3] = e
  <2>1. /\ r3 \in Seq(S) /\ Len(r3) = Len(r2) + 1 /\ r3[Len(r2) + 1] = e
        /\ \A i \in 1..Len(r2) : r3[i] = r2[i]
    BY <1>4, <1>5, Extended
  <2> QED  BY <1>4, <2>1
<1>7. ASSUME NEW v, v = <<h>> \o <<d>> \o <<e>> \o <<t>>
      PROVE  v \in Seq(S) /\ Len(v) = 4 /\ v[1] = h /\ v[2] = d /\ v[3] = e /\ v[4] = t
  <2>1. v = r3 \o <<t>>
    BY <1>1, <1>3, <1>5, <1>7, Zenon
  <2>2. /\ v \in Seq(S) /\ Len(v) = Len(r3) + 1 /\ v[Len(r3) + 1] = t
        /\ \A i \in 1..Len(r3) : v[i] = r3[i]
    BY <1>6, <2>1, Extended
  <2> HIDE <1>7
  <2> QED  BY <1>6, <2>2
<1>8. ASSUME NEW u, u = <<h>> \o <<d>> \o <<e>> \o <<>>
      PROVE  u = r3
  <2>1. u = r3 \o <<>>
    BY <1>1, <1>3, <1>5, <1>8, Zenon
  <2> QED  BY <1>6, <2>1
<1>9. Three(h, d, e) = r3
  BY <1>8 DEF Three
<1>10. \A v : v = Four(h, d, e, t) =>
            v \in Seq(S) /\ Len(v) = 4 /\ v[1] = h /\ v[2] = d /\ v[3] = e /\ v[4] = t
  BY <1>7, Zenon DEF Four
<1> QED  BY <1>6, <1>9, <1>10, Zenon

\* The empty sequence is a sequence of anything.
LEMMA NoElements ==
    ASSUME NEW S
    PROVE  <<>> \in Seq(S)
OBVIOUS

\* Parts of sequences.
LEMMA TailOf ==
    ASSUME NEW S, NEW s \in Seq(S), s # <<>>
    PROVE  /\ Tail(s) \in Seq(S) /\ Len(Tail(s)) = Len(s) - 1
           /\ \A i \in 1..Len(Tail(s)) : i + 1 \in 1..Len(s) /\ Tail(s)[i] = s[i + 1]
OBVIOUS

\* Two sequences of the same elements, one after the other.
LEMMA Concatenated ==
    ASSUME NEW S, NEW s \in Seq(S), NEW t \in Seq(S)
    PROVE  s \o t \in Seq(S) /\ (s = <<>> => s \o t = t)
OBVIOUS

\* The first element of a sequence.
LEMMA HeadOf ==
    ASSUME NEW S, NEW s \in Seq(S), s # <<>>
    PROVE  Head(s) \in S /\ Head(s) = s[1] /\ 1 \in 1..Len(s)
OBVIOUS

\* A sequence has a length.
LEMMA LenType ==
    ASSUME NEW S, NEW s \in Seq(S)
    PROVE  Len(s) \in Nat
OBVIOUS

\* What comes before an index is an index.
LEMMA Earlier ==
    \A k \in Nat : \A i \in 1..k : \A j \in 1..(i - 1) : j \in 1..k
OBVIOUS

\* The indices of a prefix.
LEMMA Within ==
    \A k, m \in Nat : k <= m => \A i \in 1..k : i \in 1..m
OBVIOUS

\* A sequence of one element.
LEMMA OneElement ==
    ASSUME NEW x, NEW s, s = <<x>>
    PROVE  Head(s) = x /\ Tail(s) = <<>> /\ s # <<>> /\ Len(s) = 1 /\ s[1] = x
OBVIOUS

\* A few positions.
LEMMA Positions ==
    /\ \A i \in 1..3 : i = 1 \/ i = 2 \/ i = 3
    /\ \A i \in 1..4 : i = 1 \/ i = 2 \/ i = 3 \/ i = 4
OBVIOUS

\* A reply with one line of details.
LEMMA ShortReply ==
    ASSUME NEW c, NEW cmd \in CommandsSent, cmd # GetStatus, NEW r \in Seq(Lines),
           NEW n, n = Len(r), n = ReplyLen(cmd, c),
           r[1].re = cmd, r[1].part = "header", r[2].re = cmd, r[2].part = "details",
           r[3].re = cmd, r[3].part = "end", n = 4 => r[4].re = cmd /\ r[4].part = "content"
    PROVE  Begins(r, cmd, c)
<1>1. EndAt(cmd, c) = 3 /\ (n = 3 \/ n = 4)
  BY DEF EndAt, ReplyLen
<1>2. \A i \in 1..n : i = 1 \/ i = 2 \/ i = 3 \/ (i = 4 /\ n = 4)
  BY <1>1, Positions
<1>3. 1 # 2 /\ 1 # 3 /\ 1 # 4 /\ 2 # 3 /\ 3 # 4 /\ 3 <= 3 /\ 4 <= 4
  OBVIOUS
<1>4. ASSUME NEW i \in 1..n
      PROVE  /\ r[i].re = cmd
             /\ r[i].part = "end" <=> i = 3
             /\ r[i].part = "header" <=> i = 1
  BY <1>2, <1>3, Zenon
<1>5. Len(r) <= ReplyLen(cmd, c)
  BY <1>1, <1>3
<1> QED  BY <1>1, <1>4, <1>5, Zenon DEF Begins

\* Every short reply.
LEMMA ShortReplies ==
    ASSUME NEW c, NEW cmd \in CommandsSent, cmd # GetStatus
    PROVE  /\ Begins(Reply(cmd), cmd, c)
           /\ \A i \in 1..Len(Reply(cmd)) :
                 Reply(cmd)[i].part = "details" /\ cmd.name = "get nodeid" =>
                    Reply(cmd)[i].ok = (cmd.node \in free)
<1> DEFINE b == cmd.node \in free
           h == Line(cmd, "header")
           e == Line(cmd, "end")
           t == Line(cmd, "content")
           p == Line(cmd, "details")
           q == [p EXCEPT !.ok = b]
           d == IF cmd.name = "get nodeid" THEN q ELSE p
           r == Reply(cmd)
           u == Three(h, d, e)
           v == Four(h, d, e, t)
<1>0. "header" \in Parts /\ "end" \in Parts /\ "content" \in Parts /\ "details" \in Parts
  BY DEF Parts
<1>1. /\ h \in Lines /\ h.re = cmd /\ h.part = "header"
      /\ e \in Lines /\ e.re = cmd /\ e.part = "end"
      /\ t \in Lines /\ t.re = cmd /\ t.part = "content"
      /\ p \in Lines /\ p.re = cmd /\ p.part = "details"
      /\ q \in Lines /\ q.re = cmd /\ q.part = "details" /\ q.ok = b
  <2>1. h \in Lines /\ h.re = cmd /\ h.part = "header"
    BY <1>0, PlainLines, Zenon
  <2>2. e \in Lines /\ e.re = cmd /\ e.part = "end"
    BY <1>0, PlainLines, Zenon
  <2>3. t \in Lines /\ t.re = cmd /\ t.part = "content"
    BY <1>0, PlainLines, Zenon
  <2>4. p \in Lines /\ p.re = cmd /\ p.part = "details"
    BY <1>0, PlainLines, Zenon
  <2>5. q \in Lines /\ q.re = cmd /\ q.part = "details" /\ q.ok = b
    <3>1. b \in BOOLEAN
      OBVIOUS
    <3> DEFINE none == NodeStatus("", FALSE, 0)
    <3>2. none \in NodeStatuses
      BY DEF NodeStatus, NodeStatuses
    <3>3. p = [re |-> cmd, part |-> "details", node |-> 0, ok |-> TRUE, ns |-> none]
      BY DEF Line
    <3> HIDE DEF b, none, p
    <3>4. q = [re |-> cmd, part |-> "details", node |-> 0, ok |-> b, ns |-> none]
      BY <3>3
    <3>5. ASSUME NEW k \in BOOLEAN
          PROVE  [re |-> cmd, part |-> "details", node |-> 0, ok |-> k, ns |-> none] \in Lines
      BY <1>0, <3>2 DEF Lines
    <3> HIDE DEF q
    <3>6. q \in Lines
      BY <3>1, <3>4, <3>5, Zenon
    <3> QED  BY <3>4, <3>6
  <2> QED  BY <2>1, <2>2, <2>3, <2>4, <2>5
<1>2. r = IF cmd.name = "get config_v2" THEN v ELSE u
  <2>1. cmd.name # "get status"
    BY CommandNames
  <2>2. "get config_v2" # "get nodeid"
    OBVIOUS
  <2>3. r = <<h>> \o <<d>> \o <<e>> \o (IF cmd.name = "get config_v2" THEN <<t>> ELSE <<>>)
    <3>1. CASE cmd.name = "get nodeid"
      BY <2>1, <3>1 DEF Reply
    <3>2. CASE cmd.name # "get nodeid"
      BY <2>1, <3>2 DEF Reply
    <3> QED  BY <3>1, <3>2
  <2> HIDE DEF r, d, h, e, t
  <2> QED  BY <2>3 DEF Three, Four
<1>3. d \in Lines /\ d.re = cmd /\ d.part = "details" /\ (cmd.name = "get nodeid" => d.ok = b)
  <2> HIDE DEF b, p, q
  <2> QED  BY <1>1
<1> HIDE DEF b, h, e, t, p, q, d, r
<1>4. /\ u \in Seq(Lines) /\ Len(u) = 3 /\ u[1] = h /\ u[2] = d /\ u[3] = e
      /\ v \in Seq(Lines) /\ Len(v) = 4 /\ v[1] = h /\ v[2] = d /\ v[3] = e /\ v[4] = t
  <2>1. h \in Lines /\ d \in Lines /\ e \in Lines /\ t \in Lines
    BY <1>1, <1>3
  <2> QED  BY <2>1, FewElements
<1> HIDE DEF u, v
<1>5. ReplyLen(cmd, c) = IF cmd.name = "get config_v2" THEN 4 ELSE 3
  BY DEF ReplyLen, EndAt
<1>6. /\ r \in Seq(Lines) /\ Len(r) = ReplyLen(cmd, c) /\ r[1] = h /\ r[2] = d /\ r[3] = e
      /\ Len(r) = 4 => r[4] = t
  <2>1. 3 # 4
    OBVIOUS
  <2> QED  BY <1>2, <1>4, <1>5, <2>1, Zenon
<1>7. Begins(r, cmd, c)
  BY <1>1, <1>3, <1>6, ShortReply, Zenon
<1>8. ASSUME NEW i \in 1..Len(r), r[i].part = "details", cmd.name = "get nodeid"
      PROVE  r[i].ok = b
  <2>1. Len(r) = 3
    BY <1>5, <1>6, <1>8
  <2>2. i = 1 \/ i = 2 \/ i = 3
    BY <2>1, Positions
  <2> QED  BY <1>1, <1>3, <1>6, <1>8, <2>2
<1> QED  BY <1>7, <1>8 DEF b, r

\* The lines of a status.
LEMMA StatusReply ==
    ASSUME ClusterOK
    PROVE  Begins(Reply(GetStatus), GetStatus, cluster)
<1> DEFINE h == Line(GetStatus, "header")
           e == Line(GetStatus, "end")
           c == Cardinality(Nodes)
           k == NodeLine("nodes", c, NodeStatus("", FALSE, 0))
           b == StatusLines
           r == Reply(GetStatus)
<1>1. GetStatus \in CommandsSent /\ c \in Nat /\ DOMAIN AllNodes = Nodes
  BY NodesFinite DEF CommandsSent
<1> HIDE DEF r
<1>2. h \in Lines /\ e \in Lines /\ h.re = GetStatus /\ h.part = "header" /\ e.re = GetStatus /\ e.part = "end"
  <2>1. "header" \in Parts /\ "end" \in Parts
    BY DEF Parts
  <2>2. h \in Lines /\ h.re = GetStatus /\ h.part = "header"
    BY <1>1, <2>1, PlainLines, Zenon
  <2>3. e \in Lines /\ e.re = GetStatus /\ e.part = "end"
    BY <1>1, <2>1, PlainLines, Zenon
  <2> QED  BY <2>2, <2>3
<1>3. k \in Lines /\ k.re = GetStatus /\ k.part = "nodes" /\ k.node = c
  <2> DEFINE none == NodeStatus("", FALSE, 0)
  <2>1. none \in NodeStatuses
    BY DEF NodeStatus, NodeStatuses
  <2>2. "nodes" \in Parts
    BY DEF Parts
  <2>3. k = NodeLine("nodes", c, none)
    OBVIOUS
  <2> HIDE DEF none, k, c
  <2>4. NodeLine("nodes", c, none) \in Lines
    BY <1>1, <2>1, <2>2, NodeLines, Zenon
  <2>5. PICK part \in Parts : part = "nodes"
    BY <2>2
  <2>6. /\ NodeLine(part, c, none) \in Lines
        /\ NodeLine(part, c, none).re = GetStatus /\ NodeLine(part, c, none).part = part
        /\ NodeLine(part, c, none).node = c /\ NodeLine(part, c, none).ns = none
        /\ NodeLine(part, c, none).ok = TRUE
    BY <1>1, <2>1, NodeLines
  <2> QED  BY <2>3, <2>4, <2>5, <2>6
<1>4. /\ b \in Seq(Lines) /\ Len(b) = 2 * c
      /\ \A i \in 1..(2 * c) :
            /\ b[i].re = GetStatus
            /\ b[i].part \in {"type", "state"}
            /\ b[i].node \in Nodes
            /\ b[i].ns = AllNodes[b[i].node]
            /\ \A n \in Nodes : n < b[i].node =>
                  \E j \in 1..(i - 1) : b[j].part = "state" /\ b[j].node = n
  BY StatusLinesFacts
<1>5. r = <<h>> \o (<<k>> \o b) \o <<e>> \o <<>>
  BY <1>1 DEF r, Reply, GetStatus, Command
<1> HIDE DEF h, e, c, k, b
<1>6. /\ r \in Seq(Lines) /\ Len(r) = 2 * c + 3
      /\ r[1] = h /\ r[2] = k /\ r[2 * c + 3] = e
      /\ \A i \in 3..(2 * c + 2) : r[i] = b[i - 2]
  <2> DEFINE s == <<k>> \o b
             t == <<h>> \o s
             u == t \o <<e>>
  <2>1. s \in Seq(Lines) /\ Len(s) = 2 * c + 1 /\ s[1] = k /\ \A i \in 2..(2 * c + 1) : s[i] = b[i - 1]
    <3>1. s = <<k>> \o b
      OBVIOUS
    <3>2. k \in Lines /\ b \in Seq(Lines)
      BY <1>3, <1>4
    <3> HIDE DEF s
    <3>3. /\ s \in Seq(Lines) /\ Len(s) = Len(b) + 1 /\ s[1] = k
          /\ \A i \in 2..(Len(b) + 1) : s[i] = b[i - 1]
      BY <3>1, <3>2, Prepended
    <3> QED  BY <1>1, <1>4, <3>3
  <2> HIDE DEF s
  <2>2. /\ t \in Seq(Lines) /\ Len(t) = 2 * c + 2 /\ t[1] = h
        /\ \A i \in 2..(2 * c + 2) : t[i] = s[i - 1]
    BY <1>1, <1>2, <2>1
  <2>3. t[2] = k /\ \A i \in 3..(2 * c + 2) : t[i] = b[i - 2]
    <3>1. t[2] = s[1]
      BY <1>1, <2>2
    <3>2. ASSUME NEW i \in 3..(2 * c + 2)
          PROVE  t[i] = b[i - 2]
      <4>1. t[i] = s[i - 1] /\ i - 1 \in 2..(2 * c + 1) /\ (i - 1) - 1 = i - 2
        BY <1>1, <2>2
      <4>2. s[i - 1] = b[(i - 1) - 1]
        BY <2>1, <4>1
      <4> QED  BY <4>1, <4>2
    <3> QED  BY <2>1, <3>1, <3>2
  <2> HIDE DEF t
  <2>4. /\ u \in Seq(Lines) /\ Len(u) = 2 * c + 3 /\ u[2 * c + 3] = e
        /\ \A i \in 1..(2 * c + 2) : u[i] = t[i]
    <3>1. /\ u \in Seq(Lines) /\ Len(u) = Len(t) + 1 /\ u[Len(t) + 1] = e
          /\ \A i \in 1..Len(t) : u[i] = t[i]
      BY <1>2, <2>2, Extended
    <3>2. Len(t) + 1 = 2 * c + 3
      BY <1>1, <2>2
    <3> QED  BY <2>2, <3>1, <3>2
  <2> HIDE DEF u
  <2>5. r = u
    <3>1. u \o <<>> = u
      BY <2>4
    <3> QED  BY <1>5, <3>1 DEF s, t, u
  <2> QED  BY <1>1, <2>2, <2>3, <2>4, <2>5
<1>7. EndAt(GetStatus, cluster) = 2 * c + 3 /\ ReplyLen(GetStatus, cluster) = 2 * c + 3
  BY DEF EndAt, ReplyLen, GetStatus, Command, Nodes, c
<1>8. ASSUME NEW i \in 1..(2 * c + 3)
      PROVE  /\ r[i].re = GetStatus
             /\ r[i].part = "end" <=> i = 2 * c + 3
             /\ r[i].part = "header" <=> i = 1
             /\ StatusLine(r, i, cluster)
  <2>1. CASE i = 1
    <3>1. i # 2 * c + 3
      BY <1>1, <2>1
    <3> QED  BY <1>2, <1>6, <2>1, <3>1 DEF StatusLine
  <2>2. CASE i = 2
    <3>1. i # 2 * c + 3
      BY <1>1, <2>2
    <3> QED  BY <1>3, <1>6, <2>2, <3>1 DEF StatusLine, Nodes, c
  <2>3. CASE i = 2 * c + 3
    <3>1. i # 1
      BY <1>1, <2>3
    <3> QED  BY <1>2, <1>6, <2>3, <3>1 DEF StatusLine
  <2>4. CASE i \in 3..(2 * c + 2)
    <3>1. i # 1 /\ i # 2 * c + 3 /\ i - 2 \in 1..(2 * c)
      BY <1>1, <2>4
    <3>2. /\ r[i] = b[i - 2] /\ r[i].re = GetStatus /\ r[i].part \in {"type", "state"}
          /\ r[i].node \in Nodes /\ r[i].ns = AllNodes[r[i].node]
      BY <1>4, <1>6, <2>4, <3>1
    <3>3. /\ r[i].node \in DOMAIN cluster => r[i].ns = cluster[r[i].node]
          /\ r[i].node \notin DOMAIN cluster => r[i].ns.type # "NDB"
      BY <3>2, TrueNodes
    <3>4. ASSUME NEW n \in Nodes, n < r[i].node
          PROVE  \E j \in 1..(i - 1) : r[j].part = "state" /\ r[j].node = n
      <4>1. PICK j \in 1..(i - 2 - 1) : b[j].part = "state" /\ b[j].node = n
        BY <1>4, <3>1, <3>2, <3>4
      <4>2. j + 2 \in 3..(2 * c + 2) /\ j + 2 \in 1..(i - 1) /\ (j + 2) - 2 = j
        BY <1>1, <2>4
      <4>3. r[j + 2] = b[j]
        BY <1>6, <4>2
      <4> QED  BY <4>1, <4>2, <4>3
    <3> QED  BY <3>1, <3>2, <3>3, <3>4 DEF StatusLine, Nodes
  <2>5. i = 1 \/ i = 2 \/ i = 2 * c + 3 \/ i \in 3..(2 * c + 2)
    BY <1>1
  <2> QED  BY <2>1, <2>2, <2>3, <2>4, <2>5
<1>9. Len(r) <= ReplyLen(GetStatus, cluster)
  BY <1>1, <1>6, <1>7
<1> QED  BY <1>6, <1>7, <1>8, <1>9 DEF Begins, r

-----------------------------------------------------------------------------
(* The invariant of the conversation: one command at a time *)

\* Nothing has gone wrong that an initializer goes on after over the same connection.
Clean == pc \notin {"done", "failed"} /\ ~(program \in Initializers /\ stage = "work" /\ timeouts # 0)

\* One command at a time: what is on the wire is a reply to the first one of todo.
Exchange ==
    Clean =>
        /\ pc # "reply" => wire = <<>> /\ requests = <<>>
        /\ pc = "reply" => \/ requests = <<Head(todo)>> /\ wire = <<>>
                           \/ requests = <<>> /\ Begins(wire, Head(todo), cluster)

\* The client and the server deal with commands and lines only.
Sequences ==
    todo \in Seq(CommandsSent) /\ requests \in Seq(CommandsSent) /\ wire \in Seq(Lines)

\* Where in the program which variables may be in use.
Flow ==
    /\ pc \in {"dns", "connect"} =>
          stage = "status" /\ todo = <<>> /\ status = NoStatus /\ ~conn.open
    /\ stage = "status" /\ pc \notin {"dns", "connect", "failed"} => HasStatus
    /\ pc = "reply" => todo # <<>>
    /\ pc = "failure handling" => program = "initialize data node" /\ stage = "work" /\ todo = <<>>
    /\ pc = "done" => stage = "work"
    /\ pc \in {"done", "failed"} /\ program # "memory" => ~conn.open
    /\ requests # <<>> => conn.open

\* The data nodes are those the program found, until it creates node groups.
Original == stage = "status" \/ program # "createNodeGroups"
\* So far it is one of the clusters the program may find.
ClusterFound == Original => cluster \in Clusters[program]

\* Only createNodeGroups sends commands that change the data nodes.
NoNodes(cmds) == \A i \in 1..Len(cmds) : cmds[i].nodes = <<>>
\* Until then no command to be sent or answered creates a node group.
Harmless == Original => NoNodes(todo) /\ NoNodes(requests)

\* In GetStatus: the command of its own, or a lookup of an unknown node group.
StatusTodo ==
    stage = "status" /\ todo # <<>> =>
        \/ todo = <<GetStatus>>
        \/ status # NoStatus /\ \E n \in Ungrouped : todo = <<GetConfig(n, Nodegroup)>>

\* What a status s says of the data nodes c is true as far as it goes.  The type of
\* the API node comes after the states of all data nodes.
Truthful(s, c) ==
    /\ s = [declared |-> s.declared, typed |-> s.typed,
            nodes |-> [n \in DOMAIN s.nodes |-> s.nodes[n]]]
    /\ s.declared = Cardinality(NodesOf(c))
    /\ s.typed \subseteq DOMAIN s.nodes /\ DOMAIN s.nodes \subseteq NodesOf(c)
    /\ \A n \in DOMAIN s.nodes :
          s.nodes[n] = NodeStatus(s.nodes[n].type, s.nodes[n].connected, s.nodes[n].group)
    /\ \A n \in s.typed : IsDataNode(s.nodes[n]) <=> n \in DOMAIN c
    /\ ApiNode \in s.typed =>
          \A n \in DOMAIN c \cap s.typed : s.nodes[n].connected = c[n].connected

\* The node groups are known, or true.
GroupsTrue(s, c) ==
    ApiNode \in s.typed =>
        \A n \in DOMAIN c \cap s.typed :
            /\ c[n].connected => s.nodes[n].group = c[n].group
            /\ ~c[n].connected /\ GroupsReadable => s.nodes[n].group \in {Unknown, c[n].group}

\* What has been read of the status is true, the node groups until they are changed.
StatusRead ==
    status # NoStatus =>
        Truthful(status, cluster) /\ (Original => GroupsTrue(status, cluster))

\* The lookups tell the node groups.
AnswersTrue ==
    Original /\ HasStatus /\ GroupsReadable =>
        \A n \in DOMAIN cluster : ~cluster[n].connected =>
            answers[GetConfig(n, Nodegroup)].v = cluster[n].group

\* The conversation with the management server.
ConvInv ==
    /\ TypeInv /\ ClusterOK /\ Sequences
    /\ Flow /\ ClusterFound /\ Harmless /\ StatusTodo
    /\ Exchange /\ StatusRead /\ AnswersTrue

\* What a step leaves alone if it leaves the environment and the status alone.
LEMMA EnvKept ==
    ASSUME ConvInv, UNCHANGED <<program, cluster, answers>>,
           status' \in {status, NoStatus}, stage' = "status" => stage = "status"
    PROVE  ClusterOK' /\ ClusterFound' /\ AnswersTrue' /\ StatusRead'
<1>1. Original' => Original
  BY DEF Original
<1>2. Nodes' = Nodes
  BY DEF Nodes, NodesOf
<1>3. ClusterOK'
  BY DEF ConvInv, ClusterOK
<1>4. ClusterFound'
  BY <1>1 DEF ConvInv, ClusterFound
<1>5. AnswersTrue'
  BY <1>1 DEF ConvInv, AnswersTrue, HasStatus
<1>6. NoStatus' = NoStatus
  BY DEF NoStatus
<1>7. StatusRead'
  <2>1. CASE status' = NoStatus
    BY <1>6, <2>1 DEF StatusRead
  <2>2. CASE status' = status
    BY <1>1, <1>2, <1>6, <2>2 DEF ConvInv, StatusRead
  <2> QED  BY <2>1, <2>2
<1> QED  BY <1>3, <1>4, <1>5, <1>7

\* No commands at all change nothing.
LEMMA NoCommands ==
    ASSUME NEW s, s = <<>>
    PROVE  NoNodes(s)
BY DEF NoNodes

\* A step that has nothing to do with the conversation.
LEMMA QuietKept ==
    ASSUME ConvInv, TypeInv',
           UNCHANGED <<program, cluster, answers, todo, requests, wire, status, stage, timeouts>>,
           conn'.open = conn.open,
           pc' = pc \/ (pc \in {"dns", "connect"} /\ pc' \in {"dns", "connect", "failed"})
    PROVE  ConvInv'
<1>1. ClusterOK' /\ ClusterFound' /\ AnswersTrue' /\ StatusRead'
  BY EnvKept
<1>2. Sequences'
  BY DEF ConvInv, Sequences
<1>3. Flow'
  BY DEF ConvInv, Flow, HasStatus, NoStatus
<1>4. Harmless'
  BY DEF ConvInv, Harmless, Original, NoNodes
<1>5. StatusTodo'
  BY DEF ConvInv, StatusTodo, Ungrouped, NoStatus
<1>6. Exchange'
  BY DEF ConvInv, Exchange, Clean
<1> QED  BY <1>1, <1>2, <1>3, <1>4, <1>5, <1>6 DEF ConvInv

\* It has not begun in the first state.
LEMMA ConvInit ==
    ASSUME Init
    PROVE  ConvInv
<1>1. TypeInv
  BY TypeInit
<1>2. /\ program \in Programs /\ cluster \in Clusters[program]
      /\ conn = NoConn /\ requests = <<>> /\ wire = <<>> /\ stage = "status" /\ todo = <<>>
      /\ status = NoStatus /\ (pc = "dns" \/ pc = "connect")
  BY DEF Init
<1>3. /\ IsFiniteSet(DOMAIN cluster) /\ \A n \in DOMAIN cluster : n \in Nat /\ n > Mgmds /\ n < ApiNode
      /\ cluster \in [DOMAIN cluster -> [type : {"NDB"}, connected : BOOLEAN, group : Int \ {Unknown}]]
  BY <1>2, ClusterAssumption
<1>4. ClusterOK
  <2>1. cluster \in [DOMAIN cluster -> [type : {"NDB"}, connected : BOOLEAN, group : Int]]
    BY <1>3
  <2> QED  BY <1>3, <2>1 DEF ClusterOK
<1>5. Sequences
  BY <1>2 DEF Sequences
<1>6. Flow
  BY <1>2 DEF Flow, NoConn
<1>7. ClusterFound
  BY <1>2 DEF ClusterFound
<1>8. Harmless
  BY <1>2 DEF Harmless, NoNodes
<1>9. StatusTodo /\ StatusRead
  BY <1>2 DEF StatusTodo, StatusRead
<1>10. Exchange
  BY <1>2 DEF Exchange
<1>11. AnswersTrue
  <2> SUFFICES ASSUME HasStatus, GroupsReadable, NEW n \in DOMAIN cluster, ~cluster[n].connected
               PROVE  answers[GetConfig(n, Nodegroup)].v = cluster[n].group
    BY DEF AnswersTrue
  <2>1. program # "memory" /\ program \in Programs \ {"memory"}
    BY <1>2 DEF HasStatus
  <2>2. answers = [cmd \in Lookups |-> ReadValue(Pack(GroupConfig(cluster)), cmd)]
    BY <2>1 DEF Init
  <2>3. GetConfig(n, Nodegroup) \in Lookups
    BY <2>1 DEF Lookups
  <2>4. answers[GetConfig(n, Nodegroup)] = Uint32(cluster[n].group)
    BY <1>2, <2>1, <2>2, <2>3 DEF GroupsReadable
  <2> QED  BY <2>4 DEF Uint32
<1> QED  BY <1>1, <1>4, <1>5, <1>6, <1>7, <1>8, <1>9, <1>10, <1>11 DEF ConvInv

\* The commands a program starts with.
LEMMA FirstCommandsFacts ==
    /\ FirstCommands \in Seq(CommandsSent) /\ NoNodes(FirstCommands)
    /\ HasStatus => FirstCommands = <<GetStatus>>
<1>1. CASE program = "initialize MySQL Server"
  <2>1. FirstCommands = [i \in DOMAIN NodeIdPool |-> TryReserveNodeId(NodeIdPool[i])]
    BY <1>1 DEF FirstCommands
  <2>2. NodeIdPool \in Seq(Nat) /\ DOMAIN NodeIdPool = 1..Len(NodeIdPool) /\ Len(NodeIdPool) \in Nat
    BY MgmClientAssumption
  <2>3. \A i \in 1..Len(NodeIdPool) : NodeIdPool[i] \in Nat
    BY <2>2
  <2>4. \A n \in Nat : TryReserveNodeId(n) \in CommandsSent /\ TryReserveNodeId(n).nodes = <<>>
    <3>1. \A n \in Nat : TryReserveNodeId(n) \in CommandsSent
      BY DEF CommandsSent
    <3>2. \A n \in Nat : TryReserveNodeId(n).nodes = <<>>
      BY DEF TryReserveNodeId, Command
    <3> QED  BY <3>1, <3>2
  <2>5. FirstCommands \in [1..Len(NodeIdPool) -> CommandsSent]
    BY <2>1, <2>2, <2>3, <2>4
  <2>6. FirstCommands \in Seq(CommandsSent) /\ Len(FirstCommands) = Len(NodeIdPool)
    BY <2>2, <2>5
  <2>7. \A i \in 1..Len(NodeIdPool) : FirstCommands[i] = TryReserveNodeId(NodeIdPool[i])
    BY <2>1, <2>2
  <2>8. NoNodes(FirstCommands)
    BY <2>3, <2>4, <2>6, <2>7 DEF NoNodes
  <2> QED  BY <1>1, <2>6, <2>8 DEF HasStatus
<1>2. CASE program = "memory"
  <2>1. FirstCommands = [i \in DOMAIN MemoryParameters |-> GetConfig(0, MemoryParameters[i])]
    BY <1>2 DEF FirstCommands
  <2>2. /\ MemoryParameters \in Seq(Nat) /\ DOMAIN MemoryParameters = 1..Len(MemoryParameters)
        /\ Len(MemoryParameters) \in Nat
    BY DEF MemoryParameters, DataMemory, NoTables, NoAttributes, NoOrderedIndexes, NoUniqueHashIndexes, NoOps,
      TransBufferMem, IndexMem, RedoBuffer, LongSignalBuffer, DiskPageBufferMemory, Sga,
      TransactionMemory, NoRedologParts
  <2>3. \A i \in 1..Len(MemoryParameters) : MemoryParameters[i] \in Nat
    BY <2>2
  <2>4. \A n \in Nat : GetConfig(0, n) \in CommandsSent /\ GetConfig(0, n).nodes = <<>>
    <3>1. \A n \in Nat : GetConfig(0, n) \in CommandsSent
      BY DEF CommandsSent
    <3>2. \A n \in Nat : GetConfig(0, n).nodes = <<>>
      BY DEF GetConfig, Command
    <3> QED  BY <3>1, <3>2
  <2>5. FirstCommands \in [1..Len(MemoryParameters) -> CommandsSent]
    BY <2>1, <2>2, <2>3, <2>4
  <2>6. FirstCommands \in Seq(CommandsSent) /\ Len(FirstCommands) = Len(MemoryParameters)
    BY <2>2, <2>5
  <2>7. \A i \in 1..Len(MemoryParameters) : FirstCommands[i] = GetConfig(0, MemoryParameters[i])
    BY <2>1, <2>2
  <2>8. NoNodes(FirstCommands)
    BY <2>3, <2>4, <2>6, <2>7 DEF NoNodes
  <2> QED  BY <1>2, <2>6, <2>8 DEF HasStatus
<1>3. CASE program \notin {"initialize MySQL Server", "memory"}
  <2>1. FirstCommands = <<GetStatus>>
    BY <1>3 DEF FirstCommands
  <2>2. GetStatus \in CommandsSent /\ GetStatus.nodes = <<>>
    BY DEF CommandsSent, GetStatus, Command
  <2>3. <<GetStatus>> \in Seq(CommandsSent) /\ Len(<<GetStatus>>) = 1 /\ <<GetStatus>>[1] = GetStatus
    BY <2>2
  <2>4. NoNodes(<<GetStatus>>)
    BY <2>2, <2>3 DEF NoNodes
  <2> QED  BY <2>1, <2>3, <2>4
<1> QED  BY <1>1, <1>2, <1>3

\* A new connection has nothing to be read.
LEMMA ConvConnect ==
    ASSUME ConvInv, TypeInv', Connect
    PROVE  ConvInv'
<1>1. /\ pc = "connect" /\ pc' = "ready" /\ todo' = FirstCommands
      /\ stage' = IF HasStatus THEN "status" ELSE "work"
      /\ UNCHANGED <<program, cluster, answers, requests, wire, status>> /\ conn'.open = TRUE
  BY DEF Connect, env
<1>2. stage = "status" /\ status = NoStatus /\ wire = <<>> /\ requests = <<>>
  BY <1>1 DEF ConvInv, Flow, Exchange, Clean
<1>3. ClusterOK' /\ ClusterFound' /\ AnswersTrue' /\ StatusRead'
  BY <1>1, <1>2, EnvKept
<1>4. Sequences'
  BY <1>1, <1>2, FirstCommandsFacts DEF Sequences
<1>5. Flow'
  BY <1>1, <1>2 DEF Flow, HasStatus
<1>6. Harmless'
  <2>1. NoNodes(todo')
    BY <1>1, FirstCommandsFacts
  <2>2. NoNodes(requests')
    BY <1>1, <1>2 DEF NoNodes
  <2> QED  BY <2>1, <2>2 DEF Harmless
<1>7. StatusTodo'
  <2>1. stage' = "status" => HasStatus
    BY <1>1
  <2> QED  BY <1>1, <2>1, FirstCommandsFacts DEF StatusTodo
<1>8. Exchange'
  BY <1>1, <1>2 DEF Exchange
<1> QED  BY <1>3, <1>4, <1>5, <1>6, <1>7, <1>8 DEF ConvInv

\* What a failure leaves: nothing of the conversation, unless it is given up.
LEMMA ConvFails ==
    ASSUME ConvInv, TypeInv', Fails, pc \in {"ready", "reply"},
           UNCHANGED <<program, cluster, answers>>, wire' \in Seq(Lines),
           Clean' => wire' = <<>> /\ (pc' = "ready" => requests = <<>>)
    PROVE  ConvInv'
<1>1. stage' = stage /\ status' \in {status, NoStatus}
  BY DEF Fails
<1>2. ClusterOK' /\ ClusterFound' /\ AnswersTrue' /\ StatusRead'
  BY <1>1, EnvKept
<1>3. /\ todo \in Seq(CommandsSent) /\ requests \in Seq(CommandsSent)
      /\ requests # <<>> => conn.open
      /\ stage = "status" => HasStatus
  BY DEF ConvInv, Sequences, Flow
<1>4. CASE pc' = "ready" /\ stage = "work" /\ program \in Initializers /\ UNCHANGED <<conn, requests, todo, status>>
  <2>1. Sequences'
    BY <1>3, <1>4 DEF Sequences
  <2>2. Flow'
    BY <1>1, <1>3, <1>4 DEF Flow, HasStatus
  <2>3. Harmless'
    BY <1>1, <1>4 DEF ConvInv, Harmless, Original, NoNodes
  <2>4. StatusTodo'
    BY <1>1, <1>4 DEF StatusTodo
  <2>5. Exchange'
    BY <1>4 DEF Exchange
  <2> QED  BY <1>2, <2>1, <2>2, <2>3, <2>4, <2>5 DEF ConvInv
<1>5. CASE pc' = "dns" /\ stage = "status" /\ todo' = <<>> /\ status' = NoStatus /\ conn' = NoConn /\ requests' = <<>>
  <2>1. Sequences'
    BY <1>5 DEF Sequences
  <2>2. Flow'
    BY <1>1, <1>5 DEF Flow, NoConn, NoStatus
  <2>3. Harmless'
    BY <1>5 DEF Harmless, NoNodes
  <2>4. StatusTodo'
    BY <1>5 DEF StatusTodo
  <2>5. Exchange'
    BY <1>5 DEF Exchange
  <2> QED  BY <1>2, <2>1, <2>2, <2>3, <2>4, <2>5 DEF ConvInv
<1>6. CASE pc' = "failed" /\ todo' = <<>> /\ UNCHANGED <<stage, status>>
           /\ ((program = "memory" /\ UNCHANGED <<conn, requests>>) \/ (conn' = NoConn /\ requests' = <<>>))
  <2>1. Sequences'
    <3>1. <<>> \in Seq(CommandsSent)
      OBVIOUS
    <3>2. requests' = requests \/ requests' = <<>>
      BY <1>6
    <3>3. requests' \in Seq(CommandsSent)
      BY <1>3, <3>1, <3>2
    <3>4. todo' \in Seq(CommandsSent)
      BY <1>6, <3>1
    <3> QED  BY <3>3, <3>4 DEF Sequences
  <2>2. Flow'
    BY <1>1, <1>3, <1>6 DEF Flow, NoConn
  <2>3. Harmless'
    <3>1. NoNodes(todo')
      BY <1>6 DEF NoNodes
    <3>2. Original' => NoNodes(requests')
      BY <1>6 DEF ConvInv, Harmless, Original, NoNodes
    <3> QED  BY <3>1, <3>2 DEF Harmless
  <2>4. StatusTodo'
    BY <1>6 DEF StatusTodo
  <2>5. Exchange'
    BY <1>6 DEF Exchange, Clean
  <2> QED  BY <1>2, <2>1, <2>2, <2>3, <2>4, <2>5 DEF ConvInv
<1>7. \/ pc' = "ready" /\ stage = "work" /\ program \in Initializers /\ UNCHANGED <<conn, requests, todo, status>>
      \/ pc' = "dns" /\ stage = "status" /\ todo' = <<>> /\ status' = NoStatus /\ conn' = NoConn /\ requests' = <<>>
      \/ /\ pc' = "failed" /\ todo' = <<>> /\ UNCHANGED <<stage, status>>
         /\ ((program = "memory" /\ UNCHANGED <<conn, requests>>) \/ (conn' = NoConn /\ requests' = <<>>))
  <2> DEFINE keeps == program \in Initializers /\ stage = "work" /\ pc' = "ready" /\ UNCHANGED <<conn, requests, todo, status>>
             starts == stage = "status" /\ pc' = "dns" /\ todo' = <<>> /\ status' = NoStatus /\ conn' = NoConn /\ requests' = <<>>
             gives == pc' = "failed" /\ todo' = <<>> /\ UNCHANGED <<stage, status>>
             open == program = "memory" /\ UNCHANGED <<conn, requests>>
             closed == conn' = NoConn /\ requests' = <<>>
  <2>1. keeps \/ starts \/ (gives /\ open) \/ (gives /\ closed)
    BY DEF Fails
  <2> QED  BY <2>1
<1> QED  BY <1>4, <1>5, <1>6, <1>7

\* Nothing is left behind the reply that is read.
LEMMA LastLineFacts ==
    ASSUME NEW cmd, wire \in Seq(Lines), wire = <<>> \/ Begins(wire, cmd, cluster)
    PROVE  LastLine(cmd) = 0 \/ LastLine(cmd) = Len(wire)
<1> DEFINE ends == {i \in 2..Len(wire) : wire[i].part = "end"}
           e == EndAt(cmd, cluster)
<1>1. CASE ends = {}
  BY <1>1 DEF LastLine
<1>2. CASE ends # {}
  <2>1. PICK i \in ends : TRUE
    BY <1>2
  <2>2. Len(wire) \in Nat /\ i \in 2..Len(wire) /\ wire[i].part = "end"
    BY <2>1
  <2>3. wire # <<>>
    BY <2>2
  <2>4. Begins(wire, cmd, cluster)
    BY <2>3
  <2>5. \A j \in 1..Len(wire) : wire[j].part = "end" <=> j = e
    BY <2>4 DEF Begins
  <2>6. i = e /\ e \in 2..Len(wire) /\ ends = {e}
    <3>1. i \in 1..Len(wire)
      BY <2>2
    <3>2. i = e
      BY <2>2, <2>5, <3>1
    <3>3. \A j \in 2..Len(wire) : j \in 1..Len(wire)
      BY <2>2
    <3> QED  BY <2>2, <2>5, <3>2, <3>3
  <2>7. Min(ends) = e
    <3>1. \E x \in ends : \A y \in ends : x <= y
      <4>1. e <= e
        BY <2>6
      <4> QED  BY <2>6, <4>1
    <3>2. Min(ends) \in ends
      BY <3>1 DEF Min
    <3> QED  BY <2>6, <3>2
  <2>8. LastLine(cmd) = IF Expected(wire[1], cmd) /\ cmd.name = "get config_v2"
                        THEN IF e < Len(wire) THEN e + 1 ELSE 0
                        ELSE e
    BY <1>2, <2>7 DEF LastLine
  <2>9. CASE cmd.name = "get config_v2"
    <3>0. GetStatus.name = "get status"
      BY DEF GetStatus, Command
    <3>6. cmd # GetStatus
      BY <2>9, <3>0
    <3>1. e = 3 /\ ReplyLen(cmd, cluster) = 4
      BY <2>9, <3>6 DEF EndAt, ReplyLen
    <3>2. 1 \in 1..Len(wire)
      BY <2>2
    <3>3. Expected(wire[1], cmd)
      BY <2>4, <3>2 DEF Begins, Expected
    <3>4. Len(wire) <= 4
      BY <2>4, <3>1 DEF Begins
    <3>5. LastLine(cmd) = IF e < Len(wire) THEN e + 1 ELSE 0
      BY <2>8, <2>9, <3>3
    <3>7. 3 <= Len(wire)
      BY <2>2, <2>6, <3>1
    <3>8. LastLine(cmd) = IF 3 < Len(wire) THEN 3 + 1 ELSE 0
      BY <3>1, <3>5
    <3>9. \A k \in Nat : 3 <= k /\ k <= 4 => (3 < k /\ k = 3 + 1) \/ ~(3 < k)
      OBVIOUS
    <3>10. Len(wire) \in Nat
      BY <2>2
    <3> DEFINE k == Len(wire)
    <3> HIDE DEF k
    <3>11. (3 < k /\ k = 3 + 1) \/ ~(3 < k)
      BY <3>4, <3>7, <3>9, <3>10, Zenon DEF k
    <3> QED  BY <3>8, <3>11, Zenon DEF k
  <2>10. CASE cmd.name # "get config_v2"
    <3>1. LastLine(cmd) = e
      BY <2>8, <2>10
    <3>2. Len(wire) <= e
      BY <2>4, <2>10 DEF Begins, ReplyLen
    <3> HIDE DEF e
    <3> QED  BY <2>2, <2>6, <3>1, <3>2
  <2> QED  BY <2>9, <2>10
<1> QED  BY <1>1, <1>2

\* What follows the last line, and what comes before it.
LEMMA WholeWire ==
    ASSUME wire \in Seq(Lines), NEW last, last = 0 \/ last = Len(wire)
    PROVE  /\ (IF last = 0 THEN Len(wire) ELSE last) = Len(wire)
           /\ SubSeq(wire, Len(wire) + 1, Len(wire)) = <<>>
           /\ ReadUpTo(Len(wire)) => wire' = <<>>
           /\ Details(last) = {wire[i] : i \in 1..Len(wire)}
<1>1. Len(wire) \in Nat
  OBVIOUS
<1>2. (IF last = 0 THEN Len(wire) ELSE last) = Len(wire)
  OBVIOUS
<1>3. SubSeq(wire, Len(wire) + 1, Len(wire)) = <<>>
  BY <1>1
<1>4. ASSUME ReadUpTo(Len(wire))
      PROVE  wire' = <<>>
  <2>1. PICK more \in 0..(Len(wire) - Len(wire)) : wire' = SubSeq(wire, Len(wire) + more + 1, Len(wire))
    BY <1>4 DEF ReadUpTo
  <2>2. more = 0
    BY <1>1
  <2>3. Len(wire) + more + 1 = Len(wire) + 1
    BY <1>1, <2>2
  <2> QED  BY <1>3, <2>1, <2>3
<1> QED  BY <1>2, <1>3, <1>4 DEF Details

\* The end of a sequence of lines.
LEMMA RestOfWire ==
    ASSUME wire \in Seq(Lines), NEW n \in Nat
    PROVE  SubSeq(wire, n + 1, Len(wire)) \in Seq(Lines)
OBVIOUS

\* No lines at all begin any reply.
LEMMA EmptyBegins ==
    ASSUME ClusterOK, NEW cmd \in CommandsSent
    PROVE  Begins(<<>>, cmd, cluster)
<1>1. Cardinality(NodesOf(cluster)) \in Nat
  BY NodesFinite DEF Nodes
<1>2. Len(<<>>) = 0 /\ <<>> \in Seq(Lines) /\ \A i \in 1..0 : FALSE
  OBVIOUS
<1>3. 0 <= ReplyLen(cmd, cluster)
  <2>1. EndAt(cmd, cluster) = 2 * Cardinality(NodesOf(cluster)) + 3 \/ EndAt(cmd, cluster) = 3
    BY DEF EndAt
  <2>2. 0 <= EndAt(cmd, cluster)
    BY <1>1, <2>1
  <2>3. ReplyLen(cmd, cluster) = 4 \/ ReplyLen(cmd, cluster) = EndAt(cmd, cluster)
    BY DEF ReplyLen
  <2>4. 0 <= 4
    OBVIOUS
  <2> QED  BY <2>2, <2>3, <2>4
<1> QED  BY <1>2, <1>3 DEF Begins

\* Nothing is left to be read when a command is sent.
LEMMA ConvSend ==
    ASSUME ConvInv, TypeInv', SendCommand
    PROVE  ConvInv'
<1>1. /\ pc = "ready" /\ todo # <<>> /\ UNCHANGED <<program, cluster, answers, timeouts>>
  BY DEF SendCommand, env
<1>2. todo \in Seq(CommandsSent) /\ requests \in Seq(CommandsSent) /\ wire \in Seq(Lines)
  BY DEF ConvInv, Sequences
<1>3. Head(todo) \in CommandsSent /\ Head(todo) = todo[1] /\ Len(todo) >= 1
  BY <1>1, <1>2
<1>4. CASE /\ pc' = "reply" /\ requests' = (IF conn.open THEN Append(requests, Head(todo)) ELSE requests)
           /\ UNCHANGED <<conn, wire, stage, todo, status>>
  <2>1. ClusterOK' /\ ClusterFound' /\ AnswersTrue' /\ StatusRead'
    BY <1>1, <1>4, EnvKept
  <2>2. requests' \in Seq(CommandsSent)
    BY <1>2, <1>3, <1>4
  <2>3. Sequences'
    BY <1>2, <1>4, <2>2 DEF Sequences
  <2>4. Flow'
    BY <1>1, <1>4 DEF ConvInv, Flow, HasStatus
  <2>5. Harmless'
    <3>1. Original' => Original
      BY <1>1, <1>4 DEF Original
    <3>2. ASSUME Original
          PROVE  NoNodes(requests')
      <4>1. NoNodes(todo) /\ NoNodes(requests)
        BY <3>2 DEF ConvInv, Harmless
      <4>2. Head(todo).nodes = <<>>
        BY <1>2, <1>3, <4>1 DEF NoNodes
      <4>3. CASE conn.open
        <5>1. requests' = Append(requests, Head(todo))
          BY <1>4, <4>3
        <5>2. /\ Len(requests') = Len(requests) + 1 /\ requests'[Len(requests) + 1] = Head(todo)
              /\ \A i \in 1..Len(requests) : requests'[i] = requests[i]
          BY <1>2, <1>3, <5>1
        <5>3. \A i \in 1..Len(requests') : i \in 1..Len(requests) \/ i = Len(requests) + 1
          BY <1>2, <5>2
        <5> QED  BY <4>1, <4>2, <5>2, <5>3 DEF NoNodes
      <4>4. CASE ~conn.open
        BY <1>4, <4>1, <4>4
      <4> QED  BY <4>3, <4>4
    <3> QED  BY <1>4, <3>1, <3>2 DEF ConvInv, Harmless, NoNodes
  <2>6. StatusTodo'
    BY <1>4 DEF ConvInv, StatusTodo, Ungrouped, NoStatus
  <2>7. Exchange'
    <3> SUFFICES ASSUME Clean'
                 PROVE  \/ requests' = <<Head(todo')>> /\ wire' = <<>>
                        \/ requests' = <<>> /\ Begins(wire', Head(todo'), cluster')
      BY <1>4 DEF Exchange
    <3>1. Clean
      BY <1>1, <1>4 DEF Clean
    <3>2. wire = <<>> /\ requests = <<>>
      BY <1>1, <3>1 DEF ConvInv, Exchange
    <3>3. CASE conn.open
      <4>1. requests' = <<Head(todo)>>
        BY <1>4, <3>2, <3>3
      <4> QED  BY <1>4, <3>2, <4>1
    <3>4. CASE ~conn.open
      <4>1. requests' = <<>> /\ wire' = <<>>
        BY <1>4, <3>2, <3>4
      <4>2. Begins(<<>>, Head(todo), cluster)
        BY EmptyBegins, <1>3 DEF ConvInv
      <4> QED  BY <1>1, <1>4, <4>1, <4>2
    <3> QED  BY <3>3, <3>4
  <2> QED  BY <2>1, <2>3, <2>4, <2>5, <2>6, <2>7 DEF ConvInv
<1>5. CASE Fails /\ LeftAfterError(wire)
  <2>1. wire' = wire \/ wire' = <<>>
    BY <1>5 DEF LeftAfterError
  <2>2. wire' \in Seq(Lines)
    <3>1. <<>> \in Seq(Lines)
      OBVIOUS
    <3> QED  BY <1>2, <2>1, <3>1
  <2>3. Clean' => Clean
    BY <1>1, <1>5 DEF Clean, Fails
  <2>4. Clean' => wire' = <<>> /\ requests = <<>>
    BY <1>1, <2>1, <2>3 DEF ConvInv, Exchange
  <2> QED  BY <1>1, <1>5, <2>2, <2>4, ConvFails
<1> QED  BY <1>4, <1>5 DEF SendCommand

\* A node group is asked for by a command that GetStatus may send.
LEMMA ConvAskNodeGroup ==
    ASSUME ConvInv, TypeInv', AskNodeGroup
    PROVE  ConvInv'
<1>1. /\ pc = "ready" /\ pc' = "ready" /\ stage = "status" /\ todo = <<>>
      /\ UNCHANGED <<program, cluster, answers, conn, requests, wire, stage, status, timeouts>>
  BY DEF AskNodeGroup, env, link
<1>2. PICK n \in Ungrouped : todo' = <<GetConfig(n, Nodegroup)>>
  BY DEF AskNodeGroup
<1>3. n \in status.typed
  BY <1>2 DEF Ungrouped
<1>4. status # NoStatus
  BY <1>3 DEF NoStatus
<1>5. n \in Nat
  <2>1. n \in Nodes
    BY <1>3, <1>4 DEF ConvInv, StatusRead, Truthful, Nodes
  <2> QED  BY <2>1, NodesFinite DEF ConvInv
<1>6. GetConfig(n, Nodegroup) \in CommandsSent /\ GetConfig(n, Nodegroup).nodes = <<>>
  <2>1. Nodegroup \in Nat
    BY DEF Nodegroup
  <2>2. GetConfig(n, Nodegroup) \in CommandsSent
    BY <1>5, <2>1 DEF CommandsSent
  <2>3. GetConfig(n, Nodegroup).nodes = <<>>
    BY DEF GetConfig, Command
  <2> QED  BY <2>2, <2>3
<1>7. ClusterOK' /\ ClusterFound' /\ AnswersTrue' /\ StatusRead'
  BY <1>1, EnvKept
<1>8. Sequences'
  <2>1. <<GetConfig(n, Nodegroup)>> \in Seq(CommandsSent)
    BY <1>6
  <2> QED  BY <1>1, <1>2, <2>1 DEF ConvInv, Sequences
<1>9. Flow'
  BY <1>1 DEF ConvInv, Flow, HasStatus
<1>10. Harmless'
  <2>1. NoNodes(todo')
    <3>1. Len(todo') = 1 /\ todo'[1] = GetConfig(n, Nodegroup)
      BY <1>2
    <3>2. \A i \in 1..1 : i = 1
      OBVIOUS
    <3> QED  BY <1>6, <3>1, <3>2 DEF NoNodes
  <2>2. Original' => NoNodes(requests')
    BY <1>1 DEF ConvInv, Harmless, Original, NoNodes
  <2> QED  BY <2>1, <2>2 DEF Harmless
<1>11. StatusTodo'
  <2>1. Ungrouped' = Ungrouped /\ NoStatus' = NoStatus
    BY <1>1 DEF Ungrouped, NoStatus
  <2> QED  BY <1>1, <1>2, <1>4, <2>1 DEF StatusTodo
<1>12. Exchange'
  BY <1>1 DEF ConvInv, Exchange, Clean
<1> QED  BY <1>7, <1>8, <1>9, <1>10, <1>11, <1>12 DEF ConvInv

\* A status with too few nodes is an error.
LEMMA ConvMiscounted ==
    ASSUME ConvInv, TypeInv', StatusMiscounted
    PROVE  ConvInv'
<1>1. /\ pc = "ready" /\ stage = "status" /\ Fails /\ LeftAfterError(<<>>)
      /\ UNCHANGED <<program, cluster, answers, timeouts>>
  BY DEF StatusMiscounted, GroupsKnown, env
<1>2. wire' = <<>> /\ <<>> \in Seq(Lines)
  BY <1>1 DEF LeftAfterError
<1>3. requests = <<>>
  BY <1>1 DEF ConvInv, Exchange, Clean
<1> QED  BY <1>1, <1>2, <1>3, ConvFails

\* The end of a program, and of the status: the connection is closed, or nothing is
\* under way.
LEMMA ConvMovesOn ==
    ASSUME ConvInv, TypeInv', UNCHANGED <<program, cluster, answers, status, timeouts>>,
           stage' = "work", pc' # "reply", pc' \notin {"dns", "connect", "failed"},
           pc' = "failure handling" => program = "initialize data node" /\ todo' = <<>>,
           pc \in {"ready", "failure handling"},
           \/ Disconnect
           \/ UNCHANGED link /\ (pc' = "done" => program = "memory"),
           todo' \in Seq(CommandsSent), NoNodes(todo') \/ program = "createNodeGroups"
    PROVE  ConvInv'
<1>1. ClusterOK' /\ ClusterFound' /\ AnswersTrue' /\ StatusRead'
  BY EnvKept
<1>2. \/ conn' = NoConn /\ requests' = <<>> /\ wire' = <<>>
      \/ UNCHANGED <<conn, requests, wire>>
  BY DEF Disconnect, link
<1>3. Sequences'
  <2>1. <<>> \in Seq(CommandsSent) /\ <<>> \in Seq(Lines)
    BY NoElements
  <2>2. requests \in Seq(CommandsSent) /\ wire \in Seq(Lines)
    BY DEF ConvInv, Sequences
  <2>3. requests' \in Seq(CommandsSent) /\ wire' \in Seq(Lines)
    BY <1>2, <2>1, <2>2
  <2> QED  BY <2>3 DEF Sequences
<1>4. Flow'
  <2>1. requests' # <<>> => conn'.open
    BY <1>2 DEF ConvInv, Flow
  <2>2. pc' = "done" /\ program # "memory" => ~conn'.open
    <3>1. CASE Disconnect
      BY <3>1 DEF Disconnect, NoConn
    <3> QED  BY <3>1
  <2> QED  BY <2>1, <2>2 DEF Flow
<1>5. Harmless'
  <2> SUFFICES ASSUME Original'
               PROVE  NoNodes(todo') /\ NoNodes(requests')
    BY DEF Harmless
  <2>1. program # "createNodeGroups" /\ Original
    BY DEF Original
  <2>2. NoNodes(todo')
    BY <2>1
  <2>3. NoNodes(requests)
    BY <2>1 DEF ConvInv, Harmless
  <2>4. CASE requests' = <<>>
    BY <2>2, <2>4, NoCommands, Zenon
  <2>5. CASE requests' = requests
    BY <2>2, <2>3, <2>5, Zenon
  <2>6. requests' = requests \/ requests' = <<>>
    BY <1>2
  <2> QED  BY <2>4, <2>5, <2>6
<1>6. StatusTodo'
  BY DEF StatusTodo
<1>7. Exchange'
  <2>1. Clean' => wire' = <<>> /\ requests' = <<>>
    <3>1. CASE wire' = <<>> /\ requests' = <<>>
      BY <3>1
    <3>2. CASE UNCHANGED <<requests, wire>>
      <4>1. Clean' => Clean /\ pc # "reply"
        BY DEF Clean
      <4>2. Clean /\ pc # "reply" => wire = <<>> /\ requests = <<>>
        BY DEF ConvInv, Exchange
      <4> QED  BY <3>2, <4>1, <4>2
    <3> QED  BY <1>2, <3>1, <3>2
  <2> QED  BY <2>1 DEF Exchange
<1> QED  BY <1>1, <1>3, <1>4, <1>5, <1>6, <1>7 DEF ConvInv

\* The nodes that GetConnectedDataNodesWithNodeGroup lists: all of them if they are connected.
Listed(cs, nodes, new) ==
    /\ new \in Seq(Nat)
    /\ IsFiniteSet(nodes) /\ Cardinality(nodes) \in Nat
    /\ (\A n \in nodes : cs[n].connected) => new = Sorted(nodes)
    /\ new = <<>> \/ new = Sorted(nodes)
    /\ Sorted(nodes) \in [1..Cardinality(nodes) -> nodes]
    /\ \A i, j \in 1..Cardinality(nodes) : i # j => Sorted(nodes)[i] # Sorted(nodes)[j]
    /\ new = <<>> \/ \A n \in nodes : cs[n].connected

\* The node ids that createNodeGroups finds: none, or all that have the node group.
LEMMA ConnectedNodes ==
    ASSUME NEW cs, NEW ng, IsFiniteSet(DOMAIN cs), DOMAIN cs \subseteq Nat,
           NEW nodes, nodes = {n \in DOMAIN cs : IsDataNode(cs[n]) /\ cs[n].group = ng},
           NEW new, new = GetConnectedDataNodesWithNodeGroup(cs, ng)
    PROVE  Listed(cs, nodes, new)
<1>1. new = IF \E n \in nodes : ~cs[n].connected THEN <<>> ELSE Sorted(nodes)
  BY DEF GetConnectedDataNodesWithNodeGroup
<1>2. IsFiniteSet(nodes) /\ nodes \subseteq Nat /\ nodes \subseteq Int
  <2>1. nodes \in SUBSET DOMAIN cs
    OBVIOUS
  <2>2. IsFiniteSet(nodes)
    BY <2>1, FS_Subset
  <2> QED  BY <2>1, <2>2
<1>3. /\ Cardinality(nodes) \in Nat /\ Sorted(nodes) \in [1..Cardinality(nodes) -> nodes]
      /\ \A i, j \in 1..Cardinality(nodes) : i < j => Sorted(nodes)[i] < Sorted(nodes)[j]
  BY <1>2, SortedFacts
<1>4. Sorted(nodes) \in Seq(Nat)
  <2> DEFINE s == Sorted(nodes)
  <2>1. s \in [1..Cardinality(nodes) -> Nat]
    BY <1>2, <1>3
  <2> HIDE DEF s
  <2>2. s \in Seq(Nat)
    BY <1>3, <2>1
  <2> QED  BY <2>2 DEF s
<1>5. \A i, j \in 1..Cardinality(nodes) : i # j => Sorted(nodes)[i] # Sorted(nodes)[j]
  <2> DEFINE s == Sorted(nodes)
             k == Cardinality(nodes)
  <2>1. \A i \in 1..k : s[i] \in Int
    BY <1>2, <1>3
  <2>2. k \in Nat /\ \A i, j \in 1..k : i < j => s[i] < s[j]
    BY <1>3
  <2> HIDE DEF s, k
  <2>3. \A i, j \in 1..k : i # j => s[i] # s[j]
    <3> SUFFICES ASSUME NEW i \in 1..k, NEW j \in 1..k, i # j
                 PROVE  s[i] # s[j]
      OBVIOUS
    <3>1. i < j \/ j < i
      BY <2>2
    <3> QED  BY <2>1, <2>2, <3>1
  <2> QED  BY <2>3 DEF s, k
<1>6. new \in Seq(Nat)
  BY <1>1, <1>4, NoElements
<1>7. (\A n \in nodes : cs[n].connected) => new = Sorted(nodes)
  BY <1>1
<1>8. new = <<>> \/ \A n \in nodes : cs[n].connected
  BY <1>1
<1>9. new = <<>> \/ new = Sorted(nodes)
  BY <1>1
<1> QED  BY <1>2, <1>3, <1>5, <1>6, <1>7, <1>8, <1>9 DEF Listed

\* The bounds of the i-th node group in a list of l nodes.
LEMMA GroupBounds ==
    ASSUME NEW l \in Nat, NEW i \in 1..(l \div Redundancy)
    PROVE  /\ (i - 1) * Redundancy \in Nat /\ i * Redundancy \in Nat
           /\ i * Redundancy = (i - 1) * Redundancy + Redundancy
           /\ i * Redundancy <= l
<1>1. Redundancy \in Nat /\ Redundancy > 0
  BY MgmClientAssumption
<1>2. \A r, q, m \in Nat : r > 0 /\ q = m \div r => q * r <= m
  OBVIOUS
<1> DEFINE r == Redundancy
           q == l \div r
<1>3. q \in Nat /\ q * r <= l
  <2>1. q \in Nat
    BY <1>1
  <2> QED  BY <1>1, <1>2, <2>1
<1> HIDE DEF q, r
<1>4. r \in Nat /\ i \in Nat /\ i >= 1 /\ i <= q
  BY <1>1, <1>3 DEF q, r
<1>5. i * r <= q * r
  <2>1. \A a, b, d \in Nat : a <= b => a * d <= b * d
    OBVIOUS
  <2> QED  BY <1>3, <1>4, <2>1
<1>6. i * r = (i - 1) * r + r
  BY <1>4
<1>7. (i - 1) * r \in Nat /\ i * r \in Nat
  <2>1. i - 1 \in Nat
    BY <1>4
  <2>2. \A a, b \in Nat : a * b \in Nat
    OBVIOUS
  <2> QED  BY <1>4, <2>1, <2>2
<1>8. i * r <= l
  <2>1. q * r \in Nat
    BY <1>3, <1>4
  <2> QED  BY <1>3, <1>5, <1>7, <2>1
<1> QED  BY <1>6, <1>7, <1>8 DEF r

\* Sequences are functions.
LEMMA SequenceOf ==
    ASSUME NEW S, NEW s \in Seq(S), NEW n, n = Len(s)
    PROVE  s \in [1..n -> S]
OBVIOUS

\* A function on an initial interval is a sequence.
LEMMA FunctionSequence ==
    ASSUME NEW S, NEW k \in Nat, NEW f \in [1..k -> S]
    PROVE  f \in Seq(S) /\ Len(f) = k
OBVIOUS

\* The commands that create node groups: Redundancy of the new nodes each, in their order.
Batches(new, cmds) ==
    /\ cmds \in Seq(CommandsSent) /\ Len(cmds) = Len(new) \div Redundancy
    /\ Len(new) \div Redundancy \in Nat
    /\ \A i \in 1..Len(cmds) :
          /\ cmds[i].name = "create nodegroup"
          /\ cmds[i].nodes \in [1..Redundancy -> Nat]
          /\ \A j \in 1..Redundancy :
                /\ (i - 1) * Redundancy + j \in 1..Len(new)
                /\ cmds[i].nodes[j] = new[(i - 1) * Redundancy + j]

\* What createNodeGroups makes of the new nodes: one command for Redundancy of them.
LEMMA GroupCommands ==
    ASSUME NEW new \in Seq(Nat),
           NEW cmds, cmds = [i \in 1..(Len(new) \div Redundancy) |->
               CreateNodeGroup(SubSeq(new, (i - 1) * Redundancy + 1, i * Redundancy))]
    PROVE  Batches(new, cmds)
<1> DEFINE k == Len(new) \div Redundancy
           s(i) == SubSeq(new, (i - 1) * Redundancy + 1, i * Redundancy)
<1>1. Len(new) \in Nat /\ Redundancy \in Nat /\ Redundancy > 0
  BY MgmClientAssumption
<1>2. k \in Nat
  BY <1>1
<1>3. ASSUME NEW i \in 1..k
      PROVE  /\ s(i) \in Seq(Nat) /\ s(i) \in [1..Redundancy -> Nat]
             /\ \A j \in 1..Redundancy : /\ (i - 1) * Redundancy + j \in 1..Len(new)
                                         /\ s(i)[j] = new[(i - 1) * Redundancy + j]
  <2>1. /\ (i - 1) * Redundancy \in Nat /\ i * Redundancy \in Nat
        /\ i * Redundancy = (i - 1) * Redundancy + Redundancy
        /\ i * Redundancy <= Len(new)
    BY <1>1, GroupBounds
  <2>2. PICK a \in Nat : a = (i - 1) * Redundancy
    BY <2>1
  <2>3. PICK b \in Nat : b = i * Redundancy
    BY <2>1
  <2>4. b = a + Redundancy /\ b <= Len(new)
    BY <2>1, <2>2, <2>3
  <2>5. s(i) = SubSeq(new, a + 1, b)
    BY <2>2, <2>3
  <2>6. /\ SubSeq(new, a + 1, b) \in Seq(Nat)
        /\ Len(SubSeq(new, a + 1, b)) = Redundancy
        /\ \A j \in 1..Redundancy : a + j \in 1..Len(new) /\ SubSeq(new, a + 1, b)[j] = new[a + j]
    BY <1>1, <2>4
  <2>7. SubSeq(new, a + 1, b) \in [1..Redundancy -> Nat]
    BY <2>6, SequenceOf
  <2> QED  BY <2>2, <2>5, <2>6, <2>7
<1>4. \A i \in 1..k : CreateNodeGroup(s(i)) \in CommandsSent
  <2>1. \A ns \in Seq(Nat) : CreateNodeGroup(ns) \in CommandsSent
    BY DEF CommandsSent
  <2> HIDE DEF s, k
  <2> QED  BY <1>3, <2>1, Zenon
<1>5. \A i \in 1..k : CreateNodeGroup(s(i)).name = "create nodegroup" /\ CreateNodeGroup(s(i)).nodes = s(i)
  BY DEF CreateNodeGroup, Command
<1>6. cmds = [i \in 1..k |-> CreateNodeGroup(s(i))]
  OBVIOUS
<1> HIDE DEF k, s
<1>7. cmds \in [1..k -> CommandsSent]
  BY <1>4, <1>6
<1>8. cmds \in Seq(CommandsSent) /\ Len(cmds) = k
  BY <1>2, <1>7, FunctionSequence
<1>9. \A i \in 1..k : cmds[i] = CreateNodeGroup(s(i))
  BY <1>6
<1>10. \A i \in 1..k :
                 /\ cmds[i].name = "create nodegroup"
                 /\ cmds[i].nodes \in [1..Redundancy -> Nat]
                 /\ \A j \in 1..Redundancy :
                       /\ (i - 1) * Redundancy + j \in 1..Len(new)
                       /\ cmds[i].nodes[j] = new[(i - 1) * Redundancy + j]
  BY <1>3, <1>5, <1>9
<1> QED  BY <1>2, <1>8, <1>10 DEF k, Batches

\* The status as the programs get it.
LEMMA StatusNodes ==
    ASSUME ConvInv, StatusReturned
    PROVE  /\ status # NoStatus /\ stage = "status" /\ pc = "ready" /\ todo = <<>>
           /\ IsFiniteSet(DOMAIN status.nodes) /\ DOMAIN status.nodes \subseteq Nat
<1>1. status # NoStatus /\ stage = "status" /\ pc = "ready" /\ todo = <<>>
  BY DEF StatusReturned, GroupsKnown
<1>2. DOMAIN status.nodes \in SUBSET Nodes
  BY <1>1 DEF ConvInv, StatusRead, Truthful, Nodes
<1>3. IsFiniteSet(Nodes) /\ Nodes \subseteq Nat
  BY NodesFinite DEF ConvInv
<1>4. IsFiniteSet(DOMAIN status.nodes)
  BY <1>2, <1>3, FS_Subset
<1> QED  BY <1>1, <1>2, <1>3, <1>4

\* The initializer of a data node goes on, or ends the conversation.
LEMMA ConvIsSystemRestart ==
    ASSUME ConvInv, TypeInv', IsSystemRestart
    PROVE  ConvInv'
<1>1. /\ pc = "ready" /\ todo = <<>> /\ todo' = todo /\ stage' = "work"
      /\ UNCHANGED <<program, cluster, answers, status, timeouts>> /\ program = "initialize data node"
      /\ \/ pc' = "failure handling" /\ UNCHANGED link
         \/ pc' = "done" /\ Disconnect
  BY StatusNodes DEF IsSystemRestart, env
<1>2. todo' \in Seq(CommandsSent) /\ NoNodes(todo')
  BY <1>1, NoCommands, NoElements
<1> QED  BY <1>1, <1>2, ConvMovesOn

\* It asks for its node id once the failure of the node is handled.
LEMMA ConvFailureHandled ==
    ASSUME ConvInv, TypeInv', FailureHandled
    PROVE  ConvInv'
<1>1. /\ pc = "failure handling" /\ stage' = stage
      /\ UNCHANGED <<program, cluster, answers, status, timeouts>>
      /\ \/ pc' = "done" /\ Disconnect /\ todo' = todo
         \/ pc' = "ready" /\ todo' = <<TryReserveNodeId(OwnId)>> /\ UNCHANGED link
  BY DEF FailureHandled, env
<1>2. program = "initialize data node" /\ stage = "work" /\ todo = <<>>
  BY <1>1 DEF ConvInv, Flow
<1>3. CASE todo' = todo
  <2>1. todo' \in Seq(CommandsSent) /\ NoNodes(todo')
    BY <1>2, <1>3, NoCommands, NoElements
  <2> QED  BY <1>1, <1>2, <2>1, ConvMovesOn
<1>4. CASE todo' = <<TryReserveNodeId(OwnId)>>
  <2>1. TryReserveNodeId(OwnId) \in CommandsSent /\ TryReserveNodeId(OwnId).nodes = <<>>
    <3>1. OwnId \in Nat
      BY MgmClientAssumption
    <3>2. TryReserveNodeId(OwnId) \in CommandsSent
      BY <3>1 DEF CommandsSent
    <3> QED  BY <3>2 DEF TryReserveNodeId, Command
  <2>2. Len(todo') = 1 /\ todo'[1] = TryReserveNodeId(OwnId) /\ todo' \in Seq(CommandsSent)
    BY <1>4, <2>1
  <2>3. \A i \in 1..1 : i = 1
    OBVIOUS
  <2>4. NoNodes(todo')
    BY <2>1, <2>2, <2>3 DEF NoNodes
  <2> QED  BY <1>1, <1>2, <2>2, <2>4, ConvMovesOn
<1> QED  BY <1>1, <1>3, <1>4

\* ensureDataNodePodVersion has nothing more to ask.
LEMMA ConvEnsureVersion ==
    ASSUME ConvInv, TypeInv', EnsureDataNodePodVersion
    PROVE  ConvInv'
<1>1. /\ pc = "ready" /\ todo = <<>> /\ todo' = todo /\ stage' = "work" /\ pc' = "done"
      /\ UNCHANGED <<program, cluster, answers, status, timeouts>> /\ Disconnect
  BY StatusNodes DEF EnsureDataNodePodVersion, env
<1>2. todo' \in Seq(CommandsSent) /\ NoNodes(todo')
  BY <1>1, NoCommands, NoElements
<1> QED  BY <1>1, <1>2, ConvMovesOn

\* createNodeGroups goes on to commands about data nodes that the status has.
LEMMA ConvCreateNodeGroups ==
    ASSUME ConvInv, TypeInv', CreateNodeGroups
    PROVE  ConvInv'
<1> DEFINE new == GetConnectedDataNodesWithNodeGroup(status.nodes, NodeGroupNewConnectedDataNode)
<1>1. /\ pc = "ready" /\ pc' = pc /\ stage' = "work"
      /\ UNCHANGED <<program, cluster, answers, status, timeouts, link>> /\ program = "createNodeGroups"
  BY StatusNodes DEF CreateNodeGroups, env
<1>2. todo' = [i \in 1..(Len(new) \div Redundancy) |->
                        CreateNodeGroup(SubSeq(new, (i - 1) * Redundancy + 1, i * Redundancy))]
  BY DEF CreateNodeGroups
<1>3. new \in Seq(Nat)
  <2>1. PICK cs : cs = status.nodes
    OBVIOUS
  <2>2. PICK nodes : nodes = {n \in DOMAIN cs : IsDataNode(cs[n]) /\ cs[n].group = NodeGroupNewConnectedDataNode}
    OBVIOUS
  <2>3. IsFiniteSet(DOMAIN cs) /\ DOMAIN cs \subseteq Nat /\
        new = GetConnectedDataNodesWithNodeGroup(cs, NodeGroupNewConnectedDataNode)
    BY <2>1, StatusNodes DEF CreateNodeGroups
  <2> HIDE DEF new
  <2>4. Listed(cs, nodes, new)
    BY <2>2, <2>3, ConnectedNodes
  <2> QED  BY <2>4 DEF Listed
<1> HIDE DEF new
<1>4. todo' \in Seq(CommandsSent)
  BY <1>2, <1>3, GroupCommands DEF Batches
<1> QED  BY <1>1, <1>4, ConvMovesOn

\* The end of a program is the end of the conversation.
LEMMA ConvFinish ==
    ASSUME ConvInv, TypeInv', Finish
    PROVE  ConvInv'
<1>1. /\ pc = "ready" /\ todo = <<>> /\ todo' = todo /\ stage = "work" /\ stage' = stage /\ pc' = "done"
      /\ UNCHANGED <<program, cluster, answers, status, timeouts>>
      /\ Disconnect \/ (UNCHANGED link /\ program = "memory")
  BY DEF Finish, env
<1>2. todo' \in Seq(CommandsSent) /\ NoNodes(todo')
  BY <1>1, NoCommands, NoElements
<1> QED  BY <1>1, <1>2, ConvMovesOn

\* The last line is one of those there are.
LEMMA LastLineType ==
    ASSUME wire \in Seq(Lines), NEW cmd
    PROVE  LastLine(cmd) \in Nat /\ LastLine(cmd) <= Len(wire)
<1> DEFINE ends == {i \in 2..Len(wire) : wire[i].part = "end"}
           last == LastLine(cmd)
<1>1. ends \subseteq Nat /\ ends \subseteq Int /\ IsFiniteSet(ends)
  <2>1. 2..Len(wire) \subseteq Nat /\ 2 \in Int /\ Len(wire) \in Int
    OBVIOUS
  <2>2. IsFiniteSet(2..Len(wire))
    BY <2>1, FS_Interval
  <2>3. ends \in SUBSET (2..Len(wire))
    OBVIOUS
  <2> HIDE DEF ends
  <2>4. IsFiniteSet(ends)
    BY <2>2, <2>3, FS_Subset
  <2>5. ends \subseteq Nat
    BY <2>1, <2>3
  <2> QED  BY <2>4, <2>5
<1> HIDE DEF ends
<1>2. ends # {} => \E x \in ends : \A y \in ends : x <= y
  <2> SUFFICES ASSUME ends # {}
               PROVE  \E x \in ends : \A y \in ends : x <= y
    OBVIOUS
  <2> DEFINE s == Sorted(ends)
             c == Cardinality(ends)
  <2>1. /\ c \in Nat /\ s \in [1..c -> ends]
        /\ \A n \in ends : \E i \in 1..c : s[i] = n
        /\ \A i, j \in 1..c : i < j => s[i] < s[j]
    BY <1>1, SortedFacts
  <2> HIDE DEF s, c
  <2>2. PICK m \in ends : TRUE
    OBVIOUS
  <2>3. 1 \in 1..c
    BY <2>1, <2>2
  <2>4. ASSUME NEW y \in ends
        PROVE  s[1] <= y
    <3>1. PICK i \in 1..c : s[i] = y
      BY <2>1
    <3>2. i = 1 \/ 1 < i
      BY <2>1
    <3>3. s[1] \in Int /\ y \in Int
      BY <1>1, <2>1, <2>3
    <3> QED  BY <2>1, <2>3, <3>1, <3>2, <3>3
  <2> QED  BY <2>1, <2>3, <2>4
<1>3. ends # {} => Min(ends) \in Nat /\ Min(ends) <= Len(wire)
  <2> SUFFICES ASSUME ends # {}
               PROVE  Min(ends) \in Nat /\ Min(ends) <= Len(wire)
    OBVIOUS
  <2>1. Min(ends) \in ends
    BY <1>1, <1>2 DEF Min
  <2>2. ends \subseteq 2..Len(wire)
    BY DEF ends
  <2>3. PICK l \in Nat : l = Len(wire)
    BY LenType
  <2>4. Min(ends) \in 2..l
    BY <2>1, <2>2, <2>3
  <2>5. \A m \in 2..l : m \in Nat /\ m <= l
    BY <2>3
  <2> QED  BY <2>3, <2>4, <2>5
<1>4. last = 0 \/ (ends # {} /\ (last = Min(ends) \/ (last = Min(ends) + 1 /\ Min(ends) < Len(wire))))
  BY DEF LastLine, ends
<1> HIDE DEF last
<1>5. Len(wire) \in Nat /\ \A k, l \in Nat : k + 1 \in Nat /\ (k < l => k + 1 <= l) /\ 0 <= l
  OBVIOUS
<1>6. last \in Nat /\ last <= Len(wire)
  BY <1>3, <1>4, <1>5
<1> QED  BY <1>6 DEF last

\* What is lost after a timeout is never used.
LEMMA ConvReadTimesOut ==
    ASSUME ConvInv, TypeInv', ReadTimesOut
    PROVE  ConvInv'
<1> DEFINE last == LastLine(Head(todo))
<1>1. pc = "reply" /\ UNCHANGED <<program, cluster, answers>> /\ Fails /\ timeouts' = timeouts + 1
  BY DEF ReadTimesOut, env
<1>2. timeouts \in Nat
  <2>1. MaxTimeouts \in Nat /\ timeouts \in 0..MaxTimeouts
    BY MgmClientAssumption DEF ConvInv, TypeInv, TypeOK
  <2> QED  BY <2>1
<1>3. timeouts' # 0
  BY <1>1, <1>2
<1>4. wire \in Seq(Lines)
  BY DEF ConvInv, Sequences
<1>5. last \in Int
  BY <1>4, LastLineType
<1>6. wire' \in Seq(Lines)
  <2>1. PICK n \in 0..(IF last = 0 THEN Len(wire) ELSE last - 1) : LeftAfterError(SubSeq(wire, n + 1, Len(wire)))
    BY DEF ReadTimesOut
  <2>2. n \in Nat
    <3>1. Len(wire) \in Int
      BY <1>4
    <3> HIDE DEF last
    <3> QED  BY <1>5, <3>1
  <2>3. SubSeq(wire, n + 1, Len(wire)) \in Seq(Lines)
    BY <1>4, <2>2, RestOfWire
  <2>4. wire' = SubSeq(wire, n + 1, Len(wire)) \/ wire' = <<>>
    BY <2>1 DEF LeftAfterError
  <2> QED  BY <2>3, <2>4, NoElements
<1>7. Clean' => wire' = <<>> /\ pc' # "ready"
  <2>1. Clean' => pc' # "failed" /\ ~(program \in Initializers /\ stage = "work")
    BY <1>1, <1>3 DEF Clean, Fails
  <2>2. Clean' => program \in Initializers /\ pc' # "ready"
    BY <1>1, <2>1 DEF Fails
  <2>3. program \in Initializers => program # "memory"
    BY DEF Initializers
  <2>4. \E rest : LeftAfterError(rest)
    BY DEF ReadTimesOut
  <2> QED  BY <2>1, <2>2, <2>3, <2>4 DEF LeftAfterError
<1> QED  BY <1>1, <1>6, <1>7, ConvFails

\* A part of the first lines of a reply begins it.
LEMMA BeginsPrefix ==
    ASSUME ClusterOK, NEW lines, NEW cmd, Begins(lines, cmd, cluster), NEW n \in 0..Len(lines)
    PROVE  Begins(SubSeq(lines, 1, n), cmd, cluster)
<1> DEFINE p == SubSeq(lines, 1, n)
<1>1. lines \in Seq(Lines) /\ Len(lines) \in Nat
  BY DEF Begins
<1>2. p \in Seq(Lines) /\ Len(p) = n /\ \A i \in 1..n : i \in 1..Len(lines) /\ p[i] = lines[i]
  BY <1>1
<1> HIDE DEF p
<1>3. n <= ReplyLen(cmd, cluster)
  <2>1. Len(lines) <= ReplyLen(cmd, cluster) /\ n <= Len(lines) /\ n \in Int
    BY <1>1 DEF Begins
  <2>2. ReplyLen(cmd, cluster) \in Nat
    <3>1. Cardinality(NodesOf(cluster)) \in Nat
      BY NodesFinite DEF Nodes
    <3>2. 2 * Cardinality(NodesOf(cluster)) + 3 \in Nat /\ 3 \in Nat /\ 4 \in Nat
      BY <3>1
    <3> QED  BY <3>2, Zenon DEF ReplyLen, EndAt
  <2> QED  BY <1>1, <2>1, <2>2
<1>4. ASSUME NEW i \in 1..n
      PROVE  /\ p[i].re = cmd
             /\ p[i].part = "end" <=> i = EndAt(cmd, cluster)
             /\ p[i].part = "header" <=> i = 1
  BY <1>2 DEF Begins
<1>5. ASSUME NEW i \in 1..n, cmd = GetStatus
      PROVE  StatusLine(p, i, cluster)
  <2>1. StatusLine(lines, i, cluster)
    BY <1>2, <1>5 DEF Begins
  <2>2. \A j \in 1..(i - 1) : p[j] = lines[j]
    BY <1>1, <1>2
  <2>3. p[i] = lines[i]
    BY <1>2
  <2> QED  BY <2>1, <2>2, <2>3 DEF StatusLine
<1> QED  BY <1>2, <1>3, <1>4, <1>5 DEF p, Begins

\* A crash leaves the first lines of a reply.
LEMMA ConvCrash ==
    ASSUME ConvInv, TypeInv', NEW s \in 1..Mgmds, MgmdCrash(s)
    PROVE  ConvInv'
<1>1. /\ pc \notin {"dns", "done", "failed"}
      /\ UNCHANGED <<program, cluster, answers, pc, stage, todo, status, timeouts>>
  BY DEF MgmdCrash, env, local
<1>2. todo \in Seq(CommandsSent) /\ wire \in Seq(Lines) /\ requests \in Seq(CommandsSent)
  BY DEF ConvInv, Sequences
<1>3. CASE conn' = conn /\ UNCHANGED <<requests, wire>>
  BY <1>1, <1>3, QuietKept
<1>4. CASE conn' = [conn EXCEPT !.open = FALSE] /\ requests' = <<>> /\ \E n \in 0..Len(wire) : wire' = SubSeq(wire, 1, n)
  <2>1. PICK n \in 0..Len(wire) : wire' = SubSeq(wire, 1, n)
    BY <1>4
  <2>2. ClusterOK' /\ ClusterFound' /\ AnswersTrue' /\ StatusRead'
    BY <1>1, EnvKept
  <2>3. conn'.open = FALSE
    <3>1. conn \in [to : 0..Mgmds, open : BOOLEAN]
      BY DEF ConvInv, TypeInv, TypeOK
    <3> QED  BY <1>4, <3>1
  <2>4. Sequences'
    <3>1. wire' \in Seq(Lines)
      BY <1>2, <2>1
    <3> QED  BY <1>1, <1>2, <1>4, <3>1, NoElements DEF Sequences
  <2>5. Flow'
    <3>1. NoStatus' = NoStatus
      BY DEF NoStatus
    <3> QED  BY <1>1, <1>4, <2>3, <3>1 DEF ConvInv, Flow, HasStatus
  <2>6. Harmless'
    <3>1. Original' => NoNodes(todo')
      BY <1>1 DEF ConvInv, Harmless, Original, NoNodes
    <3>2. NoNodes(requests')
      BY <1>4, NoCommands
    <3> QED  BY <3>1, <3>2 DEF Harmless
  <2>7. StatusTodo'
    BY <1>1 DEF ConvInv, StatusTodo, Ungrouped, NoStatus
  <2>8. Exchange'
    <3> SUFFICES ASSUME Clean'
                 PROVE  /\ pc # "reply" => wire' = <<>>
                        /\ pc = "reply" => Begins(wire', Head(todo), cluster)
      BY <1>1, <1>4 DEF Exchange
    <3>1. Clean
      BY <1>1 DEF Clean
    <3>2. CASE wire = <<>>
      <4>1. wire' = <<>>
        BY <2>1, <3>2
      <4>2. pc = "reply" => Head(todo) \in CommandsSent
        BY <1>2 DEF ConvInv, Flow
      <4>3. pc = "reply" => Begins(<<>>, Head(todo), cluster)
        BY <4>2, EmptyBegins DEF ConvInv
      <4> QED  BY <4>1, <4>3
    <3>3. CASE wire # <<>>
      <4>1. pc = "reply" /\ Begins(wire, Head(todo), cluster)
        BY <3>1, <3>3 DEF ConvInv, Exchange
      <4>2. Begins(SubSeq(wire, 1, n), Head(todo), cluster)
        BY <4>1, BeginsPrefix DEF ConvInv
      <4> QED  BY <2>1, <4>1, <4>2
    <3> QED  BY <3>2, <3>3
  <2> QED  BY <1>1, <2>2, <2>4, <2>5, <2>6, <2>7, <2>8 DEF ConvInv
<1> QED  BY <1>3, <1>4 DEF MgmdCrash, link

\* Steps that the conversation does not notice.
LEMMA ConvQuiet ==
    ASSUME ConvInv, TypeInv',
           \/ \E r \in Replicas : LookupPod(r) \/ DnsUpdated(r)
           \/ ConnectFails
           \/ \E s \in 1..Mgmds : MgmdRestart(s)
           \/ \E id \in Ids : NodeIdFreed(id)
           \/ UNCHANGED vars
    PROVE  ConvInv'
<1> DEFINE quiet == UNCHANGED <<program, cluster, answers, todo, conn, requests, wire, status, stage, timeouts>>
           moves == pc' = pc \/ (pc \in {"dns", "connect"} /\ pc' \in {"dns", "connect", "failed"})
<1>1. ASSUME NEW r \in Replicas, LookupPod(r)
      PROVE  quiet /\ moves
  <2>1. quiet
    BY <1>1 DEF LookupPod, env, link
  <2>2. pc = "dns" /\ pc' \in {"connect", "dns"}
    BY <1>1 DEF LookupPod
  <2> QED  BY <2>1, <2>2
<1>2. ASSUME NEW r \in Replicas, DnsUpdated(r)
      PROVE  quiet /\ moves
  BY <1>2 DEF DnsUpdated, env, link, local
<1>3. ASSUME ConnectFails
      PROVE  quiet /\ moves
  <2>1. quiet
    BY <1>3 DEF ConnectFails, env, link
  <2>2. pc = "connect" /\ pc' \in {"failed", "dns"}
    BY <1>3 DEF ConnectFails
  <2> QED  BY <2>1, <2>2
<1>4. ASSUME NEW s \in 1..Mgmds, MgmdRestart(s)
      PROVE  quiet /\ moves
  BY <1>4 DEF MgmdRestart, env, link, local
<1>5. ASSUME NEW id \in Ids, NodeIdFreed(id)
      PROVE  quiet /\ moves
  BY <1>5 DEF NodeIdFreed, env, link, local
<1>6. ASSUME UNCHANGED vars
      PROVE  quiet /\ moves
  BY <1>6 DEF vars
<1>7. quiet /\ moves
  BY <1>1, <1>2, <1>3, <1>4, <1>5, <1>6
<1>8. conn'.open = conn.open
  BY <1>7
<1> QED  BY <1>7, <1>8, QuietKept

-----------------------------------------------------------------------------
(* The node groups to create *)

\* The nodes of a command, and the data nodes that have no node group yet.
NodesIn(cmd) == {cmd.nodes[i] : i \in DOMAIN cmd.nodes}
\* The data nodes without node group.
Newcomers == {n \in DOMAIN cluster : cluster[n].group = NodeGroupNewConnectedDataNode}

\* Every command still to be executed is about Redundancy data nodes without node
\* group, and no two are about the same ones.
GroupsToCreate ==
    ~Original =>
        /\ \A i \in 1..Len(todo) : /\ todo[i].name = "create nodegroup"
                                   /\ IsFiniteSet(NodesIn(todo[i]))
                                   /\ Cardinality(NodesIn(todo[i])) = Redundancy
        /\ \A i \in 1..Len(todo) : i > 1 \/ pc # "reply" => NodesIn(todo[i]) \subseteq Newcomers
        /\ requests # <<>> => NodesIn(requests[1]) \subseteq Newcomers
        /\ \A i, j \in 1..Len(todo) : i # j => NodesIn(todo[i]) \cap NodesIn(todo[j]) = {}

\* The values of a function on a finite set are finitely many.
LEMMA FiniteImage ==
    ASSUME NEW S, IsFiniteSet(S), NEW f
    PROVE  IsFiniteSet({f[x] : x \in S}) /\ Cardinality({f[x] : x \in S}) <= Cardinality(S)
<1> DEFINE T == {f[x] : x \in S}
           g == [x \in S |-> f[x]]
<1>1. g \in Surjection(S, T)
  BY DEF Surjection
<1> HIDE DEF T, g
<1>2. IsFiniteSet(T) /\ Cardinality(T) <= Cardinality(S)
  BY <1>1, FS_Surjection
<1> QED  BY <1>2 DEF T

\* The id of the next node group is above all those in use.
LEMMA NextGroup ==
    ASSUME ClusterOK, Newcomers # {},
           NEW new, new = 1 + Max({cluster[n].group : n \in {m \in DOMAIN cluster :
                                cluster[m].group < NodeGroupNewDisconnectedDataNode}})
    PROVE  /\ new \in Int /\ -256 < new /\ new <= NodeGroupNewDisconnectedDataNode
           /\ \A n \in DOMAIN cluster : cluster[n].group < NodeGroupNewDisconnectedDataNode =>
                 cluster[n].group < new
<1> DEFINE G == [n \in DOMAIN cluster |-> cluster[n].group]
           S == {m \in DOMAIN cluster : G[m] < 65536}
           T == {G[n] : n \in S}
<1>1. IsFiniteSet(DOMAIN cluster) /\ \A n \in DOMAIN cluster : G[n] \in Int /\ G[n] = cluster[n].group
  BY DEF ClusterOK
<1> HIDE DEF G
<1>2. IsFiniteSet(S)
  <2>1. S \in SUBSET DOMAIN cluster
    OBVIOUS
  <2> HIDE DEF S
  <2> QED  BY <1>1, <2>1, FS_Subset
<1>a. \A t \in T : t \in Int /\ t < 65536
  <2> SUFFICES ASSUME NEW n \in S
               PROVE  G[n] \in Int /\ G[n] < 65536
    OBVIOUS
  <2> QED  BY <1>1
<1>3. IsFiniteSet(T)
  <2> HIDE DEF S, G
  <2> QED  BY <1>2, FiniteImage
<1>4. T \subseteq Int
  <2> HIDE DEF T
  <2> QED  BY <1>a
<1>5. PICK k \in Newcomers : TRUE
  OBVIOUS
<1>6. k \in S /\ G[k] = -256
  <2>1. k \in DOMAIN cluster /\ cluster[k].group = -256
    BY <1>5 DEF Newcomers, NodeGroupNewConnectedDataNode
  <2>2. G[k] = -256
    BY <1>1, <2>1
  <2>3. -256 < 65536
    OBVIOUS
  <2> QED  BY <2>1, <2>2, <2>3
<1>7. -256 \in T
  BY <1>6
<1>8. new = 1 + Max(T)
  <2>1. S = {m \in DOMAIN cluster : cluster[m].group < NodeGroupNewDisconnectedDataNode}
    BY <1>1 DEF NodeGroupNewDisconnectedDataNode
  <2>2. T = {cluster[n].group : n \in S}
    BY <1>1
  <2> HIDE DEF S, T, G
  <2> QED  BY <2>1, <2>2
<1>10. \A n \in DOMAIN cluster : cluster[n].group < 65536 => cluster[n].group \in T
  BY <1>1
<1> HIDE DEF S, T, G
<1>11. Max(T) \in T /\ \A t \in T : t <= Max(T)
  BY <1>3, <1>4, <1>7, MaxFacts
<1>12. Max(T) \in Int /\ Max(T) < 65536 /\ -256 <= Max(T)
  BY <1>7, <1>a, <1>11
<1> DEFINE m == Max(T)
<1>13. m \in Int /\ m < 65536 /\ -256 <= m /\ new = 1 + m /\ \A t \in T : t <= m
  BY <1>8, <1>11, <1>12
<1> HIDE DEF m
<1>14. new \in Int /\ -256 < new /\ new <= 65536 /\ \A t \in T : t < new
  BY <1>a, <1>13
<1> QED  BY <1>10, <1>14 DEF NodeGroupNewDisconnectedDataNode

\* What an answer finds and does, before and after node groups are created.
LEMMA AnswerFacts ==
    ASSUME ConvInv, GroupsToCreate, Answer, NEW cmd, cmd = Head(requests),
           NEW new, new = 1 + Max({cluster[n].group : n \in {m \in DOMAIN cluster :
                                cluster[m].group < NodeGroupNewDisconnectedDataNode}})
    PROVE  /\ conn.open /\ requests # <<>> /\ cmd \in CommandsSent /\ cmd = requests[1]
           /\ UNCHANGED <<program, answers, pc, stage, todo, status, conn, timeouts>>
           /\ wire' = wire \o Reply(cmd) /\ requests' = Tail(requests)
           /\ Original => cluster' = cluster
           /\ ~Original => /\ program = "createNodeGroups" /\ stage = "work"
                           /\ pc = "reply" /\ requests = <<cmd>> /\ wire = <<>>
                           /\ todo # <<>> /\ cmd = todo[1] /\ cmd.name = "create nodegroup"
                           /\ NodesIn(cmd) \subseteq Newcomers
           /\ cluster' = [n \in DOMAIN cluster |->
                  IF n \in NodesIn(cmd) THEN [cluster[n] EXCEPT !.group = new] ELSE cluster[n]]
<1>1. /\ conn.open /\ requests # <<>> /\ wire' = wire \o Reply(cmd) /\ requests' = Tail(requests)
      /\ UNCHANGED <<program, answers, pc, stage, todo, status, conn, timeouts>>
  BY DEF Answer, env, local
<1>2. requests \in Seq(CommandsSent) /\ todo \in Seq(CommandsSent)
  BY DEF ConvInv, Sequences
<1>3. cmd \in CommandsSent /\ cmd = requests[1] /\ 1 \in 1..Len(requests)
  BY <1>1, <1>2
<1>4. cluster' = [n \in DOMAIN cluster |->
                IF n \in NodesIn(cmd) THEN [cluster[n] EXCEPT !.group = new] ELSE cluster[n]]
  BY DEF Answer, NodesIn
<1>5. ASSUME Original
      PROVE  cluster' = cluster
  <2>1. cmd.nodes = <<>>
    BY <1>3, <1>5 DEF ConvInv, Harmless, NoNodes
  <2>2. NodesIn(cmd) = {}
    BY <2>1 DEF NodesIn
  <2>3. cluster' = [n \in DOMAIN cluster |-> cluster[n]]
    BY <1>4, <2>2
  <2>4. cluster = [n \in DOMAIN cluster |-> cluster[n]]
    BY DEF ConvInv, ClusterOK
  <2> QED  BY <2>3, <2>4, Zenon
<1>6. ASSUME ~Original
      PROVE  /\ program = "createNodeGroups" /\ stage = "work"
             /\ pc = "reply" /\ requests = <<cmd>> /\ wire = <<>>
             /\ todo # <<>> /\ cmd = todo[1] /\ cmd.name = "create nodegroup"
             /\ NodesIn(cmd) \subseteq Newcomers
  <2>1. program = "createNodeGroups" /\ stage = "work"
    BY <1>6 DEF Original, ConvInv, TypeInv, TypeOK
  <2>2. pc \notin {"done", "failed"}
    BY <1>1, <2>1 DEF ConvInv, Flow
  <2>3. Clean
    BY <2>1, <2>2 DEF Clean, Initializers
  <2>4. pc = "reply" /\ requests = <<Head(todo)>> /\ wire = <<>>
    BY <1>1, <2>3 DEF ConvInv, Exchange
  <2>5. todo # <<>>
    BY <2>4 DEF ConvInv, Flow
  <2>6. Head(todo) = todo[1] /\ 1 \in 1..Len(todo) /\ requests[1] = Head(todo)
    BY <1>2, <2>4, <2>5
  <2>7. cmd = todo[1] /\ requests = <<cmd>>
    BY <1>3, <2>4, <2>6
  <2>8. cmd.name = "create nodegroup" /\ NodesIn(cmd) \subseteq Newcomers
    BY <1>1, <1>3, <1>6, <2>6, <2>7 DEF GroupsToCreate
  <2> QED  BY <2>1, <2>4, <2>5, <2>7, <2>8
<1> QED  BY <1>1, <1>3, <1>4, <1>5, <1>6

\* The data nodes after an answer: some newcomers are in a node group of their own.
LEMMA AnswerCluster ==
    ASSUME ConvInv, GroupsToCreate, Answer, ~Original,
           NEW cmd, cmd = Head(requests)
    PROVE  /\ DOMAIN cluster' = DOMAIN cluster /\ ClusterOK'
           /\ \A n \in DOMAIN cluster : cluster'[n].connected = cluster[n].connected
           /\ \A n \in DOMAIN cluster \ NodesIn(cmd) : cluster'[n] = cluster[n]
           /\ NodesIn(cmd) \subseteq Newcomers
           /\ \E new \in Int :
                 /\ -256 < new /\ new <= NodeGroupNewDisconnectedDataNode
                 /\ \A n \in NodesIn(cmd) : cluster'[n].group = new
                 /\ Newcomers # {} => \A n \in DOMAIN cluster :
                       cluster[n].group < NodeGroupNewDisconnectedDataNode => cluster[n].group < new
<1>0. PICK new : new = 1 + Max({cluster[n].group : n \in {m \in DOMAIN cluster :
                                cluster[m].group < NodeGroupNewDisconnectedDataNode}})
  OBVIOUS
<1>1. cluster' = [n \in DOMAIN cluster |->
                IF n \in NodesIn(cmd) THEN [cluster[n] EXCEPT !.group = new] ELSE cluster[n]]
  BY <1>0, AnswerFacts
<1>2. NodesIn(cmd) \subseteq Newcomers /\ NodesIn(cmd) \subseteq DOMAIN cluster
  BY <1>0, AnswerFacts DEF Newcomers
<1>3. ClusterOK
  BY DEF ConvInv
<1>4. DOMAIN cluster' = DOMAIN cluster
  BY <1>1
<1>5. \A n \in DOMAIN cluster \ NodesIn(cmd) : cluster'[n] = cluster[n]
  BY <1>1
<1>6. \A n \in DOMAIN cluster : cluster[n] \in [type : {"NDB"}, connected : BOOLEAN, group : Int]
  BY <1>3 DEF ClusterOK
<1>7. \A n \in NodesIn(cmd) : cluster'[n] = [cluster[n] EXCEPT !.group = new]
  BY <1>1, <1>2
<1>8. Newcomers # {} =>
        /\ new \in Int /\ -256 < new /\ new <= NodeGroupNewDisconnectedDataNode
        /\ \A n \in DOMAIN cluster :
              cluster[n].group < NodeGroupNewDisconnectedDataNode => cluster[n].group < new
  BY <1>0, <1>3, NextGroup
<1>9. \A n \in NodesIn(cmd) :
        /\ cluster'[n].group = new /\ cluster'[n].connected = cluster[n].connected
        /\ cluster'[n] \in [type : {"NDB"}, connected : BOOLEAN, group : Int]
  <2> SUFFICES ASSUME NEW n \in NodesIn(cmd)
               PROVE  /\ cluster'[n].group = new /\ cluster'[n].connected = cluster[n].connected
                      /\ cluster'[n] \in [type : {"NDB"}, connected : BOOLEAN, group : Int]
    OBVIOUS
  <2>1. new \in Int
    BY <1>2, <1>8
  <2>2. n \in DOMAIN cluster
    BY <1>2
  <2>3. ASSUME NEW r \in [type : {"NDB"}, connected : BOOLEAN, group : Int]
        PROVE  LET q == [r EXCEPT !.group = new]
               IN  /\ q.group = new /\ q.connected = r.connected
                   /\ q \in [type : {"NDB"}, connected : BOOLEAN, group : Int]
    BY <2>1
  <2> QED  BY <1>6, <1>7, <2>2, <2>3
<1>10. \A n \in DOMAIN cluster :
        /\ cluster'[n].connected = cluster[n].connected
        /\ cluster'[n] \in [type : {"NDB"}, connected : BOOLEAN, group : Int]
  BY <1>5, <1>6, <1>9
<1>11. ClusterOK'
  <2>1. cluster' \in [DOMAIN cluster -> [type : {"NDB"}, connected : BOOLEAN, group : Int]]
    BY <1>1, <1>10
  <2> QED  BY <1>3, <1>4, <2>1 DEF ClusterOK
<1>12. CASE Newcomers # {}
  BY <1>2, <1>4, <1>5, <1>8, <1>9, <1>10, <1>11, <1>12
<1>13. CASE Newcomers = {}
  <2>1. -256 < 0 /\ 0 <= NodeGroupNewDisconnectedDataNode /\ 0 \in Int
    BY DEF NodeGroupNewDisconnectedDataNode
  <2>2. NodesIn(cmd) = {}
    BY <1>2, <1>13
  <2> QED  BY <1>2, <1>4, <1>5, <1>10, <1>11, <1>13, <2>1, <2>2
<1> QED  BY <1>12, <1>13

\* The reply of a management server begins as the command requires.
LEMMA ConvAnswer ==
    ASSUME ConvInv, GroupsToCreate, TypeInv', Answer
    PROVE  ConvInv'
<1> DEFINE cmd == Head(requests)
<1>0. PICK new : new = 1 + Max({cluster[n].group : n \in {m \in DOMAIN cluster :
                                cluster[m].group < NodeGroupNewDisconnectedDataNode}})
  OBVIOUS
<1>1. /\ conn.open /\ requests # <<>> /\ cmd \in CommandsSent /\ cmd = requests[1]
      /\ UNCHANGED <<program, answers, pc, stage, todo, status, conn, timeouts>>
      /\ wire' = wire \o Reply(cmd) /\ requests' = Tail(requests)
      /\ Original => cluster' = cluster
      /\ ~Original => cmd.name = "create nodegroup"
  BY <1>0, AnswerFacts
<1>2. todo \in Seq(CommandsSent) /\ wire \in Seq(Lines) /\ requests \in Seq(CommandsSent)
  BY DEF ConvInv, Sequences
<1>3. Original' <=> Original
  BY <1>1 DEF Original
<1> HIDE DEF cmd
<1>4. DOMAIN cluster' = DOMAIN cluster /\ ClusterOK' /\ \A n \in DOMAIN cluster : cluster'[n].connected = cluster[n].connected
  <2>1. CASE Original
    BY <1>1, <2>1 DEF ConvInv, ClusterOK
  <2>2. CASE ~Original
    BY <2>2, AnswerCluster
  <2> QED  BY <2>1, <2>2
<1>5. Nodes' = Nodes /\ NoStatus' = NoStatus
  BY <1>4 DEF Nodes, NodesOf, NoStatus
<1>6. Begins(Reply(cmd), cmd, cluster')
  <2>1. CASE cmd = GetStatus
    <3>0. GetStatus.name = "get status"
      BY DEF GetStatus, Command
    <3>1. Original
      BY <1>1, <2>1, <3>0
    <3>2. cluster' = cluster
      BY <1>1, <3>1
    <3>3. Begins(Reply(cmd), cmd, cluster)
      BY <2>1, StatusReply DEF ConvInv
    <3> QED  BY <3>2, <3>3
  <2>2. CASE cmd # GetStatus
    BY <1>1, <2>2, ShortReplies
  <2> QED  BY <2>1, <2>2
<1>7. Sequences'
  <2>1. Reply(cmd) \in Seq(Lines)
    BY <1>6 DEF Begins
  <2>2. wire' \in Seq(Lines)
    BY <1>1, <1>2, <2>1, Concatenated
  <2>3. requests' \in Seq(CommandsSent)
    BY <1>1, <1>2, TailOf
  <2> QED  BY <1>1, <1>2, <2>2, <2>3 DEF Sequences
<1>8. Flow'
  BY <1>1, <1>5 DEF ConvInv, Flow, HasStatus
<1>9. ClusterFound'
  BY <1>1, <1>3 DEF ConvInv, ClusterFound
<1>10. Harmless'
  <2> SUFFICES ASSUME Original
               PROVE  NoNodes(todo') /\ NoNodes(requests')
    BY <1>3 DEF Harmless
  <2>1. NoNodes(todo) /\ NoNodes(requests)
    BY DEF ConvInv, Harmless
  <2>2. \A i \in 1..Len(Tail(requests)) : i + 1 \in 1..Len(requests) /\ Tail(requests)[i] = requests[i + 1]
    BY <1>1, <1>2
  <2>3. NoNodes(Tail(requests))
    BY <2>1, <2>2 DEF NoNodes
  <2> QED  BY <1>1, <2>1, <2>3, Zenon
<1>11. StatusTodo'
  <2>1. Ungrouped' = Ungrouped
    BY <1>1 DEF Ungrouped
  <2> QED  BY <1>1, <1>5, <2>1 DEF ConvInv, StatusTodo
<1>12. Exchange'
  <2> SUFFICES ASSUME Clean'
               PROVE  pc = "reply" /\ requests' = <<>> /\ Begins(wire', Head(todo), cluster')
    BY <1>1 DEF Exchange
  <2>1. Clean
    BY <1>1 DEF Clean
  <2>2. pc = "reply" /\ requests = <<Head(todo)>> /\ wire = <<>>
    BY <1>1, <2>1 DEF ConvInv, Exchange
  <2>3. cmd = Head(todo) /\ Tail(requests) = <<>>
    BY <2>2 DEF cmd
  <2>4. wire' = Reply(cmd)
    <3>1. Reply(cmd) \in Seq(Lines)
      BY <1>6 DEF Begins
    <3> QED  BY <1>1, <1>2, <2>2, <3>1, Concatenated
  <2> QED  BY <1>1, <1>6, <2>2, <2>3, <2>4
<1>13. StatusRead'
  <2>1. CASE Original
    <3>1. cluster' = cluster
      BY <1>1, <2>1
    <3> QED  BY <1>1, <3>1, EnvKept
  <2>2. CASE ~Original
    <3>1. NodesOf(cluster') = NodesOf(cluster)
      BY <1>4 DEF NodesOf
    <3>2. \A s : Truthful(s, cluster) => Truthful(s, cluster')
      BY <1>4, <3>1 DEF Truthful
    <3> QED  BY <1>1, <1>3, <1>5, <2>2, <3>2 DEF ConvInv, StatusRead
  <2> QED  BY <2>1, <2>2
<1>14. AnswersTrue'
  BY <1>1, <1>3 DEF ConvInv, AnswersTrue, HasStatus
<1> QED  BY <1>4, <1>7, <1>8, <1>9, <1>10, <1>11, <1>12, <1>13, <1>14 DEF ConvInv

\* Fewer newcomers, and one command less about them.
LEMMA GroupsAnswer ==
    ASSUME ConvInv, GroupsToCreate, Answer
    PROVE  GroupsToCreate'
<1> DEFINE cmd == Head(requests)
<1>0. PICK new : new = 1 + Max({cluster[n].group : n \in {m \in DOMAIN cluster :
                                cluster[m].group < NodeGroupNewDisconnectedDataNode}})
  OBVIOUS
<1>1. /\ UNCHANGED <<program, pc, stage, todo>> /\ requests' = Tail(requests)
      /\ ~Original => pc = "reply" /\ requests = <<cmd>> /\ todo # <<>> /\ cmd = todo[1]
  BY <1>0, AnswerFacts
<1> SUFFICES ASSUME ~Original'
             PROVE  GroupsToCreate'
  BY DEF GroupsToCreate
<1>2. ~Original
  BY <1>1 DEF Original
<1>3. Len(todo) \in Nat /\ 1 \in 1..Len(todo) /\ Len(todo) >= 1
  <2>1. todo \in Seq(CommandsSent)
    BY DEF ConvInv, Sequences
  <2> QED  BY <1>1, <1>2, <2>1
<1>4. requests' = <<>>
  BY <1>1, <1>2
<1> HIDE DEF cmd
<1>5. DOMAIN cluster' = DOMAIN cluster /\ \A n \in DOMAIN cluster \ NodesIn(cmd) : cluster'[n] = cluster[n]
  BY <1>2, AnswerCluster DEF cmd
<1>6. Newcomers \ NodesIn(cmd) \subseteq Newcomers'
  BY <1>5 DEF Newcomers
<1>7. ASSUME NEW i \in 1..Len(todo), i > 1
      PROVE  NodesIn(todo[i]) \subseteq Newcomers'
  <2>1. i # 1
    BY <1>7
  <2>2. NodesIn(todo[i]) \subseteq Newcomers
    BY <1>2, <1>7 DEF GroupsToCreate
  <2>3. NodesIn(todo[i]) \cap NodesIn(todo[1]) = {}
    BY <1>2, <1>3, <2>1 DEF GroupsToCreate
  <2>4. cmd = todo[1]
    BY <1>1, <1>2 DEF cmd
  <2> QED  BY <1>6, <2>2, <2>3, <2>4
<1>8. \A i \in 1..Len(todo) : /\ todo[i].name = "create nodegroup"
                              /\ IsFiniteSet(NodesIn(todo[i]))
                              /\ Cardinality(NodesIn(todo[i])) = Redundancy
  BY <1>2 DEF GroupsToCreate
<1>9. \A i, j \in 1..Len(todo) : i # j => NodesIn(todo[i]) \cap NodesIn(todo[j]) = {}
  BY <1>2 DEF GroupsToCreate
<1>10. pc' = "reply" /\ todo' = todo
  BY <1>1, <1>2
<1>11. \A i \in 1..Len(todo) : i > 1 \/ pc' # "reply" => NodesIn(todo[i]) \subseteq Newcomers'
  BY <1>7, <1>10
<1> QED  BY <1>4, <1>8, <1>9, <1>10, <1>11 DEF GroupsToCreate

-----------------------------------------------------------------------------
(* Reading a reply *)

\* What the initializers ask for after the status: node ids, their own.
Claims ==
    program \in Initializers /\ stage = "work" =>
        \A i \in 1..Len(todo) :
            /\ todo[i] = TryReserveNodeId(todo[i].node)
            /\ program = "initialize data node" => todo[i].node = OwnId

\* A reply that is over, while nothing has gone wrong: the lines are its own.
LEMMA CleanRead ==
    ASSUME ConvInv, Clean, pc = "reply", NEW cmd, cmd = Head(todo), ReplyIsOver(LastLine(cmd))
    PROVE  /\ cmd \in CommandsSent /\ requests = <<>> /\ Begins(wire, cmd, cluster)
           /\ LastLine(cmd) = 0 \/ LastLine(cmd) = Len(wire)
<1>1. wire \in Seq(Lines) /\ todo \in Seq(CommandsSent) /\ todo # <<>>
  BY DEF ConvInv, Sequences, Flow
<1>2. cmd \in CommandsSent
  BY <1>1
<1>3. \/ requests = <<cmd>> /\ wire = <<>>
      \/ requests = <<>> /\ Begins(wire, cmd, cluster)
  BY DEF ConvInv, Exchange
<1>4. wire = <<>> \/ Begins(wire, cmd, cluster)
  BY <1>3
<1>5. LastLine(cmd) = 0 \/ LastLine(cmd) = Len(wire)
  BY <1>1, <1>4, LastLineFacts
<1>6. ~(requests = <<cmd>> /\ wire = <<>>)
  <2> SUFFICES ASSUME requests = <<cmd>>, wire = <<>>
               PROVE  FALSE
    OBVIOUS
  <2>1. LastLine(cmd) = 0
    BY <1>5
  <2>2. ~conn.open
    BY <2>1 DEF ReplyIsOver
  <2>3. requests # <<>>
    OBVIOUS
  <2> QED  BY <2>2, <2>3 DEF ConvInv, Flow
<1> QED  BY <1>2, <1>3, <1>5, <1>6

\* A reply that is not as it should be.
LEMMA ConvReadFails ==
    ASSUME ConvInv, TypeInv', pc = "reply", UNCHANGED <<program, cluster, answers, timeouts>>,
           NEW cmd, cmd = Head(todo), NEW last, last = LastLine(cmd), ReplyIsOver(last), Fails,
           LeftAfterReply(last)
    PROVE  ConvInv'
<1>1. wire \in Seq(Lines) /\ Len(wire) \in Nat
  BY DEF ConvInv, Sequences
<1>0. (IF last = 0 THEN Len(wire) ELSE last) \in Nat
  BY <1>1, LastLineType
<1>7. PICK n \in {IF last = 0 THEN Len(wire) ELSE last, Len(wire)} :
          LeftAfterError(SubSeq(wire, n + 1, Len(wire)))
  BY DEF LeftAfterReply
<1>8. n \in Nat
  BY <1>0, <1>1, <1>7
<1> DEFINE rest == SubSeq(wire, n + 1, Len(wire))
<1>2. rest \in Seq(Lines)
  BY <1>1, <1>8, RestOfWire
<1>3. wire' = rest \/ wire' = <<>>
  BY <1>7 DEF LeftAfterError
<1>4. wire' \in Seq(Lines)
  BY <1>2, <1>3, NoElements
<1>5. ASSUME Clean'
      PROVE  wire' = <<>> /\ requests = <<>>
  <2>1. stage' = stage
    BY DEF Fails
  <2>2. Clean
    BY <1>5, <2>1 DEF Clean
  <2>3. requests = <<>> /\ n = Len(wire)
    BY <1>7, <2>2, CleanRead
  <2>4. rest = <<>>
    BY <1>1, <2>3, WholeWire
  <2> HIDE DEF rest
  <2> QED  BY <1>3, <2>3, <2>4
<1> QED  BY <1>4, <1>5, ConvFails

\* The number of nodes, and what the lines D say of them, is true.
TrueLines(D) ==
    /\ \E l \in D : l.part = "nodes"
    /\ \A l \in D : l.part = "nodes" => l.node = Cardinality(Nodes)
    /\ \A l \in D : l.part \in {"type", "state"} =>
          /\ l.node \in Nodes
          /\ l.node \in DOMAIN cluster => l.ns = cluster[l.node]
          /\ l.node \notin DOMAIN cluster => l.ns.type # "NDB"
    /\ (\E l \in D : l.part = "type" /\ l.node = ApiNode) =>
          \A n \in DOMAIN cluster : \E l \in D : l.part = "state" /\ l.node = n

\* What GetStatus makes of lines that are true.
LEMMA CollectedFacts ==
    ASSUME ClusterOK, NEW last, NEW D, D = Details(last), NEW s, s = Collected(last),
           TrueLines(D)
    PROVE  Truthful(s, cluster) /\ GroupsTrue(s, cluster)
<1> DEFINE lines(part, n) == {l \in D : l.part = part /\ l.node = n}
           ids == {l.node : l \in {k \in D : k.part \in {"type", "state"}}}
           isConnected(n) == \E l \in lines("state", n) : l.ns.connected
           t(n) == IF lines("type", n) = {} THEN "NDB" ELSE (CHOOSE l \in lines("type", n) : TRUE).ns.type
           b(n) == lines("type", n) # {} /\ isConnected(n)
           g(n) == IF isConnected(n) THEN (CHOOSE l \in lines("state", n) : TRUE).ns.group ELSE Unknown
           d == (CHOOSE l \in D : l.part = "nodes").node
           T == {n \in ids : lines("type", n) # {}}
           N == [n \in ids |-> NodeStatus(t(n), b(n), g(n))]
<1>0. /\ \E l \in D : l.part = "nodes"
      /\ \A l \in D : l.part = "nodes" => l.node = Cardinality(Nodes)
      /\ \A l \in D : l.part \in {"type", "state"} =>
            /\ l.node \in Nodes
            /\ l.node \in DOMAIN cluster => l.ns = cluster[l.node]
            /\ l.node \notin DOMAIN cluster => l.ns.type # "NDB"
      /\ (\E l \in D : l.part = "type" /\ l.node = ApiNode) =>
            \A n \in DOMAIN cluster : \E l \in D : l.part = "state" /\ l.node = n
  BY DEF TrueLines
<1> USE <1>0
<1>1. s = [declared |-> d, typed |-> T, nodes |-> N]
  BY DEF Collected
<1>2. d = Cardinality(Nodes)
  OBVIOUS
<1>3. ids \subseteq Nodes
  OBVIOUS
<1>4. \A n : \A l \in lines("type", n) : /\ l.part = "type" /\ l.node = n /\ l \in D
  OBVIOUS
<1>5. \A n : \A l \in lines("state", n) : l.part = "state" /\ l.node = n /\ l \in D
  OBVIOUS
<1>6. \A n \in T : IF n \in DOMAIN cluster THEN t(n) = cluster[n].type ELSE t(n) # "NDB"
  <2> SUFFICES ASSUME NEW n \in T
               PROVE  IF n \in DOMAIN cluster THEN t(n) = cluster[n].type ELSE t(n) # "NDB"
    OBVIOUS
  <2>1. lines("type", n) # {}
    OBVIOUS
  <2>2. PICK l \in lines("type", n) : t(n) = l.ns.type
    <3> HIDE DEF lines
    <3> QED  BY <2>1
  <2>3. l.part = "type" /\ l.node = n /\ l \in D
    BY <1>4
  <2>4. (n \in DOMAIN cluster => l.ns = cluster[n]) /\ (n \notin DOMAIN cluster => l.ns.type # "NDB")
    BY <2>3
  <2> HIDE DEF lines, t
  <2> QED  BY <2>2, <2>4
<1>7. \A n \in DOMAIN cluster : cluster[n].type = "NDB" /\ cluster[n].connected \in BOOLEAN
  BY DEF ClusterOK
<1>8. ASSUME ApiNode \in T, NEW n \in DOMAIN cluster
      PROVE  isConnected(n) <=> cluster[n].connected
  <2>1. \E l \in D : l.part = "type" /\ l.node = ApiNode
    BY <1>4, <1>8
  <2>2. PICK l \in D : l.part = "state" /\ l.node = n
    BY <2>1
  <2>3. l \in lines("state", n)
    BY <2>2
  <2>4. \A k \in lines("state", n) : k.ns = cluster[n]
    OBVIOUS
  <2> HIDE DEF lines
  <2> QED  BY <2>3, <2>4
<1>9. ASSUME NEW n \in DOMAIN cluster, isConnected(n)
      PROVE  g(n) = cluster[n].group
  <2>1. \A k \in lines("state", n) : k.ns = cluster[n]
    OBVIOUS
  <2>2. lines("state", n) # {}
    BY <1>9
  <2> HIDE DEF lines
  <2> QED  BY <1>9, <2>1, <2>2
<1>10. \A n \in T : lines("type", n) # {} /\ n \in ids
  OBVIOUS
<1> HIDE DEF lines, ids, isConnected, d, T
<1>11. s.declared = d /\ s.typed = T /\ s.nodes = N /\ DOMAIN N = ids
  BY <1>1
<1>12. \A n \in ids : N[n] = NodeStatus(t(n), b(n), g(n))
  OBVIOUS
<1> HIDE DEF N
<1>13. \A x, y, z : /\ NodeStatus(x, y, z).type = x
                    /\ NodeStatus(x, y, z).connected = y
                    /\ NodeStatus(x, y, z).group = z
  BY DEF NodeStatus
<1>14. \A n \in ids : N[n].type = t(n) /\ N[n].connected = b(n) /\ N[n].group = g(n)
  <2> HIDE DEF t, b, g
  <2> SUFFICES ASSUME NEW n \in ids
               PROVE  N[n].type = t(n) /\ N[n].connected = b(n) /\ N[n].group = g(n)
    OBVIOUS
  <2>1. N[n] = NodeStatus(t(n), b(n), g(n))
    BY <1>12, Zenon
  <2>2. N[n].type = t(n)
    BY <1>13, <2>1
  <2>3. N[n].connected = b(n)
    BY <1>13, <2>1
  <2>4. N[n].group = g(n)
    BY <1>13, <2>1
  <2> QED  BY <2>2, <2>3, <2>4, Zenon
<1>15. \A n \in ids : N[n] = NodeStatus(N[n].type, N[n].connected, N[n].group)
  <2> HIDE DEF t, b, g
  <2> SUFFICES ASSUME NEW n \in ids
               PROVE  N[n] = NodeStatus(N[n].type, N[n].connected, N[n].group)
    OBVIOUS
  <2>1. N[n] = NodeStatus(t(n), b(n), g(n))
    BY <1>12, Zenon
  <2>2. N[n].type = t(n) /\ N[n].connected = b(n) /\ N[n].group = g(n)
    BY <1>14, Zenon
  <2> QED  BY <2>1, <2>2, Zenon
<1>16. \A n \in T : IsDataNode(N[n]) <=> n \in DOMAIN cluster
  <2> HIDE DEF t, b, g
  <2> QED  BY <1>6, <1>7, <1>10, <1>14 DEF IsDataNode
<1>17. ASSUME ApiNode \in T, NEW n \in DOMAIN cluster, n \in T
       PROVE  /\ N[n].connected = cluster[n].connected
              /\ cluster[n].connected => N[n].group = cluster[n].group
              /\ ~cluster[n].connected => N[n].group = Unknown
  <2>1. n \in ids /\ lines("type", n) # {}
    BY <1>10, <1>17
  <2>2. isConnected(n) <=> cluster[n].connected
    BY <1>8, <1>17
  <2>3. b(n) <=> cluster[n].connected
    BY <2>1, <2>2
  <2>4. b(n) = cluster[n].connected
    BY <1>7, <2>3, Zenon DEF b
  <2>5. cluster[n].connected => g(n) = cluster[n].group
    BY <1>9, <2>2
  <2>6. ~cluster[n].connected => g(n) = Unknown
    BY <2>2
  <2> HIDE DEF b, g, t
  <2> QED  BY <1>14, <2>1, <2>4, <2>5, <2>6, Zenon
<1>18. N = [n \in ids |-> N[n]]
  BY DEF N
<1>19. s = [declared |-> s.declared, typed |-> s.typed, nodes |-> [n \in DOMAIN s.nodes |-> s.nodes[n]]]
  <2>0. N = [n \in DOMAIN N |-> N[n]]
    BY <1>11, <1>18
  <2>1. s.nodes = [n \in DOMAIN s.nodes |-> s.nodes[n]]
    BY <1>11, <2>0
  <2>2. s = [declared |-> s.declared, typed |-> s.typed, nodes |-> s.nodes]
    BY <1>1, <1>11, Zenon
  <2> QED  BY <2>1, <2>2, Zenon
<1>20. T \subseteq ids
  BY <1>10
<1>21. Truthful(s, cluster)
  <2>1. s.declared = Cardinality(NodesOf(cluster))
    BY <1>2, <1>11 DEF Nodes
  <2>2. s.typed \subseteq DOMAIN s.nodes /\ DOMAIN s.nodes \subseteq NodesOf(cluster)
    BY <1>3, <1>11, <1>20 DEF Nodes
  <2>3. \A n \in DOMAIN s.nodes :
          s.nodes[n] = NodeStatus(s.nodes[n].type, s.nodes[n].connected, s.nodes[n].group)
    BY <1>11, <1>15, Zenon
  <2>4. \A n \in s.typed : IsDataNode(s.nodes[n]) <=> n \in DOMAIN cluster
    BY <1>11, <1>16, Zenon
  <2>5. ApiNode \in s.typed => \A n \in DOMAIN cluster \cap s.typed : s.nodes[n].connected = cluster[n].connected
    BY <1>11, <1>17, Zenon
  <2> QED  BY <1>19, <2>1, <2>2, <2>3, <2>4, <2>5, Zenon DEF Truthful
<1>22. GroupsTrue(s, cluster)
  BY <1>11, <1>17 DEF GroupsTrue
<1> QED  BY <1>21, <1>22

\* What a client does with a reply in order.
Used(cmd, last) ==
    /\ Succeeds(cmd, last) /\ ReadUpTo(IF last = 0 THEN Len(wire) ELSE last)
    /\ cmd.name = "get config_v2" => answers[cmd] # Nil
    /\ pc' = "ready" /\ UNCHANGED <<conn, requests, stage, streak, granted>>
    /\ cmd.name = "get status" => status' = Collected(last) /\ todo' = <<>>
    /\ cmd.name = "get config_v2" /\ stage = "status" =>
          status' = [status EXCEPT !.nodes[cmd.node].group = answers[cmd].v]
    /\ cmd.name # "get status" => todo' = Tail(todo)
    /\ cmd.name # "get status" /\ ~(cmd.name = "get config_v2" /\ stage = "status") => status' = status
    /\ cmd.name = "get config_v2" /\ stage = "work" => values' = Append(values, answers[cmd])
    /\ ~(cmd.name = "get config_v2" /\ stage = "work") => values' = values

\* Reading a reply: the command fails, or its values are used.
LEMMA ReadFacts ==
    ASSUME ConvInv, ReadReply, NEW cmd, cmd = Head(todo), NEW last, last = LastLine(cmd)
    PROVE  /\ pc = "reply" /\ ReplyIsOver(last)
           /\ UNCHANGED <<program, config, answers, cluster, dns, free, up, crashes, timeouts>>
           /\ \/ Fails /\ LeftAfterReply(last)
              \/ Used(cmd, last)
<1>1. /\ pc = "reply" /\ ReplyIsOver(last)
      /\ UNCHANGED <<program, config, answers, cluster, dns, free, up, crashes, timeouts>>
  BY DEF ReadReply, env
<1> DEFINE fails == Fails /\ LeftAfterReply(last)
           ok == Succeeds(cmd, last) /\ ~(cmd.name = "get config_v2" /\ answers[cmd] = Nil)
           readUp == ReadUpTo(IF last = 0 THEN Len(wire) ELSE last)
           takes == CASE cmd.name = "get status" ->
                            status' = Collected(last) /\ todo' = <<>> /\ UNCHANGED values
                      [] cmd.name = "get config_v2" /\ stage = "status" ->
                            /\ status' = [status EXCEPT !.nodes[cmd.node].group = answers[cmd].v]
                            /\ todo' = Tail(todo)
                            /\ UNCHANGED values
                      [] cmd.name = "get config_v2" /\ stage = "work" ->
                            /\ values' = Append(values, answers[cmd])
                            /\ todo' = Tail(todo)
                            /\ UNCHANGED status
                      [] OTHER -> todo' = Tail(todo) /\ UNCHANGED <<status, values>>
           rest == pc' = "ready" /\ UNCHANGED <<conn, requests, stage, streak, granted>>
<1>2. fails \/ (ok /\ readUp /\ takes /\ rest)
  BY DEF ReadReply
<1>3. stage \in {"status", "work"}
  BY DEF ConvInv, TypeInv, TypeOK
<1>4. takes =>
        /\ cmd.name = "get status" => status' = Collected(last) /\ todo' = <<>>
        /\ cmd.name = "get config_v2" /\ stage = "status" =>
              status' = [status EXCEPT !.nodes[cmd.node].group = answers[cmd].v]
        /\ cmd.name # "get status" => todo' = Tail(todo)
        /\ cmd.name # "get status" /\ ~(cmd.name = "get config_v2" /\ stage = "status") => status' = status
        /\ cmd.name = "get config_v2" /\ stage = "work" => values' = Append(values, answers[cmd])
        /\ ~(cmd.name = "get config_v2" /\ stage = "work") => values' = values
  <2> SUFFICES ASSUME takes
               PROVE  /\ cmd.name = "get status" => status' = Collected(last) /\ todo' = <<>>
                      /\ cmd.name = "get config_v2" /\ stage = "status" =>
                            status' = [status EXCEPT !.nodes[cmd.node].group = answers[cmd].v]
                      /\ cmd.name # "get status" => todo' = Tail(todo)
                      /\ cmd.name # "get status" /\ ~(cmd.name = "get config_v2" /\ stage = "status") =>
                            status' = status
                      /\ cmd.name = "get config_v2" /\ stage = "work" => values' = Append(values, answers[cmd])
                      /\ ~(cmd.name = "get config_v2" /\ stage = "work") => values' = values
    OBVIOUS
  <2>1. CASE cmd.name = "get status"
    BY <2>1
  <2>2. CASE cmd.name = "get config_v2" /\ stage = "status"
    BY <2>2
  <2>3. CASE cmd.name = "get config_v2" /\ stage = "work"
    BY <2>3
  <2>4. CASE cmd.name \notin {"get status", "get config_v2"}
    BY <2>4
  <2> QED  BY <1>3, <2>1, <2>2, <2>3, <2>4
<1> HIDE DEF fails, takes, readUp, rest
<1>5. CASE fails
  BY <1>1, <1>5 DEF fails
<1>6. CASE ok /\ readUp /\ takes /\ rest
  BY <1>1, <1>4, <1>6 DEF Used, readUp, rest
<1> QED  BY <1>2, <1>5, <1>6

\* The node group of one node is put into a status.
PutGroup(s, n, v) == [s EXCEPT !.nodes[n].group = v]

\* The status t is s, but for that.
Put(s, n, v, t) ==
    /\ t.typed = s.typed /\ DOMAIN t.nodes = DOMAIN s.nodes
    /\ t.nodes[n].group = v
    /\ \A m \in DOMAIN s.nodes \ {n} : t.nodes[m] = s.nodes[m]

\* A true node group keeps the status true.
LEMMA GroupPut ==
    ASSUME NEW s, NEW c, Truthful(s, c), NEW n \in s.typed, NEW v,
           NEW t, t = PutGroup(s, n, v)
    PROVE  Truthful(t, c) /\ Put(s, n, v, t)
<1> DEFINE N == s.nodes
<1>1. /\ s = [declared |-> s.declared, typed |-> s.typed, nodes |-> [m \in DOMAIN N |-> N[m]]]
      /\ s.declared = Cardinality(NodesOf(c))
      /\ s.typed \subseteq DOMAIN N /\ DOMAIN N \subseteq NodesOf(c)
      /\ \A m \in DOMAIN N : N[m] = NodeStatus(N[m].type, N[m].connected, N[m].group)
      /\ \A m \in s.typed : IsDataNode(N[m]) <=> m \in DOMAIN c
      /\ ApiNode \in s.typed => \A m \in DOMAIN c \cap s.typed : N[m].connected = c[m].connected
  BY DEF Truthful
<1> HIDE DEF N
<1>2. n \in DOMAIN N
  BY <1>1
<1>3. PICK d : d = s.declared
  OBVIOUS
<1>4. PICK T : T = s.typed
  OBVIOUS
<1>5. PICK M : M = [m \in DOMAIN N |-> N[m]]
  OBVIOUS
<1>6. s = [declared |-> d, typed |-> T, nodes |-> M]
  BY <1>1, <1>3, <1>4, <1>5, Zenon
<1>7. DOMAIN M = DOMAIN N /\ \A m \in DOMAIN N : M[m] = N[m]
  BY <1>5
<1>8. PICK q : q = [M[n] EXCEPT !.group = v]
  OBVIOUS
<1>9. PICK Q : Q = [M EXCEPT ![n] = q]
  OBVIOUS
<1>10. t = [declared |-> d, typed |-> T, nodes |-> Q]
  <2>1. t = [[declared |-> d, typed |-> T, nodes |-> M] EXCEPT !.nodes[n].group = v]
    BY <1>6 DEF PutGroup
  <2> QED  BY <1>8, <1>9, <2>1
<1>11. t.declared = d /\ t.typed = T /\ t.nodes = Q
  BY <1>10
<1>12. DOMAIN Q = DOMAIN N /\ \A m \in DOMAIN N : Q[m] = IF m = n THEN q ELSE N[m]
  BY <1>5, <1>7, <1>9
<1>13. q = NodeStatus(N[n].type, N[n].connected, v)
  <2>1. \A x, y, z : [NodeStatus(x, y, z) EXCEPT !.group = v] = NodeStatus(x, y, v)
    BY DEF NodeStatus
  <2>2. M[n] = NodeStatus(N[n].type, N[n].connected, N[n].group)
    BY <1>1, <1>2, <1>7
  <2> QED  BY <1>8, <2>1, <2>2
<1>14. \A x, y, z : /\ NodeStatus(x, y, z).type = x
                    /\ NodeStatus(x, y, z).connected = y
                    /\ NodeStatus(x, y, z).group = z
  BY DEF NodeStatus
<1>15. q.type = N[n].type
  BY <1>13, <1>14
<1>16. q.connected = N[n].connected
  BY <1>13, <1>14
<1>17. q.group = v
  BY <1>13, <1>14
<1>18. Q[n] = q
  BY <1>2, <1>12
<1>19. \A m \in DOMAIN Q : Q[m] = NodeStatus(Q[m].type, Q[m].connected, Q[m].group)
  <2>1. q = NodeStatus(q.type, q.connected, q.group)
    BY <1>13, <1>15, <1>16, <1>17, Zenon
  <2> SUFFICES ASSUME NEW m \in DOMAIN Q
               PROVE  Q[m] = NodeStatus(Q[m].type, Q[m].connected, Q[m].group)
    OBVIOUS
  <2>2. CASE m = n
    BY <1>18, <2>1, <2>2, Zenon
  <2>3. CASE m # n
    <3>1. Q[m] = N[m] /\ m \in DOMAIN N
      BY <1>12, <2>3
    <3> QED  BY <1>1, <3>1, Zenon
  <2> QED  BY <2>2, <2>3
<1>20. \A m \in DOMAIN N : Q[m].type = N[m].type
  BY <1>12, <1>15
<1>21. \A m \in DOMAIN N : Q[m].connected = N[m].connected
  <2> SUFFICES ASSUME NEW m \in DOMAIN N
               PROVE  Q[m].connected = N[m].connected
    OBVIOUS
  <2>1. CASE m = n
    BY <1>16, <1>18, <2>1, Zenon
  <2>2. CASE m # n
    <3>1. Q[m] = N[m]
      BY <1>12, <2>2
    <3> QED  BY <3>1, Zenon
  <2> QED  BY <2>1, <2>2
<1>22. \A m \in t.typed : IsDataNode(t.nodes[m]) <=> m \in DOMAIN c
  <2> SUFFICES ASSUME NEW m \in T
               PROVE  Q[m].type = "NDB" <=> m \in DOMAIN c
    BY <1>11 DEF IsDataNode
  <2>1. N[m].type = "NDB" <=> m \in DOMAIN c
    BY <1>1, <1>4 DEF IsDataNode
  <2>2. Q[m].type = N[m].type
    BY <1>1, <1>4, <1>20
  <2> QED  BY <2>1, <2>2
<1>23. ApiNode \in t.typed => \A m \in DOMAIN c \cap t.typed : t.nodes[m].connected = c[m].connected
  <2> SUFFICES ASSUME ApiNode \in T, NEW m \in DOMAIN c \cap T
               PROVE  Q[m].connected = c[m].connected
    BY <1>11, Zenon
  <2>1. m \in DOMAIN N
    BY <1>1, <1>4
  <2>2. Q[m].connected = N[m].connected
    BY <1>21, <2>1, Zenon
  <2>3. N[m].connected = c[m].connected
    BY <1>1, <1>4, Zenon
  <2> QED  BY <2>2, <2>3, Zenon
<1>24. t = [declared |-> t.declared, typed |-> t.typed, nodes |-> [m \in DOMAIN t.nodes |-> t.nodes[m]]]
  <2>1. Q = [m \in DOMAIN Q |-> Q[m]]
    BY <1>5, <1>9
  <2>2. t.nodes = [m \in DOMAIN t.nodes |-> t.nodes[m]]
    BY <1>11, <2>1
  <2>3. t = [declared |-> t.declared, typed |-> t.typed, nodes |-> t.nodes]
    BY <1>10, <1>11, Zenon
  <2> QED  BY <2>2, <2>3, Zenon
<1>25. t.declared = Cardinality(NodesOf(c))
  BY <1>1, <1>3, <1>11
<1>26. t.typed \subseteq DOMAIN t.nodes /\ DOMAIN t.nodes \subseteq NodesOf(c)
  BY <1>1, <1>4, <1>11, <1>12
<1>27. \A m \in DOMAIN t.nodes : t.nodes[m] = NodeStatus(t.nodes[m].type, t.nodes[m].connected, t.nodes[m].group)
  BY <1>11, <1>19, Zenon
<1>28. Truthful(t, c)
  BY <1>22, <1>23, <1>24, <1>25, <1>26, <1>27, Zenon DEF Truthful
<1>29. DOMAIN t.nodes = DOMAIN s.nodes /\ t.typed = s.typed
  BY <1>4, <1>11, <1>12 DEF N
<1>30. t.nodes[n].group = v
  BY <1>11, <1>17, <1>18
<1>31. \A m \in DOMAIN s.nodes \ {n} : t.nodes[m] = s.nodes[m]
  BY <1>11, <1>12 DEF N
<1> QED  BY <1>28, <1>29, <1>30, <1>31 DEF Put

\* The data nodes as the program found them have a node group that is known.
LEMMA GroupsFound ==
    ASSUME ConvInv, Original, NEW n \in DOMAIN cluster
    PROVE  cluster[n].group # Unknown
<1>1. program \in Programs /\ cluster \in Clusters[program]
  BY DEF ConvInv, TypeInv, TypeOK, ClusterFound
<1>2. cluster \in [DOMAIN cluster -> [type : {"NDB"}, connected : BOOLEAN, group : Int \ {Unknown}]]
  BY <1>1, ClusterAssumption
<1> QED  BY <1>2

\* A node group that is looked up is put into the status.
LEMMA StatusAsked ==
    ASSUME ConvInv, pc = "reply", NEW cmd, cmd = Head(todo), NEW last,
           cmd.name = "get config_v2", stage = "status", Used(cmd, last),
           UNCHANGED <<program, cluster, answers>>
    PROVE  StatusRead' /\ todo' = <<>>
<1>0. stage' = stage /\ todo' = Tail(todo)
  BY DEF Used
<1>1. todo # <<>> /\ HasStatus /\ Original
  BY DEF ConvInv, Flow, Original
<1>2. todo # <<GetStatus>>
  <2>1. GetStatus.name = "get status"
    BY DEF GetStatus, Command
  <2>2. todo = <<GetStatus>> => cmd = GetStatus
    BY OneElement
  <2> QED  BY <2>1, <2>2
<1>3. status # NoStatus /\ \E n \in Ungrouped : todo = <<GetConfig(n, Nodegroup)>>
  BY <1>1, <1>2 DEF ConvInv, StatusTodo
<1>4. PICK n \in Ungrouped : todo = <<GetConfig(n, Nodegroup)>>
  BY <1>3
<1>5. cmd = GetConfig(n, Nodegroup) /\ Tail(todo) = <<>>
  BY <1>4, OneElement
<1>6. cmd.node = n
  <2>1. \A m, key : GetConfig(m, key).node = m
    BY DEF GetConfig, Command
  <2> QED  BY <1>5, <2>1, Zenon
<1>7. status' = [status EXCEPT !.nodes[n].group = answers[cmd].v]
  BY <1>6 DEF Used
<1>8. Truthful(status, cluster) /\ GroupsTrue(status, cluster)
  BY <1>1, <1>3 DEF ConvInv, StatusRead
<1>9. n \in status.typed /\ IsDataNode(status.nodes[n]) /\ status.nodes[n].group = Unknown
  BY DEF Ungrouped
<1>10. /\ Truthful(status', cluster) /\ status'.typed = status.typed
       /\ status'.nodes[n].group = answers[cmd].v
       /\ \A m \in DOMAIN status.nodes \ {n} : status'.nodes[m] = status.nodes[m]
  <2>1. PICK t : t = status'
    OBVIOUS
  <2>2. PICK v : v = answers[cmd].v
    OBVIOUS
  <2>3. t = PutGroup(status, n, v)
    BY <1>7, <2>1, <2>2, Zenon DEF PutGroup
  <2>4. n \in status.typed
    BY <1>9
  <2>5. Truthful(status, cluster)
    BY <1>8
  <2>6. Truthful(t, cluster) /\ Put(status, n, v, t)
    BY <2>3, <2>4, <2>5, GroupPut, Zenon
  <2> QED  BY <2>1, <2>2, <2>6, Zenon DEF Put
<1>11. n \in DOMAIN cluster /\ status.typed \subseteq DOMAIN status.nodes
  BY <1>8, <1>9 DEF Truthful
<1>12. ApiNode \in status.typed => ~cluster[n].connected
  <2>1. cluster[n].group # Unknown
    BY <1>1, <1>11, GroupsFound
  <2> QED  BY <1>8, <1>9, <1>11, <2>1 DEF GroupsTrue
<1>13. ApiNode \in status.typed /\ GroupsReadable => answers[cmd].v = cluster[n].group
  BY <1>1, <1>5, <1>11, <1>12 DEF ConvInv, AnswersTrue
<1>14. GroupsTrue(status', cluster)
  <2> SUFFICES ASSUME ApiNode \in status.typed, NEW m \in DOMAIN cluster \cap status.typed
               PROVE  /\ cluster[m].connected => status'.nodes[m].group = cluster[m].group
                      /\ ~cluster[m].connected /\ GroupsReadable =>
                            status'.nodes[m].group \in {Unknown, cluster[m].group}
    BY <1>10 DEF GroupsTrue
  <2>1. CASE m = n
    BY <1>10, <1>12, <1>13, <2>1
  <2>2. CASE m # n
    <3>1. status'.nodes[m] = status.nodes[m]
      BY <1>10, <1>11, <2>2
    <3> QED  BY <1>8, <3>1 DEF GroupsTrue
  <2> QED  BY <2>1, <2>2
<1>15. StatusRead'
  BY <1>10, <1>14 DEF StatusRead
<1> QED  BY <1>0, <1>5, <1>15

\* The status that a reply to GetStatus gives.
LEMMA StatusCollected ==
    ASSUME ConvInv, Claims, pc = "reply", NEW cmd, cmd = Head(todo), NEW last, last = LastLine(cmd),
           ReplyIsOver(last), cmd.name = "get status", Used(cmd, last), UNCHANGED <<program, cluster>>
    PROVE  StatusRead'
<1>1. todo \in Seq(CommandsSent) /\ todo # <<>> /\ wire \in Seq(Lines)
  BY DEF ConvInv, Sequences, Flow
<1>2. cmd = todo[1] /\ 1 \in 1..Len(todo) /\ cmd \in CommandsSent
  BY <1>1, HeadOf
<1>3. cmd = GetStatus
  BY <1>2, CommandNames
<1>4. Clean
  <2>1. \A n : TryReserveNodeId(n).name = "get nodeid"
    BY DEF TryReserveNodeId, Command
  <2>2. ~(program \in Initializers /\ stage = "work")
    <3> SUFFICES ASSUME program \in Initializers /\ stage = "work"
                 PROVE  FALSE
      OBVIOUS
    <3>1. cmd = TryReserveNodeId(cmd.node)
      BY <1>2 DEF Claims
    <3>2. cmd.name = "get nodeid"
      BY <2>1, <3>1, Zenon
    <3> QED  BY <3>2
  <2> QED  BY <2>2 DEF Clean
<1>5. Begins(wire, GetStatus, cluster) /\ (last = 0 \/ last = Len(wire))
  BY <1>3, <1>4, CleanRead
<1>0. PICK D : D = Details(last)
  OBVIOUS
<1>6. D = {wire[i] : i \in 1..Len(wire)}
  BY <1>0, <1>1, <1>5, WholeWire
<1>7. \E l \in D : l.part = "nodes"
  BY <1>0 DEF Used, Succeeds
<1>8. \A i \in 1..Len(wire) : StatusLine(wire, i, cluster)
  BY <1>5 DEF Begins
<1>9. \A l \in D : l.part = "nodes" => l.node = Cardinality(Nodes)
  <2> SUFFICES ASSUME NEW i \in 1..Len(wire)
               PROVE  wire[i].part = "nodes" => wire[i].node = Cardinality(Nodes)
    BY <1>6
  <2>1. StatusLine(wire, i, cluster)
    BY <1>8
  <2> QED  BY <2>1, Zenon DEF StatusLine, Nodes
<1>10. \A l \in D : l.part \in {"type", "state"} =>
               /\ l.node \in Nodes
               /\ l.node \in DOMAIN cluster => l.ns = cluster[l.node]
               /\ l.node \notin DOMAIN cluster => l.ns.type # "NDB"
  <2> SUFFICES ASSUME NEW i \in 1..Len(wire), wire[i].part \in {"type", "state"}
               PROVE  /\ wire[i].node \in Nodes
                      /\ wire[i].node \in DOMAIN cluster => wire[i].ns = cluster[wire[i].node]
                      /\ wire[i].node \notin DOMAIN cluster => wire[i].ns.type # "NDB"
    BY <1>6
  <2>1. StatusLine(wire, i, cluster)
    BY <1>8
  <2> QED  BY <2>1, Zenon DEF StatusLine, Nodes
<1>11. (\E l \in D : l.part = "type" /\ l.node = ApiNode) =>
               \A n \in DOMAIN cluster : \E l \in D : l.part = "state" /\ l.node = n
  <2> SUFFICES ASSUME NEW i \in 1..Len(wire), wire[i].part = "type", wire[i].node = ApiNode,
                      NEW n \in DOMAIN cluster
               PROVE  \E k \in D : k.part = "state" /\ k.node = n
    BY <1>6
  <2>1. n \in NodesOf(cluster) /\ n < ApiNode
    BY DEF NodesOf, ConvInv, ClusterOK
  <2>2. StatusLine(wire, i, cluster) /\ wire[i].part \in {"type", "state"}
    BY <1>8
  <2>3. \A m \in NodesOf(cluster) : m < wire[i].node =>
           \E j \in 1..(i - 1) : wire[j].part = "state" /\ wire[j].node = m
    BY <2>2, Zenon DEF StatusLine
  <2>4. PICK j \in 1..(i - 1) : wire[j].part = "state" /\ wire[j].node = n
    BY <2>1, <2>3
  <2>5. j \in 1..Len(wire)
    <3>1. Len(wire) \in Nat
      BY <1>1, LenType
    <3> QED  BY <3>1, Earlier, Zenon
  <2> QED  BY <1>6, <2>4, <2>5
<1>12. status' = Collected(last)
  BY DEF Used
<1>13. ClusterOK
  BY DEF ConvInv
<1>14. PICK s : s = Collected(last)
  OBVIOUS
<1>15. Truthful(s, cluster) /\ GroupsTrue(s, cluster)
  <2>1. TrueLines(D)
    BY <1>7, <1>9, <1>10, <1>11 DEF TrueLines
  <2> QED  BY <1>0, <1>13, <1>14, <2>1, CollectedFacts, Zenon
<1> QED  BY <1>12, <1>14, <1>15 DEF StatusRead

\* A reply that is as it should be.
LEMMA ConvUsed ==
    ASSUME ConvInv, Claims, TypeInv', pc = "reply", NEW cmd, cmd = Head(todo),
           NEW last, last = LastLine(cmd), ReplyIsOver(last), Used(cmd, last),
           UNCHANGED <<program, cluster, answers, timeouts>>
    PROVE  ConvInv'
<1>1. todo \in Seq(CommandsSent) /\ todo # <<>> /\ wire \in Seq(Lines) /\ requests \in Seq(CommandsSent)
  BY DEF ConvInv, Sequences, Flow
<1>2. /\ pc' = "ready" /\ stage' = stage /\ requests' = requests /\ conn' = conn
      /\ todo' = <<>> \/ todo' = Tail(todo)
  BY DEF Used
<1>3. todo' \in Seq(CommandsSent)
  BY <1>1, <1>2, TailOf, NoElements
<1>4. Len(wire) \in Nat /\ (IF last = 0 THEN Len(wire) ELSE last) \in Nat
  BY <1>1, LastLineType, LenType
<1>5. wire' \in Seq(Lines)
  <2>1. PICK n \in Nat : n = (IF last = 0 THEN Len(wire) ELSE last)
    BY <1>4
  <2>2. PICK more \in 0..(Len(wire) - n) : wire' = SubSeq(wire, n + more + 1, Len(wire))
    BY <2>1 DEF Used, ReadUpTo
  <2>3. n + more \in Nat
    BY <1>4
  <2> QED  BY <1>1, <2>2, <2>3, RestOfWire
<1>6. Sequences'
  BY <1>1, <1>2, <1>3, <1>5 DEF Sequences
<1>7. stage = "status" =>
         todo' = <<>> /\ StatusRead'
  <2> SUFFICES ASSUME stage = "status"
               PROVE  todo' = <<>> /\ StatusRead'
    OBVIOUS
  <2>1. CASE cmd.name = "get status"
    BY <2>1, StatusCollected DEF Used
  <2>2. CASE cmd.name = "get config_v2"
    BY <2>2, StatusAsked
  <2>3. cmd = GetStatus \/ \E n : cmd = GetConfig(n, Nodegroup)
    BY <1>1, OneElement DEF ConvInv, StatusTodo
  <2>4. cmd.name \in {"get status", "get config_v2"}
    <3>1. GetStatus.name = "get status" /\ \A n, key : GetConfig(n, key).name = "get config_v2"
      BY DEF GetStatus, GetConfig, Command
    <3> QED  BY <2>3, <3>1, Zenon
  <2> QED  BY <2>1, <2>2, <2>4
<1>8. stage # "status" => StatusRead'
  <2> SUFFICES ASSUME stage # "status"
               PROVE  StatusRead'
    OBVIOUS
  <2>1. CASE cmd.name = "get status"
    BY <2>1, StatusCollected
  <2>2. CASE cmd.name # "get status"
    <3>1. status' \in {status, NoStatus}
      BY <2>2 DEF Used
    <3> QED  BY <1>2, <3>1, EnvKept
  <2> QED  BY <2>1, <2>2
<1>9. ClusterOK' /\ ClusterFound' /\ AnswersTrue'
  BY <1>2 DEF ConvInv, ClusterOK, ClusterFound, AnswersTrue, Original, HasStatus
<1>10. Flow'
  BY <1>1, <1>2 DEF ConvInv, Flow, HasStatus
<1>11. Harmless'
  <2>1. Original' => Original
    BY <1>2 DEF Original
  <2>2. NoNodes(todo) => NoNodes(todo')
    <3>1. CASE todo' = <<>>
      BY <3>1, NoCommands
    <3>2. CASE todo' = Tail(todo)
      BY <1>1, <3>2, TailOf DEF NoNodes
    <3> QED  BY <1>2, <3>1, <3>2
  <2>3. NoNodes(requests) => NoNodes(requests')
    BY <1>2 DEF NoNodes
  <2> QED  BY <2>1, <2>2, <2>3 DEF ConvInv, Harmless
<1>12. StatusTodo'
  BY <1>2, <1>7 DEF StatusTodo
<1>13. Exchange'
  <2> SUFFICES ASSUME Clean'
               PROVE  wire' = <<>> /\ requests' = <<>>
    BY <1>2 DEF Exchange
  <2>1. Clean
    BY <1>2 DEF Clean
  <2>2. requests = <<>> /\ (last = 0 \/ last = Len(wire))
    BY <2>1, CleanRead
  <2>3. (IF last = 0 THEN Len(wire) ELSE last) = Len(wire)
    BY <2>2
  <2>4. ReadUpTo(Len(wire))
    BY <2>3 DEF Used
  <2>5. wire' = <<>>
    BY <1>1, <2>2, <2>4, WholeWire
  <2> QED  BY <1>2, <2>2, <2>5
<1> QED  BY <1>6, <1>7, <1>8, <1>9, <1>10, <1>11, <1>12, <1>13 DEF ConvInv

\* A reply that has been read leaves true values, or a connection that is not used again.
LEMMA ConvRead ==
    ASSUME ConvInv, Claims, TypeInv', ReadReply
    PROVE  ConvInv'
<1>1. PICK cmd : cmd = Head(todo)
  OBVIOUS
<1>2. PICK last : last = LastLine(cmd)
  OBVIOUS
<1>3. /\ pc = "reply" /\ ReplyIsOver(last)
      /\ UNCHANGED <<program, answers, cluster, timeouts>>
      /\ \/ Fails /\ LeftAfterReply(last)
         \/ Used(cmd, last)
  BY <1>1, <1>2, ReadFacts
<1>4. CASE Used(cmd, last)
  BY <1>1, <1>2, <1>3, <1>4, ConvUsed
<1>5. CASE Fails /\ LeftAfterReply(last)
  BY <1>1, <1>2, <1>3, <1>5, ConvReadFails
<1> QED  BY <1>3, <1>4, <1>5

-----------------------------------------------------------------------------
(* The commands that are left *)

\* Commands are executed from the first one on, or given up.
LEMMA CommandsLeft ==
    ASSUME Claims, GroupsToCreate, todo \in Seq(CommandsSent),
           UNCHANGED <<program, cluster>>, stage' = stage,
           \/ todo' = todo /\ (pc # "reply" \/ pc' = "reply" \/ program \in Initializers)
           \/ todo' = <<>>
           \/ todo # <<>> /\ todo' = Tail(todo),
           ~Original => \/ requests' = requests \/ requests' = <<>>
                        \/ pc # "reply" /\ todo # <<>> /\ requests' = <<Head(todo)>>
    PROVE  Claims' /\ GroupsToCreate'
<1>1. Newcomers' = Newcomers /\ Original' = Original
  BY DEF Newcomers, Original
<1>0. ~Original => (requests' # <<>> => NodesIn(requests'[1]) \subseteq Newcomers)
  <2> SUFFICES ASSUME ~Original, requests' # <<>>
               PROVE  NodesIn(requests'[1]) \subseteq Newcomers
    OBVIOUS
  <2>1. CASE requests' = requests
    BY <2>1 DEF GroupsToCreate
  <2>2. CASE pc # "reply" /\ todo # <<>> /\ requests' = <<Head(todo)>>
    <3>1. requests'[1] = todo[1] /\ 1 \in 1..Len(todo)
      BY <2>2, HeadOf, OneElement
    <3> QED  BY <2>2, <3>1 DEF GroupsToCreate
  <2> QED  BY <2>1, <2>2
<1>2. CASE todo' = <<>>
  <2>1. Len(todo') = 0
    BY <1>2
  <2>2. \A i \in 1..Len(todo') : FALSE
    BY <2>1
  <2>3. Claims'
    BY <2>2 DEF Claims
  <2> QED  BY <1>1, <1>0, <2>2, <2>3 DEF GroupsToCreate
<1>3. CASE todo' = todo /\ (pc # "reply" \/ pc' = "reply" \/ program \in Initializers)
  <2>1. Claims'
    BY <1>3 DEF Claims
  <2>3. ~Original => (pc # "reply" \/ pc' = "reply")
    BY <1>3 DEF Original, Initializers
  <2> QED  BY <1>1, <1>3, <1>0, <2>1, <2>3 DEF GroupsToCreate
<1>4. CASE todo # <<>> /\ todo' = Tail(todo)
  <2>1. \A i \in 1..Len(todo') : i + 1 \in 1..Len(todo) /\ todo'[i] = todo[i + 1]
    BY <1>4, TailOf
  <2>2. \A i \in 1..Len(todo') : i + 1 > 1
    OBVIOUS
  <2>3. Claims'
    BY <2>1 DEF Claims
  <2>5. ASSUME ~Original, NEW i \in 1..Len(todo')
        PROVE  /\ todo'[i].name = "create nodegroup"
               /\ IsFiniteSet(NodesIn(todo'[i]))
               /\ Cardinality(NodesIn(todo'[i])) = Redundancy
               /\ NodesIn(todo'[i]) \subseteq Newcomers
    BY <2>1, <2>2, <2>5 DEF GroupsToCreate
  <2>6. ASSUME ~Original, NEW i \in 1..Len(todo'), NEW j \in 1..Len(todo'), i # j
        PROVE  NodesIn(todo'[i]) \cap NodesIn(todo'[j]) = {}
    <3>1. i + 1 # j + 1
      BY <2>6
    <3> QED  BY <2>1, <2>6, <3>1 DEF GroupsToCreate
  <2> QED  BY <1>1, <1>0, <2>3, <2>5, <2>6 DEF GroupsToCreate
<1> QED  BY <1>2, <1>3, <1>4

\* A status that is returned has all nodes.
LEMMA StatusComplete ==
    ASSUME ConvInv, StatusReturned
    PROVE  /\ status.typed = Nodes /\ DOMAIN status.nodes = Nodes
           /\ ApiNode \in status.typed /\ DOMAIN cluster \subseteq status.typed
           /\ Truthful(status, cluster) /\ Original /\ GroupsTrue(status, cluster)
<1>1. status # NoStatus /\ stage = "status" /\ Original
  BY StatusNodes DEF Original
<1>2. Truthful(status, cluster) /\ GroupsTrue(status, cluster)
  BY <1>1 DEF ConvInv, StatusRead
<1>3. /\ status.typed \in SUBSET Nodes /\ status.typed \subseteq DOMAIN status.nodes
      /\ DOMAIN status.nodes \subseteq Nodes
      /\ status.declared = Cardinality(Nodes)
  BY <1>2 DEF Truthful, Nodes
<1>4. Cardinality(status.typed) = status.declared
  BY DEF StatusReturned
<1>5. IsFiniteSet(Nodes) /\ ApiNode \in Nodes
  BY NodesFinite DEF ConvInv
<1>6. status.typed = Nodes
  BY <1>3, <1>4, <1>5, FS_Subset
<1> QED  BY <1>1, <1>2, <1>3, <1>5, <1>6 DEF Nodes, NodesOf

\* As many values as places, if no two are the same.
LEMMA DistinctImage ==
    ASSUME NEW k \in Nat, NEW f \in [1..k -> Nat], IsInjective(f),
           NEW U, U = {f[i] : i \in 1..k}
    PROVE  IsFiniteSet(U) /\ Cardinality(U) = k
<1>1. f \in Bijection(1..k, U)
  BY DEF Bijection, Injection, Surjection, IsInjective
<1>2. ExistsBijection(1..k, U)
  BY <1>1 DEF ExistsBijection
<1>3. IsFiniteSet(1..k) /\ Cardinality(1..k) = k
  BY FS_Interval
<1> QED  BY <1>2, <1>3, FS_Bijection

\* Blocks of the same length do not overlap.
LEMMA Blocks ==
    ASSUME NEW r \in Nat, NEW i \in Nat, NEW i2 \in Nat, i >= 1, i2 >= 1,
           NEW j \in 1..r, NEW j2 \in 1..r, (i - 1) * r + j = (i2 - 1) * r + j2
    PROVE  i = i2 /\ j = j2
<1>1. \A a, b \in Nat : a + 1 <= b => a * r + r <= b * r
  <2>1. \A a, b, d \in Nat : a <= b => a * d <= b * d
    OBVIOUS
  <2>2. \A a \in Nat : (a + 1) * r = a * r + r
    OBVIOUS
  <2> SUFFICES ASSUME NEW a \in Nat, NEW b \in Nat, a + 1 <= b
               PROVE  a * r + r <= b * r
    OBVIOUS
  <2>3. a + 1 \in Nat
    OBVIOUS
  <2>4. (a + 1) * r <= b * r
    BY <2>1, <2>3
  <2> QED  BY <2>2, <2>4
<1>2. \A a, b \in Nat : a * b \in Nat
  OBVIOUS
<1>3. i - 1 \in Nat /\ i2 - 1 \in Nat
  OBVIOUS
<1>4. PICK x \in Nat : x = (i - 1) * r
  BY <1>2, <1>3
<1>5. PICK y \in Nat : y = (i2 - 1) * r
  BY <1>2, <1>3
<1>6. x + j = y + j2
  BY <1>4, <1>5
<1>7. ~(i < i2)
  <2> SUFFICES ASSUME i < i2
               PROVE  FALSE
    OBVIOUS
  <2>1. (i - 1) + 1 <= i2 - 1
    OBVIOUS
  <2>2. x + r <= y
    BY <1>1, <1>3, <1>4, <1>5, <2>1
  <2> QED  BY <1>6, <2>2
<1>8. ~(i2 < i)
  <2> SUFFICES ASSUME i2 < i
               PROVE  FALSE
    OBVIOUS
  <2>1. (i2 - 1) + 1 <= i - 1
    OBVIOUS
  <2>2. y + r <= x
    BY <1>1, <1>3, <1>4, <1>5, <2>1
  <2> QED  BY <1>6, <2>2
<1>9. i = i2
  BY <1>7, <1>8
<1> QED  BY <1>9

\* The new node groups are to get new data nodes that are connected, each node
\* once, and as many as a node group has.
LEMMA GroupsCreated ==
    ASSUME ConvInv, CreateNodeGroups
    PROVE  Claims' /\ GroupsToCreate'
<1>1. /\ pc = "ready" /\ program = "createNodeGroups" /\ pc' = "ready"
      /\ UNCHANGED <<program, cluster, requests>> /\ StatusReturned
  BY StatusNodes DEF CreateNodeGroups, env, link
<1>2. PICK cs : cs = status.nodes
  OBVIOUS
<1>3. PICK nodes : nodes = {n \in DOMAIN cs : IsDataNode(cs[n]) /\ cs[n].group = NodeGroupNewConnectedDataNode}
  OBVIOUS
<1>4. PICK new : new = GetConnectedDataNodesWithNodeGroup(cs, NodeGroupNewConnectedDataNode)
  OBVIOUS
<1>5. PICK cmds : cmds = todo'
  OBVIOUS
<1>6. cmds = [i \in 1..(Len(new) \div Redundancy) |->
                  CreateNodeGroup(SubSeq(new, (i - 1) * Redundancy + 1, i * Redundancy))]
  BY <1>2, <1>4, <1>5 DEF CreateNodeGroups
<1>7. Claims'
  BY <1>1 DEF Claims, Initializers
<1>8. requests' = <<>>
  BY <1>1 DEF ConvInv, Exchange, Clean, Initializers
<1>9. IsFiniteSet(DOMAIN cs) /\ DOMAIN cs \subseteq Nat
  BY <1>1, <1>2, StatusNodes
<1>10. /\ new \in Seq(Nat)
       /\ IsFiniteSet(nodes) /\ Cardinality(nodes) \in Nat
       /\ new = <<>> \/ new = Sorted(nodes)
       /\ Sorted(nodes) \in [1..Cardinality(nodes) -> nodes]
       /\ \A i, j \in 1..Cardinality(nodes) : i # j => Sorted(nodes)[i] # Sorted(nodes)[j]
       /\ new = <<>> \/ \A n \in nodes : cs[n].connected
  <2>1. Listed(cs, nodes, new)
    BY <1>3, <1>4, <1>9, ConnectedNodes
  <2> QED  BY <2>1, Zenon DEF Listed
<1>11. (\A n \in nodes : cs[n].connected) => nodes \subseteq Newcomers
  BY <1>1, <1>2, <1>3, StatusComplete DEF Truthful, GroupsTrue, Newcomers
<1>12. /\ cmds \in Seq(CommandsSent)
       /\ \A i \in 1..Len(cmds) :
             /\ cmds[i].name = "create nodegroup"
             /\ cmds[i].nodes \in [1..Redundancy -> Nat]
             /\ \A j \in 1..Redundancy :
                   /\ (i - 1) * Redundancy + j \in 1..Len(new)
                   /\ cmds[i].nodes[j] = new[(i - 1) * Redundancy + j]
  <2>1. Batches(new, cmds)
    BY <1>6, <1>10, GroupCommands
  <2> QED  BY <2>1, Zenon DEF Batches
<1>13. PICK k \in Nat : k = Len(cmds)
  BY <1>12, LenType
<1>14. PICK l \in Nat : l = Len(new)
  BY <1>10, LenType
<1>15. Redundancy \in Nat
  BY MgmClientAssumption
<1>16. /\ \A a \in 1..l : new[a] \in Newcomers
       /\ \A a, b \in 1..l : a # b => new[a] # new[b]
  <2>1. CASE new = <<>>
    <3>1. \A a \in 1..l : FALSE
      BY <1>14, <2>1
    <3> QED  BY <3>1
  <2>2. CASE new # <<>>
    <3>1. new = Sorted(nodes) /\ nodes \subseteq Newcomers
      BY <1>10, <1>11, <2>2
    <3>2. PICK c \in Nat : c = Cardinality(nodes)
      BY <1>10
    <3>3. new \in [1..c -> nodes] /\ \A i, j \in 1..c : i # j => new[i] # new[j]
      BY <1>10, <3>1, <3>2
    <3>4. l = c
      BY <1>14, <3>2, <3>3, FunctionSequence
    <3> QED  BY <3>1, <3>3, <3>4
  <2> QED  BY <2>1, <2>2
<1>17. ASSUME NEW i \in 1..k
       PROVE  /\ cmds[i].nodes \in [1..Redundancy -> Nat]
              /\ NodesIn(cmds[i]) = {cmds[i].nodes[j] : j \in 1..Redundancy}
  BY <1>12, <1>13 DEF NodesIn
<1>18. ASSUME NEW i \in 1..k, NEW j \in 1..Redundancy, NEW i2 \in 1..k, NEW j2 \in 1..Redundancy,
              cmds[i].nodes[j] = cmds[i2].nodes[j2]
       PROVE  i = i2 /\ j = j2
  <2>1. /\ (i - 1) * Redundancy + j \in 1..l
        /\ (i2 - 1) * Redundancy + j2 \in 1..l
        /\ new[(i - 1) * Redundancy + j] = new[(i2 - 1) * Redundancy + j2]
    BY <1>12, <1>13, <1>14, <1>18
  <2>2. (i - 1) * Redundancy + j = (i2 - 1) * Redundancy + j2
    BY <1>16, <2>1
  <2>3. i \in Nat /\ i2 \in Nat /\ i >= 1 /\ i2 >= 1
    OBVIOUS
  <2> QED  BY <1>15, <2>2, <2>3, Blocks
<1>19. ASSUME NEW i \in 1..k
       PROVE  /\ IsFiniteSet(NodesIn(cmds[i])) /\ Cardinality(NodesIn(cmds[i])) = Redundancy
              /\ NodesIn(cmds[i]) \subseteq Newcomers
  <2>1. PICK f \in [1..Redundancy -> Nat] : f = cmds[i].nodes
    BY <1>17
  <2>2. PICK U : U = NodesIn(cmds[i])
    OBVIOUS
  <2>3. U = {f[j] : j \in 1..Redundancy}
    BY <1>17, <2>1, <2>2
  <2>4. \A j, j2 \in 1..Redundancy : j # j2 => f[j] # f[j2]
    BY <1>18, <2>1
  <2>5. IsFiniteSet(U) /\ Cardinality(U) = Redundancy
    <3>1. IsInjective(f)
      BY <2>1, <2>4 DEF IsInjective
    <3>2. PICK r \in Nat : r = Redundancy
      BY <1>15
    <3>3. f \in [1..r -> Nat] /\ U = {f[j] : j \in 1..r}
      BY <2>1, <2>3, <3>2
    <3>4. IsFiniteSet(U) /\ Cardinality(U) = r
      BY <3>1, <3>2, <3>3, DistinctImage
    <3> QED  BY <3>2, <3>4
  <2>6. \A j \in 1..Redundancy : f[j] \in Newcomers
    BY <1>12, <1>13, <1>14, <1>16, <2>1
  <2> QED  BY <2>2, <2>3, <2>5, <2>6
<1>20. ASSUME NEW i \in 1..k, NEW i2 \in 1..k, i # i2
       PROVE  NodesIn(cmds[i]) \cap NodesIn(cmds[i2]) = {}
  <2> SUFFICES ASSUME NEW n \in NodesIn(cmds[i]), n \in NodesIn(cmds[i2])
               PROVE  FALSE
    OBVIOUS
  <2>1. PICK j \in 1..Redundancy : n = cmds[i].nodes[j]
    BY <1>17
  <2>2. PICK j2 \in 1..Redundancy : n = cmds[i2].nodes[j2]
    BY <1>17
  <2> QED  BY <1>18, <1>20, <2>1, <2>2
<1>21. Newcomers' = Newcomers
  BY <1>1 DEF Newcomers
<1>22. \A i \in 1..k : cmds[i].name = "create nodegroup"
  BY <1>12, <1>13
<1>23. GroupsToCreate'
  BY <1>5, <1>8, <1>13, <1>19, <1>20, <1>21, <1>22 DEF GroupsToCreate
<1> QED  BY <1>7, <1>23

-----------------------------------------------------------------------------
(* The inductive invariant *)

\* The conversation, what the commands are for, and whom they are about.
Inv == ConvInv /\ Claims /\ GroupsToCreate

\* An error leaves the commands to the initializers, and to nobody else.
LEMMA CommandsAfterError ==
    ASSUME ConvInv, Claims, GroupsToCreate, Fails, UNCHANGED <<program, cluster>>
    PROVE  Claims' /\ GroupsToCreate'
<1>1. todo \in Seq(CommandsSent)
  BY DEF ConvInv, Sequences
<1>2. CASE program \in Initializers /\ todo' = todo /\ stage' = stage /\ requests' = requests
  BY <1>1, <1>2, CommandsLeft
<1>3. CASE todo' = <<>> /\ stage' = stage /\ (requests' = requests \/ requests' = <<>>)
  BY <1>1, <1>3, CommandsLeft
<1> QED  BY <1>2, <1>3 DEF Fails

\* A MySQL Server asks for its node ids at once.
LEMMA CommandsAtFirst ==
    ASSUME ConvInv, Connect
    PROVE  Claims' /\ GroupsToCreate'
<1>1. /\ program' = program /\ todo' = FirstCommands
      /\ stage' = IF HasStatus THEN "status" ELSE "work"
  BY DEF Connect, env
<1>2. GroupsToCreate'
  <2>1. program = "createNodeGroups" => stage' = "status"
    BY <1>1 DEF HasStatus
  <2>2. Original'
    BY <1>1, <2>1 DEF Original
  <2> QED  BY <2>2 DEF GroupsToCreate
<1>3. Claims'
  <2> SUFFICES ASSUME program \in Initializers, stage' = "work", NEW i \in 1..Len(todo')
               PROVE  /\ todo'[i] = TryReserveNodeId(todo'[i].node)
                      /\ program = "initialize data node" => todo'[i].node = OwnId
    BY <1>1 DEF Claims
  <2>1. program = "initialize MySQL Server"
    BY <1>1 DEF HasStatus, Initializers
  <2>2. todo' = [j \in DOMAIN NodeIdPool |-> TryReserveNodeId(NodeIdPool[j])]
    BY <1>1, <2>1 DEF FirstCommands
  <2>3. NodeIdPool \in Seq(Nat)
    BY MgmClientAssumption
  <2>4. todo' \in Seq(CommandsSent)
    BY <1>1, FirstCommandsFacts
  <2>5. i \in DOMAIN todo'
    BY <2>4
  <2>6. i \in DOMAIN NodeIdPool /\ todo'[i] = TryReserveNodeId(NodeIdPool[i])
    BY <2>2, <2>5
  <2>7. \A n : TryReserveNodeId(n).node = n
    BY DEF TryReserveNodeId, Command
  <2> QED  BY <2>1, <2>6, <2>7
<1> QED  BY <1>2, <1>3

\* It holds in the first state.
LEMMA InvInit ==
    ASSUME Init
    PROVE  Inv
<1>1. ConvInv
  BY ConvInit
<1>2. todo = <<>> /\ stage = "status"
  BY DEF Init
<1>3. Claims /\ GroupsToCreate
  BY <1>2 DEF Claims, GroupsToCreate, Original
<1> QED  BY <1>1, <1>3 DEF Inv

\* Every step of the client, of a management server and of the world keeps it.
LEMMA InvStep ==
    ASSUME Inv, [Next]_vars
    PROVE  Inv'
<1>1. ConvInv /\ Claims /\ GroupsToCreate
  BY DEF Inv
<1>2. TypeInv'
  BY <1>1, TypeStep DEF ConvInv
<1>3. todo \in Seq(CommandsSent)
  BY <1>1 DEF ConvInv, Sequences
<1> SUFFICES ConvInv' /\ Claims' /\ GroupsToCreate'
  BY DEF Inv
<1>4. CASE Connect
  BY <1>1, <1>2, <1>4, ConvConnect, CommandsAtFirst
<1>5. CASE SendCommand
  <2>1. ConvInv'
    BY <1>1, <1>2, <1>5, ConvSend
  <2>2. UNCHANGED <<program, cluster>> /\ pc = "ready" /\ todo # <<>>
    BY <1>5 DEF SendCommand, env
  <2>3. CASE /\ pc' = "reply" /\ todo' = todo /\ stage' = stage
             /\ requests' = (IF conn.open THEN Append(requests, Head(todo)) ELSE requests)
    <3>1. ~Original => requests = <<>>
      BY <1>1, <2>2 DEF Original, ConvInv, Exchange, Clean, Initializers
    <3>2. Append(<<>>, Head(todo)) = <<Head(todo)>>
      OBVIOUS
    <3>3. ~Original => requests' = requests \/ requests' = <<Head(todo)>>
      BY <2>3, <3>1, <3>2
    <3>4. Claims' /\ GroupsToCreate'
      BY <1>1, <1>3, <2>2, <2>3, <3>3, CommandsLeft
    <3> QED  BY <2>1, <3>4
  <2>4. CASE Fails
    BY <1>1, <2>1, <2>2, <2>4, CommandsAfterError
  <2> QED  BY <1>5, <2>3, <2>4 DEF SendCommand
<1>6. CASE ReadReply
  <2>1. PICK cmd : cmd = Head(todo)
    OBVIOUS
  <2>2. PICK last : last = LastLine(cmd)
    OBVIOUS
  <2>3. /\ pc = "reply" /\ UNCHANGED <<program, cluster>>
        /\ Fails \/ Used(cmd, last)
    BY <1>1, <1>6, <2>1, <2>2, ReadFacts
  <2>4. CASE Fails
    BY <1>1, <1>2, <1>6, <2>3, <2>4, ConvRead, CommandsAfterError
  <2>5. CASE Used(cmd, last)
    <3>1. todo' = <<>> \/ todo' = Tail(todo)
      BY <2>5 DEF Used
    <3>2. stage' = stage /\ requests' = requests /\ todo # <<>>
      BY <1>1, <2>3, <2>5 DEF Used, ConvInv, Flow
    <3>3. Claims' /\ GroupsToCreate'
      BY <1>1, <1>3, <2>3, <3>1, <3>2, CommandsLeft
    <3> QED  BY <1>1, <1>2, <1>6, <3>3, ConvRead
  <2> QED  BY <2>3, <2>4, <2>5
<1>7. CASE AskNodeGroup
  <2>1. stage' = "status"
    BY <1>7 DEF AskNodeGroup
  <2>2. Claims' /\ GroupsToCreate'
    BY <2>1 DEF Claims, GroupsToCreate, Original
  <2> QED  BY <1>1, <1>2, <1>7, <2>2, ConvAskNodeGroup
<1>8. CASE StatusMiscounted
  <2>1. Fails /\ UNCHANGED <<program, cluster>>
    BY <1>8 DEF StatusMiscounted, env
  <2> QED  BY <1>1, <1>2, <1>8, <2>1, ConvMiscounted, CommandsAfterError
<1>9. CASE ReadTimesOut
  <2>1. Fails /\ UNCHANGED <<program, cluster>>
    BY <1>9 DEF ReadTimesOut, env
  <2> QED  BY <1>1, <1>2, <1>9, <2>1, ConvReadTimesOut, CommandsAfterError
<1>10. CASE IsSystemRestart
  <2>1. program' = "initialize data node" /\ todo' = <<>>
    BY <1>1, <1>10, StatusNodes DEF IsSystemRestart, env
  <2>2. \A i \in 1..Len(todo') : FALSE
    <3>1. Len(todo') = 0
      BY <2>1
    <3> QED  BY <3>1
  <2>3. Claims' /\ GroupsToCreate'
    BY <2>1, <2>2 DEF Claims, GroupsToCreate, Original
  <2> QED  BY <1>1, <1>2, <1>10, <2>3, ConvIsSystemRestart
<1>11. CASE FailureHandled
  <2>1. program = "initialize data node" /\ program' = program /\ todo = <<>> /\ pc = "failure handling"
    BY <1>1, <1>11 DEF ConvInv, Flow, FailureHandled, env
  <2>2. todo' = <<>> \/ todo' = <<TryReserveNodeId(OwnId)>>
    BY <1>11, <2>1 DEF FailureHandled
  <2>3. \A i \in 1..Len(todo') : todo'[i] = TryReserveNodeId(OwnId)
    <3>1. CASE todo' = <<>>
      <4>1. Len(todo') = 0
        BY <3>1
      <4> QED  BY <4>1
    <3>2. CASE todo' = <<TryReserveNodeId(OwnId)>>
      <4>1. Len(todo') = 1 /\ todo'[1] = TryReserveNodeId(OwnId)
        BY <3>2, OneElement
      <4>2. \A i \in 1..1 : i = 1
        OBVIOUS
      <4> QED  BY <4>1, <4>2
    <3> QED  BY <2>2, <3>1, <3>2
  <2>4. TryReserveNodeId(OwnId).node = OwnId
    BY DEF TryReserveNodeId, Command
  <2>5. Claims'
    BY <2>3, <2>4 DEF Claims
  <2>6. GroupsToCreate'
    BY <2>1 DEF GroupsToCreate, Original
  <2> QED  BY <1>1, <1>2, <1>11, <2>5, <2>6, ConvFailureHandled
<1>12. CASE EnsureDataNodePodVersion
  <2>1. program' = "ensureDataNodePodVersion"
    BY <1>12 DEF EnsureDataNodePodVersion, env
  <2>2. Claims' /\ GroupsToCreate'
    BY <2>1 DEF Claims, GroupsToCreate, Original, Initializers
  <2> QED  BY <1>1, <1>2, <1>12, <2>2, ConvEnsureVersion
<1>13. CASE CreateNodeGroups
  BY <1>1, <1>2, <1>13, ConvCreateNodeGroups, GroupsCreated
<1>14. CASE Finish
  <2>1. /\ UNCHANGED <<program, cluster, todo, stage>> /\ pc = "ready"
        /\ requests' = requests \/ requests' = <<>>
    BY <1>14 DEF Finish, env, link, Disconnect
  <2>2. Claims' /\ GroupsToCreate'
    BY <1>1, <1>3, <2>1, CommandsLeft
  <2> QED  BY <1>1, <1>2, <1>14, <2>2, ConvFinish
<1>15. CASE Answer
  <2>1. UNCHANGED <<program, todo, stage>>
    BY <1>15 DEF Answer, env, local
  <2>2. Claims'
    BY <1>1, <2>1 DEF Claims
  <2> QED  BY <1>1, <1>2, <1>15, <2>2, ConvAnswer, GroupsAnswer
<1>16. ASSUME NEW s \in 1..Mgmds, MgmdCrash(s)
       PROVE  ConvInv' /\ Claims' /\ GroupsToCreate'
  <2>1. /\ UNCHANGED <<program, cluster, todo, stage, pc>>
        /\ requests' = requests \/ requests' = <<>>
    BY <1>16 DEF MgmdCrash, env, link, local
  <2>2. Claims' /\ GroupsToCreate'
    BY <1>1, <1>3, <2>1, CommandsLeft
  <2> QED  BY <1>1, <1>2, <1>16, <2>2, ConvCrash
<1>17. CASE \/ \E r \in Replicas : LookupPod(r) \/ DnsUpdated(r)
            \/ ConnectFails
            \/ \E s \in 1..Mgmds : MgmdRestart(s)
            \/ \E id \in Ids : NodeIdFreed(id)
            \/ UNCHANGED vars
  <2>1. /\ UNCHANGED <<program, cluster, todo, stage, requests>>
        /\ pc # "reply" \/ pc' = pc
    BY <1>17 DEF LookupPod, DnsUpdated, ConnectFails, MgmdRestart, NodeIdFreed, env, link, local, vars
  <2>2. Claims' /\ GroupsToCreate'
    BY <1>1, <1>3, <2>1, CommandsLeft
  <2> QED  BY <1>1, <1>2, <1>17, <2>2, ConvQuiet
<1> QED  BY <1>4, <1>5, <1>6, <1>7, <1>8, <1>9, <1>10, <1>11, <1>12, <1>13, <1>14, <1>15, <1>16,
            <1>17 DEF Next, Client

-----------------------------------------------------------------------------
(* The status is exact *)

\* A status that is returned has for every data node what is true of it.
LEMMA ReturnedExact ==
    ASSUME Inv, GroupsReadable
    PROVE  StatusExact
<1> SUFFICES ASSUME StatusReturned
             PROVE  /\ DOMAIN status.nodes = DOMAIN AllNodes
                    /\ \A n \in DOMAIN cluster : status.nodes[n] = cluster[n]
  BY DEF StatusExact
<1>1. ConvInv /\ ClusterOK
  BY DEF Inv, ConvInv
<1>2. /\ status.typed = Nodes /\ DOMAIN status.nodes = Nodes
      /\ ApiNode \in status.typed /\ DOMAIN cluster \subseteq status.typed
      /\ Truthful(status, cluster) /\ GroupsTrue(status, cluster)
  BY <1>1, StatusComplete
<1>3. DOMAIN status.nodes = DOMAIN AllNodes
  BY <1>1, <1>2, NodesFinite
<1>4. ASSUME NEW n \in DOMAIN cluster
      PROVE  status.nodes[n] = cluster[n]
  <2>1. /\ n \in status.typed /\ n \in DOMAIN status.nodes
        /\ IsDataNode(status.nodes[n]) /\ status.nodes[n].connected = cluster[n].connected
        /\ status.nodes[n] = NodeStatus(status.nodes[n].type, status.nodes[n].connected, status.nodes[n].group)
    BY <1>2 DEF Truthful
  <2>2. status.nodes[n].group # Unknown
    BY <2>1 DEF StatusReturned, GroupsKnown, Ungrouped
  <2>3. cluster[n] \in [type : {"NDB"}, connected : BOOLEAN, group : Int]
    BY <1>1 DEF ClusterOK
  <2>4. status.nodes[n].group = cluster[n].group
    <3>1. CASE cluster[n].connected
      BY <1>2, <3>1 DEF GroupsTrue
    <3>2. CASE ~cluster[n].connected
      BY <1>2, <2>2, <3>2 DEF GroupsTrue
    <3> QED  BY <3>1, <3>2
  <2>5. status.nodes[n].type = "NDB"
    BY <2>1 DEF IsDataNode
  <2>6. cluster[n] = NodeStatus("NDB", cluster[n].connected, cluster[n].group)
    BY <2>3 DEF NodeStatus
  <2> QED  BY <2>1, <2>4, <2>5, <2>6
<1> QED  BY <1>3, <1>4

\* GetStatus returns all nodes with their true connections and node groups or an
\* error, whatever management servers stop and whatever replies are cut.  It
\* rests on the reader: a node group has to be found in the configuration.
THEOREM StatusIsExact ==
    ASSUME GroupsReadable
    PROVE  Spec => []StatusExact
<1>1. Init => Inv
  BY InvInit
<1>2. Inv /\ [Next]_vars => Inv'
  BY InvStep
<1>3. Inv => StatusExact
  BY ReturnedExact
<1> QED  BY <1>1, <1>2, <1>3, PTL DEF Spec

-----------------------------------------------------------------------------
(* Node ids are granted before they are used *)

\* The lines to be read are some of those before.
LinesKept == \A i \in 1..Len(wire') : \E j \in 1..Len(wire) : wire'[i] = wire[j]

\* A part of a sequence has elements of it.
LEMMA PartOf ==
    ASSUME NEW S, NEW s \in Seq(S), NEW a \in Nat, a >= 1, NEW b \in Nat, b <= Len(s),
           NEW t, t = SubSeq(s, a, b)
    PROVE  \A i \in 1..Len(t) : \E j \in 1..Len(s) : t[i] = s[j]
<1>1. Len(s) \in Nat /\ Len(t) = IF a <= b THEN b - a + 1 ELSE 0
  OBVIOUS
<1>2. ASSUME NEW i \in 1..Len(t)
      PROVE  \E j \in 1..Len(s) : t[i] = s[j]
  <2>1. a <= b /\ i <= b - a + 1
    BY <1>1
  <2>2. a + i - 1 \in 1..Len(s)
    BY <1>1, <2>1
  <2>3. t[i] = s[a + i - 1]
    BY <1>1, <2>1
  <2> QED  BY <2>2, <2>3
<1> QED  BY <1>2

\* Only an answer adds lines.
LEMMA LinesOfError ==
    ASSUME wire \in Seq(Lines), NEW rest, LeftAfterError(rest),
           rest = <<>> \/ \E a, b \in Nat : a >= 1 /\ b <= Len(wire) /\ rest = SubSeq(wire, a, b)
    PROVE  LinesKept
<1>1. wire' = <<>> \/ wire' = rest
  BY DEF LeftAfterError
<1>2. CASE wire' = <<>>
  <2>1. Len(wire') = 0
    BY <1>2
  <2>2. \A i \in 1..Len(wire') : FALSE
    BY <2>1
  <2> QED  BY <2>2 DEF LinesKept
<1>3. CASE \E a, b \in Nat : a >= 1 /\ b <= Len(wire) /\ wire' = SubSeq(wire, a, b)
  <2>1. PICK a \in Nat, b \in Nat : a >= 1 /\ b <= Len(wire) /\ wire' = SubSeq(wire, a, b)
    BY <1>3
  <2> QED  BY <2>1, PartOf DEF LinesKept
<1> QED  BY <1>1, <1>2, <1>3

\* Only answers add lines.
LEMMA LinesOfStep ==
    ASSUME ConvInv, [Next]_vars, ~Answer
    PROVE  LinesKept
<1>1. wire \in Seq(Lines) /\ Len(wire) \in Nat
  BY LenType DEF ConvInv, Sequences
<1>2. CASE wire' = wire
  BY <1>2 DEF LinesKept
<1>3. CASE wire' = <<>>
  <2>1. Len(wire') = 0
    BY <1>3
  <2>2. \A i \in 1..Len(wire') : FALSE
    BY <2>1
  <2> QED  BY <2>2 DEF LinesKept
<1>4. CASE SendCommand
  <2>1. wire' = wire \/ LeftAfterError(wire)
    BY <1>4 DEF SendCommand
  <2>2. LeftAfterError(wire) => wire' = wire \/ wire' = <<>>
    BY DEF LeftAfterError
  <2> QED  BY <1>2, <1>3, <2>1, <2>2
<1>5. CASE ReadReply
  <2>1. PICK cmd : cmd = Head(todo)
    OBVIOUS
  <2>2. PICK last : last = LastLine(cmd)
    OBVIOUS
  <2>3. PICK n \in Nat : n = (IF last = 0 THEN Len(wire) ELSE last)
    BY <1>1, <2>2, LastLineType
  <2>4. LeftAfterReply(last) \/ ReadUpTo(n)
    BY <1>5, <2>1, <2>2, <2>3, ReadFacts DEF Used
  <2>5. CASE LeftAfterReply(last)
    <3>1. PICK m \in {n, Len(wire)} : LeftAfterError(SubSeq(wire, m + 1, Len(wire)))
      BY <2>3, <2>5 DEF LeftAfterReply
    <3>2. m + 1 \in Nat /\ m + 1 >= 1 /\ Len(wire) <= Len(wire)
      BY <1>1, <3>1
    <3> QED  BY <1>1, <3>1, <3>2, LinesOfError
  <2>6. CASE ReadUpTo(n)
    <3>1. PICK more \in 0..(Len(wire) - n) : wire' = SubSeq(wire, n + more + 1, Len(wire))
      BY <2>6 DEF ReadUpTo
    <3>2. n + more + 1 \in Nat /\ n + more + 1 >= 1 /\ Len(wire) <= Len(wire)
      BY <1>1
    <3> QED  BY <1>1, <3>1, <3>2, PartOf DEF LinesKept
  <2> QED  BY <2>4, <2>5, <2>6
<1>6. CASE StatusMiscounted
  BY <1>1, <1>6, LinesOfError DEF StatusMiscounted
<1>7. CASE ReadTimesOut
  <2>1. PICK last : last = LastLine(Head(todo))
    OBVIOUS
  <2>2. PICK n \in 0..(IF last = 0 THEN Len(wire) ELSE last - 1) : LeftAfterError(SubSeq(wire, n + 1, Len(wire)))
    BY <1>7, <2>1 DEF ReadTimesOut
  <2>3. n + 1 \in Nat /\ n + 1 >= 1 /\ Len(wire) <= Len(wire)
    <3>1. last \in Nat
      BY <1>1, <2>1, LastLineType
    <3> QED  BY <1>1, <3>1
  <2> QED  BY <1>1, <2>2, <2>3, LinesOfError
<1>8. ASSUME NEW s \in 1..Mgmds, MgmdCrash(s)
      PROVE  LinesKept
  <2>1. wire' = wire \/ \E n \in 0..Len(wire) : wire' = SubSeq(wire, 1, n)
    BY <1>8 DEF MgmdCrash, link
  <2>2. ASSUME NEW n \in 0..Len(wire), wire' = SubSeq(wire, 1, n)
        PROVE  LinesKept
    <3>1. n \in Nat /\ n <= Len(wire) /\ 1 \in Nat /\ 1 >= 1
      BY <1>1
    <3> QED  BY <1>1, <2>2, <3>1, PartOf DEF LinesKept
  <2> QED  BY <1>2, <2>1, <2>2
<1>9. CASE \/ \E r \in Replicas : LookupPod(r) \/ DnsUpdated(r)
           \/ Connect \/ ConnectFails \/ AskNodeGroup \/ CreateNodeGroups
           \/ \E s \in 1..Mgmds : MgmdRestart(s)
           \/ \E id \in Ids : NodeIdFreed(id)
           \/ UNCHANGED vars
  <2>1. wire' = wire
    BY <1>9 DEF LookupPod, DnsUpdated, Connect, ConnectFails, AskNodeGroup, CreateNodeGroups, MgmdRestart,
                NodeIdFreed, link, vars
  <2> QED  BY <1>2, <2>1
<1>10. CASE IsSystemRestart \/ FailureHandled \/ EnsureDataNodePodVersion \/ Finish
  <2>1. wire' = wire \/ wire' = <<>>
    BY <1>10 DEF IsSystemRestart, FailureHandled, EnsureDataNodePodVersion, Finish, Disconnect, link
  <2> QED  BY <1>2, <1>3, <2>1
<1> QED  BY <1>4, <1>5, <1>6, <1>7, <1>8, <1>9, <1>10 DEF Next, Client

\* What no step takes back: only an initializer that starts over, and has read all
\* there is to read, forgets the node ids that it was granted.
LEMMA StepKeeps ==
    ASSUME Inv, [Next]_vars
    PROVE  /\ program' = program /\ free \subseteq free'
           /\ timeouts' = 0 => timeouts = 0
           /\ granted \subseteq granted' \/ (wire' = <<>> /\ stage' = "status")
           /\ Original => cluster' = cluster
<1>1. ConvInv /\ GroupsToCreate
  BY DEF Inv
<1>2. ASSUME Fails, NEW rest, LeftAfterError(rest)
      PROVE  granted \subseteq granted' \/ (wire' = <<>> /\ stage' = "status")
  <2>1. granted' = granted \/ (program \in Initializers /\ stage = "status" /\ stage' = "status")
    BY <1>2 DEF Fails
  <2>2. program \in Initializers => program # "memory"
    BY DEF Initializers
  <2> QED  BY <1>2, <2>1, <2>2 DEF LeftAfterError
<1>3. CASE SendCommand
  <2>1. UNCHANGED <<program, free, timeouts, cluster>>
    BY <1>3 DEF SendCommand, env
  <2>2. granted' = granted \/ (Fails /\ LeftAfterError(wire))
    BY <1>3 DEF SendCommand
  <2> QED  BY <1>2, <2>1, <2>2
<1>4. CASE ReadReply
  <2>1. UNCHANGED <<program, free, timeouts, cluster>>
    BY <1>4 DEF ReadReply, env
  <2>2. granted' = granted \/ (Fails /\ \E rest : LeftAfterError(rest))
    BY <1>4 DEF ReadReply, LeftAfterReply
  <2> QED  BY <1>2, <2>1, <2>2
<1>5. CASE StatusMiscounted
  BY <1>2, <1>5 DEF StatusMiscounted, env
<1>6. CASE ReadTimesOut
  <2>1. UNCHANGED <<program, free, cluster>> /\ timeouts' = timeouts + 1 /\ Fails
    BY <1>6 DEF ReadTimesOut, env
  <2>2. \E rest : LeftAfterError(rest)
    BY <1>6 DEF ReadTimesOut
  <2>3. timeouts \in 0..MaxTimeouts /\ MaxTimeouts \in Nat
    BY <1>1, MgmClientAssumption DEF ConvInv, TypeInv, TypeOK
  <2>4. timeouts' # 0
    BY <2>1, <2>3
  <2> QED  BY <1>2, <2>1, <2>2, <2>4
<1>7. CASE Answer
  <2>1. PICK cmd : cmd = Head(requests)
    OBVIOUS
  <2>2. PICK new : new = 1 + Max({cluster[n].group : n \in {m \in DOMAIN cluster :
                                cluster[m].group < NodeGroupNewDisconnectedDataNode}})
    OBVIOUS
  <2>3. Original => cluster' = cluster
    BY <1>1, <1>7, <2>1, <2>2, AnswerFacts
  <2>4. UNCHANGED <<program, free, timeouts>> /\ granted \subseteq granted'
    BY <1>7 DEF Answer, env
  <2> QED  BY <2>3, <2>4
<1>8. CASE \E s \in 1..Mgmds : MgmdCrash(s) \/ MgmdRestart(s)
  BY <1>8 DEF MgmdCrash, MgmdRestart, env
<1>9. CASE \/ \E r \in Replicas : LookupPod(r) \/ DnsUpdated(r)
           \/ Connect \/ ConnectFails \/ AskNodeGroup \/ CreateNodeGroups
           \/ \E id \in Ids : NodeIdFreed(id)
           \/ UNCHANGED vars
  BY <1>9 DEF LookupPod, DnsUpdated, Connect, ConnectFails, AskNodeGroup, CreateNodeGroups, NodeIdFreed, env, vars
<1>10. CASE IsSystemRestart \/ FailureHandled \/ EnsureDataNodePodVersion \/ Finish
  BY <1>10 DEF IsSystemRestart, FailureHandled, EnsureDataNodePodVersion, Finish, env
<1> QED  BY <1>3, <1>4, <1>5, <1>6, <1>7, <1>8, <1>9, <1>10 DEF Next, Client

\* A reply that grants a node id is true: the id is free and granted.
WireTrue ==
    \A i \in 1..Len(wire) :
        wire[i].part = "details" /\ wire[i].re.name = "get nodeid" /\ wire[i].ok =>
            wire[i].re.node \in free /\ wire[i].re.node \in granted

\* What comes after the first element is in the rest.
LEMMA Later ==
    ASSUME NEW S, NEW s \in Seq(S), s # <<>>, NEW i \in 1..Len(s), i # 1
    PROVE  i - 1 \in 1..Len(Tail(s)) /\ Tail(s)[i - 1] = s[i]
OBVIOUS

\* An empty sequence has no elements.
LEMMA Nothing ==
    ASSUME NEW s, s = <<>>
    PROVE  \A i \in 1..Len(s) : FALSE
<1>1. Len(s) = 0
  OBVIOUS
<1> QED  BY <1>1

\* u is s with the one more element x.
With(u, s, x) == \A i \in 1..Len(u) : (i \in 1..Len(s) /\ u[i] = s[i]) \/ u[i] = x

\* What is in a sequence with one more element.
LEMMA Added ==
    ASSUME NEW S, NEW s \in Seq(S), NEW x \in S, NEW u, u = Append(s, x)
    PROVE  With(u, s, x)
BY DEF With

\* Every element of u is one of s or of t.
FromBoth(u, s, t) ==
    \A i \in 1..Len(u) : (\E j \in 1..Len(s) : u[i] = s[j]) \/ (\E j \in 1..Len(t) : u[i] = t[j])

\* What is in two sequences together is in one of them.
LEMMA Joined ==
    ASSUME NEW S, NEW s \in Seq(S), NEW t \in Seq(S), NEW u, u = s \o t
    PROVE  FromBoth(u, s, t)
<1> USE DEF FromBoth
<1> SUFFICES ASSUME NEW i \in 1..Len(u)
             PROVE  (\E j \in 1..Len(s) : u[i] = s[j]) \/ (\E j \in 1..Len(t) : u[i] = t[j])
  OBVIOUS
<1>1. CASE i <= Len(s)
  <2>1. i \in 1..Len(s) /\ u[i] = s[i]
    BY <1>1
  <2> QED  BY <2>1
<1>2. CASE i > Len(s)
  <2>1. i - Len(s) \in 1..Len(t) /\ u[i] = t[i - Len(s)]
    BY <1>2
  <2> QED  BY <2>1
<1> QED  BY <1>1, <1>2

\* A reservation is confirmed only when it is made.
LEMMA WireAnswered ==
    ASSUME Inv, WireTrue, Answer
    PROVE  WireTrue'
<1>1. ConvInv /\ GroupsToCreate /\ ClusterOK
  BY DEF Inv, ConvInv
<1>2. PICK cmd : cmd = Head(requests)
  OBVIOUS
<1>3. PICK new : new = 1 + Max({cluster[n].group : n \in {m \in DOMAIN cluster :
                                cluster[m].group < NodeGroupNewDisconnectedDataNode}})
  OBVIOUS
<1>4. cmd \in CommandsSent /\ wire' = wire \o Reply(cmd)
  BY <1>1, <1>2, <1>3, AnswerFacts
<1>5. /\ free' = free
      /\ granted' = IF cmd.name = "get nodeid" /\ cmd.node \in free THEN granted \cup {cmd.node} ELSE granted
  BY <1>2 DEF Answer
<1>6. PICK r : r = Reply(cmd)
  OBVIOUS
<1>7. Begins(r, cmd, cluster)
  BY <1>1, <1>4, <1>6, ShortReplies, StatusReply
<1>8. wire \in Seq(Lines) /\ r \in Seq(Lines)
  BY <1>1, <1>7 DEF ConvInv, Sequences, Begins
<1>9. ASSUME NEW i \in 1..Len(r), r[i].part = "details", r[i].re.name = "get nodeid", r[i].ok
      PROVE  r[i].re.node \in free' /\ r[i].re.node \in granted'
  <2>1. r[i].re = cmd
    BY <1>7 DEF Begins
  <2>2. cmd.name = "get nodeid"
    BY <1>9, <2>1
  <2>3. cmd # GetStatus
    <3>1. GetStatus.name = "get status"
      BY DEF GetStatus, Command
    <3>2. "get status" # "get nodeid"
      OBVIOUS
    <3> QED  BY <2>2, <3>1, <3>2, Zenon
  <2>4. r[i].ok = (cmd.node \in free)
    BY <1>4, <1>6, <1>9, <2>2, <2>3, ShortReplies
  <2>5. cmd.node \in free
    BY <1>9, <2>4, Zenon
  <2> QED  BY <1>5, <2>1, <2>2, <2>5
<1>10. ASSUME NEW i \in 1..Len(wire)
       PROVE  wire[i].part = "details" /\ wire[i].re.name = "get nodeid" /\ wire[i].ok =>
                 wire[i].re.node \in free' /\ wire[i].re.node \in granted'
  <2>1. granted \subseteq granted'
    BY <1>5
  <2> QED  BY <1>5, <2>1, Zenon DEF WireTrue
<1>11. \A i \in 1..Len(wire') : (\E j \in 1..Len(wire) : wire'[i] = wire[j]) \/ (\E j \in 1..Len(r) : wire'[i] = r[j])
  <2>1. wire' = wire \o r
    BY <1>4, <1>6
  <2>2. FromBoth(wire', wire, r)
    BY <1>8, <2>1, Joined
  <2> QED  BY <2>2 DEF FromBoth
<1> QED
  <2> SUFFICES ASSUME NEW i \in 1..Len(wire'),
                      wire'[i].part = "details", wire'[i].re.name = "get nodeid", wire'[i].ok
               PROVE  wire'[i].re.node \in free' /\ wire'[i].re.node \in granted'
    BY DEF WireTrue
  <2>1. CASE \E j \in 1..Len(wire) : wire'[i] = wire[j]
    BY <1>10, <2>1
  <2>2. CASE \E j \in 1..Len(r) : wire'[i] = r[j]
    BY <1>9, <2>2
  <2> QED  BY <1>11, <2>1, <2>2

\* No step makes a line that is to be read untrue.
LEMMA WireTrueKept ==
    ASSUME Inv, WireTrue, [Next]_vars
    PROVE  WireTrue'
<1>1. CASE Answer
  BY <1>1, WireAnswered
<1>2. CASE ~Answer
  <2>1. LinesKept
    BY <1>2, LinesOfStep DEF Inv
  <2>2. free \subseteq free' /\ (granted \subseteq granted' \/ wire' = <<>>)
    BY StepKeeps
  <2>3. CASE wire' = <<>>
    <3>1. Len(wire') = 0
      BY <2>3
    <3>2. \A i \in 1..Len(wire') : FALSE
      BY <3>1
    <3> QED  BY <3>2 DEF WireTrue
  <2>4. CASE granted \subseteq granted'
    <3> SUFFICES ASSUME NEW i \in 1..Len(wire'),
                        wire'[i].part = "details", wire'[i].re.name = "get nodeid", wire'[i].ok
                 PROVE  wire'[i].re.node \in free' /\ wire'[i].re.node \in granted'
      BY DEF WireTrue
    <3>1. PICK j \in 1..Len(wire) : wire'[i] = wire[j]
      BY <2>1 DEF LinesKept
    <3>2. wire[j].re.node \in free /\ wire[j].re.node \in granted
      BY <3>1 DEF WireTrue
    <3> QED  BY <2>2, <2>4, <3>1, <3>2
  <2> QED  BY <2>2, <2>3, <2>4
<1> QED  BY <1>1, <1>2

\* The node ids of a MySQL Server are granted, or still asked for.
PoolClaimed ==
    program = "initialize MySQL Server" /\ timeouts = 0 /\ stage = "work" =>
        \A j \in 1..Len(NodeIdPool) :
            NodeIdPool[j] \in granted \/ \E i \in 1..Len(todo) : todo[i].node = NodeIdPool[j]

\* A data node asks for its own node id and for nothing else.
OwnAsked ==
    program = "initialize data node" /\ stage = "work" =>
        /\ \A i \in 1..Len(requests) : requests[i].node = OwnId /\ requests[i].name = "get nodeid"
        /\ \A i \in 1..Len(wire) : wire[i].re.node = OwnId /\ wire[i].re.name = "get nodeid"

\* It goes on when that is free.
OwnClaimed ==
    program = "initialize data node" /\ stage = "work" =>
        /\ pc = "ready" /\ todo = <<>> => OwnId \in free
        /\ pc = "done" => OwnId \in free \/ \A n \in DOMAIN cluster : ~cluster[n].connected

\* A program that has ended has no command left.
DoneIdle == pc = "done" => todo = <<>>

\* Confirmations are true, and every id was confirmed or is still to be asked for.
GrantInv == WireTrue /\ PoolClaimed /\ OwnAsked /\ OwnClaimed /\ DoneIdle

\* A step that leaves the commands alone.
LEMMA GrantsKept ==
    ASSUME Inv, GrantInv, [Next]_vars, stage' = stage, todo' = todo, stage' = "work" => granted \subseteq granted',
           pc' = pc \/ pc' \notin {"ready", "done"} \/ (todo # <<>> /\ pc' = "ready")
    PROVE  PoolClaimed' /\ OwnClaimed' /\ DoneIdle'
<1>1. /\ program' = program /\ free \subseteq free'
      /\ timeouts' = 0 => timeouts = 0
      /\ Original => cluster' = cluster
  BY StepKeeps
<1>2. PoolClaimed'
  <2> SUFFICES ASSUME program = "initialize MySQL Server", timeouts = 0, stage = "work",
                      NEW j \in 1..Len(NodeIdPool)
               PROVE  NodeIdPool[j] \in granted' \/ \E i \in 1..Len(todo) : todo[i].node = NodeIdPool[j]
    BY <1>1 DEF PoolClaimed
  <2>1. NodeIdPool[j] \in granted \/ \E i \in 1..Len(todo) : todo[i].node = NodeIdPool[j]
    BY DEF GrantInv, PoolClaimed
  <2> QED  BY <2>1
<1>3. OwnClaimed'
  <2>1. program = "initialize data node" => cluster' = cluster
    BY <1>1 DEF Original
  <2> SUFFICES ASSUME program = "initialize data node", stage = "work"
               PROVE  /\ pc' = "ready" /\ todo = <<>> => OwnId \in free'
                      /\ pc' = "done" => OwnId \in free' \/ \A n \in DOMAIN cluster : ~cluster[n].connected
    BY <1>1, <2>1 DEF OwnClaimed
  <2>2. /\ pc = "ready" /\ todo = <<>> => OwnId \in free
        /\ pc = "done" => OwnId \in free \/ \A n \in DOMAIN cluster : ~cluster[n].connected
    BY DEF GrantInv, OwnClaimed
  <2> QED  BY <1>1, <2>2
<1>4. DoneIdle'
  BY DEF GrantInv, DoneIdle
<1> QED  BY <1>2, <1>3, <1>4

\* The data node's commands and replies.
LEMMA OwnAskedKept ==
    ASSUME Inv, GrantInv, [Next]_vars
    PROVE  OwnAsked'
<1>1. ConvInv /\ Claims /\ program' = program
  BY StepKeeps DEF Inv
<1>2. wire \in Seq(Lines) /\ todo \in Seq(CommandsSent) /\ requests \in Seq(CommandsSent)
  BY <1>1 DEF ConvInv, Sequences
<1> SUFFICES ASSUME program = "initialize data node", stage' = "work"
             PROVE  /\ \A i \in 1..Len(requests') :
                          requests'[i].node = OwnId /\ requests'[i].name = "get nodeid"
                    /\ \A i \in 1..Len(wire') : wire'[i].re.node = OwnId /\ wire'[i].re.name = "get nodeid"
  BY <1>1 DEF OwnAsked
<1>4. CASE stage = "status"
  <2>1. ~Connect
    <3>1. Connect => stage' = "status"
      BY DEF Connect, HasStatus
    <3> QED  BY <3>1
  <2>2. IsSystemRestart
    <3>1. ~Fails
      BY <1>4 DEF Fails
    <3>2. \/ SendCommand \/ ReadReply \/ StatusMiscounted \/ ReadTimesOut => stage' = stage \/ Fails
      BY DEF SendCommand, ReadReply, StatusMiscounted, ReadTimesOut
    <3>3. \/ AskNodeGroup \/ FailureHandled \/ Finish \/ Answer \/ ConnectFails
          \/ \E r \in Replicas : LookupPod(r) \/ DnsUpdated(r)
          \/ \E s \in 1..Mgmds : MgmdCrash(s) \/ MgmdRestart(s)
          \/ \E id \in Ids : NodeIdFreed(id)
          \/ UNCHANGED vars
          => stage' = stage
      BY DEF AskNodeGroup, FailureHandled, Finish, Answer, ConnectFails, LookupPod, DnsUpdated, MgmdCrash,
             MgmdRestart, NodeIdFreed, local, vars
    <3>4. ~EnsureDataNodePodVersion /\ ~CreateNodeGroups
      BY DEF EnsureDataNodePodVersion, CreateNodeGroups
    <3> QED  BY <1>4, <2>1, <3>1, <3>2, <3>3, <3>4 DEF Next, Client
  <2>3. pc = "ready"
    BY <1>1, <2>2, StatusNodes DEF IsSystemRestart
  <2>4. wire = <<>> /\ requests = <<>>
    BY <1>1, <1>4, <2>3 DEF ConvInv, Exchange, Clean
  <2>5. wire' = <<>> /\ requests' = <<>>
    BY <2>2, <2>4 DEF IsSystemRestart, Disconnect, link
  <2> QED  BY <2>5, Nothing
<1>5. CASE stage # "status"
  <2>0. stage = "work"
    BY <1>1, <1>5 DEF ConvInv, TypeInv, TypeOK
  <2>1. /\ \A i \in 1..Len(requests) : requests[i].node = OwnId /\ requests[i].name = "get nodeid"
        /\ \A i \in 1..Len(wire) : wire[i].re.node = OwnId /\ wire[i].re.name = "get nodeid"
    BY <2>0 DEF GrantInv, OwnAsked
  <2>2. \A i \in 1..Len(todo) : todo[i].node = OwnId /\ todo[i].name = "get nodeid"
    <3>1. \A n : TryReserveNodeId(n).name = "get nodeid"
      BY DEF TryReserveNodeId, Command
    <3>2. \A i \in 1..Len(todo) : todo[i] = TryReserveNodeId(todo[i].node) /\ todo[i].node = OwnId
      BY <1>1, <2>0 DEF Claims, Initializers
    <3> QED  BY <3>1, <3>2, Zenon
  <2>3. CASE Answer
    <3>1. PICK cmd : cmd = Head(requests)
      OBVIOUS
    <3>2. PICK new : new = 1 + Max({cluster[n].group : n \in {m \in DOMAIN cluster :
                                    cluster[m].group < NodeGroupNewDisconnectedDataNode}})
      OBVIOUS
    <3>3. /\ cmd \in CommandsSent /\ wire' = wire \o Reply(cmd) /\ requests' = Tail(requests)
          /\ requests # <<>> /\ cmd = requests[1]
      BY <1>1, <2>3, <3>1, <3>2, AnswerFacts DEF Inv
    <3>4. cmd.node = OwnId /\ cmd.name = "get nodeid"
      <4>1. 1 \in 1..Len(requests)
        BY <1>2, <3>3, HeadOf
      <4> QED  BY <2>1, <3>3, <4>1
    <3>5. PICK r : r = Reply(cmd)
      OBVIOUS
    <3>6. Begins(r, cmd, cluster)
      <4>1. ClusterOK
        BY <1>1 DEF ConvInv
      <4> QED  BY <3>3, <3>5, <4>1, ShortReplies, StatusReply
    <3>7. r \in Seq(Lines) /\ \A i \in 1..Len(r) : r[i].re = cmd
      BY <3>6 DEF Begins
    <3>8. \A i \in 1..Len(wire') : (\E j \in 1..Len(wire) : wire'[i] = wire[j]) \/ (\E j \in 1..Len(r) : wire'[i] = r[j])
      <4>1. PICK w : w = wire'
        OBVIOUS
      <4>2. w = wire \o r
        BY <3>3, <3>5, <4>1
      <4>3. \A i \in 1..Len(w) : (\E j \in 1..Len(wire) : w[i] = wire[j]) \/ (\E j \in 1..Len(r) : w[i] = r[j])
        <5>1. wire \in Seq(Lines) /\ r \in Seq(Lines)
          BY <1>2, <3>7
        <5>2. FromBoth(w, wire, r)
          BY <4>2, <5>1, Joined
        <5> QED  BY <5>2 DEF FromBoth
      <4> QED  BY <4>1, <4>3
    <3>9. \A i \in 1..Len(requests') : requests'[i].node = OwnId /\ requests'[i].name = "get nodeid"
      <4>1. \A i \in 1..Len(requests') : i + 1 \in 1..Len(requests) /\ requests'[i] = requests[i + 1]
        BY <1>2, <3>3, TailOf
      <4> QED  BY <2>1, <4>1
    <3> QED  BY <2>1, <3>4, <3>7, <3>8, <3>9
  <2>4. CASE ~Answer
    <3>1. LinesKept
      BY <1>1, <2>4, LinesOfStep
    <3>2. \A i \in 1..Len(wire') : wire'[i].re.node = OwnId /\ wire'[i].re.name = "get nodeid"
      BY <2>1, <3>1 DEF LinesKept
    <3>3. \/ requests' = requests \/ requests' = <<>>
          \/ todo # <<>> /\ requests' = Append(requests, Head(todo))
      <4>1. Fails => requests' = requests \/ requests' = <<>>
        BY DEF Fails
      <4>2. \/ StatusMiscounted \/ ReadTimesOut \/ ReadReply => Fails \/ requests' = requests
        BY DEF StatusMiscounted, ReadTimesOut, ReadReply
      <4>3. SendCommand => Fails \/ requests' = requests \/ (todo # <<>> /\ requests' = Append(requests, Head(todo)))
        BY DEF SendCommand
      <4>4. \/ Connect \/ AskNodeGroup \/ FailureHandled \/ Finish \/ ConnectFails \/ IsSystemRestart
            \/ EnsureDataNodePodVersion \/ CreateNodeGroups
            \/ \E r \in Replicas : LookupPod(r) \/ DnsUpdated(r)
            \/ \E s \in 1..Mgmds : MgmdCrash(s) \/ MgmdRestart(s)
            \/ \E id \in Ids : NodeIdFreed(id)
            \/ UNCHANGED vars
            => requests' = requests \/ requests' = <<>>
        BY DEF Connect, AskNodeGroup, FailureHandled, Finish, ConnectFails, LookupPod, DnsUpdated, MgmdCrash,
               IsSystemRestart, EnsureDataNodePodVersion, CreateNodeGroups, Disconnect,
               MgmdRestart, NodeIdFreed, link, vars
      <4> QED  BY <2>4, <4>1, <4>2, <4>3, <4>4 DEF Next, Client
    <3>4. CASE todo # <<>> /\ requests' = Append(requests, Head(todo))
      <4>1. Head(todo) = todo[1] /\ 1 \in 1..Len(todo) /\ Head(todo) \in CommandsSent
        BY <1>2, <3>4, HeadOf
      <4>2. \A i \in 1..Len(requests') : (i \in 1..Len(requests) /\ requests'[i] = requests[i]) \/ requests'[i] = Head(todo)
        <5>1. PICK q : q = requests'
          OBVIOUS
        <5>2. q = Append(requests, Head(todo)) /\ requests \in Seq(CommandsSent) /\ Head(todo) \in CommandsSent
          BY <1>2, <3>4, <4>1, <5>1
        <5>3. \A i \in 1..Len(q) : (i \in 1..Len(requests) /\ q[i] = requests[i]) \/ q[i] = Head(todo)
          <6>1. With(q, requests, Head(todo))
            BY <5>2, Added
          <6> QED  BY <6>1 DEF With
        <5> QED  BY <5>1, <5>3
      <4> QED  BY <2>1, <2>2, <3>2, <4>1, <4>2
    <3>5. CASE requests' = requests \/ requests' = <<>>
      BY <2>1, <3>2, <3>5, Nothing
    <3> QED  BY <3>3, <3>4, <3>5
  <2> QED  BY <2>3, <2>4
<1> QED  BY <1>4, <1>5

\* A reply that grants a node id has a line that says so.
LEMMA GrantRead ==
    ASSUME ConvInv, NEW cmd, NEW last, last = LastLine(cmd), Used(cmd, last), cmd.name = "get nodeid"
    PROVE  \E i \in 1..Len(wire) : wire[i].part = "details" /\ wire[i].ok
<1>1. wire \in Seq(Lines)
  BY DEF ConvInv, Sequences
<1>2. last \in Nat /\ last <= Len(wire) /\ Len(wire) \in Nat
  BY <1>1, LastLineType, LenType
<1>3. Succeeds(cmd, last)
  BY DEF Used
<1>4. \E l \in Details(last) : l.part = "details"
  BY <1>3 DEF Succeeds
<1>5. PICK l \in Details(last) : l.part = "details"
  BY <1>4
<1>6. l.ok
  BY <1>3, Zenon DEF Succeeds
<1>7. PICK i \in 1..(IF last = 0 THEN Len(wire) ELSE last) : l = wire[i]
  BY <1>5 DEF Details
<1>8. i \in 1..Len(wire)
  <2>1. CASE last = 0
    BY <1>7, <2>1
  <2>2. CASE last # 0
    <3>1. i \in 1..last
      BY <2>2
    <3> QED  BY <1>2, <3>1, Within
  <2> QED  BY <2>1, <2>2
<1> QED  BY <1>5, <1>6, <1>7, <1>8, Zenon

\* A reply takes the first command off the list, if its node id was granted.
LEMMA GrantUsed ==
    ASSUME Inv, GrantInv, [Next]_vars, pc = "reply", NEW cmd, cmd = Head(todo),
           NEW last, last = LastLine(cmd), ReplyIsOver(last), Used(cmd, last), granted' = granted
    PROVE  PoolClaimed' /\ OwnClaimed' /\ DoneIdle'
<1>1. ConvInv /\ Claims
  BY DEF Inv
<1>2. /\ program' = program /\ free \subseteq free'
      /\ timeouts' = 0 => timeouts = 0
  BY StepKeeps
<1>3. pc' = "ready" /\ stage' = stage
  BY DEF Used
<1>4. todo \in Seq(CommandsSent) /\ todo # <<>>
  BY <1>1 DEF ConvInv, Sequences, Flow
<1>5. cmd = todo[1] /\ 1 \in 1..Len(todo)
  BY <1>4, HeadOf
<1>6. \A n : TryReserveNodeId(n).name = "get nodeid"
  BY DEF TryReserveNodeId, Command
<1>7. ASSUME program \in Initializers, stage = "work"
      PROVE  cmd.name = "get nodeid" /\ (program = "initialize data node" => cmd.node = OwnId)
  <2>1. cmd = TryReserveNodeId(cmd.node) /\ (program = "initialize data node" => cmd.node = OwnId)
    BY <1>1, <1>5, <1>7 DEF Claims
  <2> QED  BY <1>6, <2>1, Zenon
<1>8. PoolClaimed'
  <2> SUFFICES ASSUME program = "initialize MySQL Server", timeouts = 0, stage = "work",
                      NEW j \in 1..Len(NodeIdPool)
               PROVE  NodeIdPool[j] \in granted \/ \E i \in 1..Len(todo') : todo'[i].node = NodeIdPool[j]
    BY <1>2, <1>3 DEF PoolClaimed
  <2>1. NodeIdPool[j] \in granted \/ \E i \in 1..Len(todo) : todo[i].node = NodeIdPool[j]
    BY DEF GrantInv, PoolClaimed
  <2>2. cmd.name = "get nodeid"
    BY <1>7 DEF Initializers
  <2>3. cmd.node \in granted
    <3>1. Clean
      BY DEF Clean
    <3>2. Begins(wire, cmd, cluster)
      BY <1>1, <3>1, CleanRead
    <3>3. PICK k \in 1..Len(wire) : wire[k].part = "details" /\ wire[k].ok
      BY <1>1, <2>2, GrantRead
    <3>4. wire[k].re = cmd
      BY <3>2 DEF Begins
    <3>5. wire[k].re.node \in granted
      BY <2>2, <3>3, <3>4, Zenon DEF GrantInv, WireTrue
    <3> QED  BY <3>4, <3>5
  <2>4. todo' = Tail(todo)
    BY <2>2 DEF Used
  <2>5. ASSUME NEW i \in 1..Len(todo), todo[i].node = NodeIdPool[j]
        PROVE  NodeIdPool[j] \in granted \/ \E k \in 1..Len(todo') : todo'[k].node = NodeIdPool[j]
    <3>1. CASE i = 1
      BY <1>5, <2>3, <2>5, <3>1
    <3>2. CASE i # 1
      <4>1. i - 1 \in 1..Len(Tail(todo)) /\ Tail(todo)[i - 1] = todo[i]
        BY <1>4, <3>2, Later
      <4> QED  BY <2>4, <2>5, <4>1
    <3> QED  BY <3>1, <3>2
  <2> QED  BY <2>1, <2>5
<1>9. OwnClaimed'
  <2> SUFFICES ASSUME program = "initialize data node", stage = "work"
               PROVE  OwnId \in free'
    BY <1>2, <1>3 DEF OwnClaimed
  <2>1. cmd.name = "get nodeid" /\ cmd.node = OwnId
    BY <1>7 DEF Initializers
  <2>2. PICK k \in 1..Len(wire) : wire[k].part = "details" /\ wire[k].ok
    BY <1>1, <2>1, GrantRead
  <2>3. wire[k].re.node = OwnId /\ wire[k].re.name = "get nodeid"
    BY DEF GrantInv, OwnAsked
  <2>4. wire[k].re.node \in free
    BY <2>2, <2>3, Zenon DEF GrantInv, WireTrue
  <2> QED  BY <1>2, <2>3, <2>4
<1>10. DoneIdle'
  BY <1>3 DEF DoneIdle
<1> QED  BY <1>8, <1>9, <1>10

\* An error while waiting for a node id leaves the command that asks for it.
LEMMA GrantFails ==
    ASSUME Inv, GrantInv, [Next]_vars, Fails, todo # <<>> \/ stage = "status"
    PROVE  PoolClaimed' /\ OwnClaimed' /\ DoneIdle'
<1>1. program' = program
  BY StepKeeps
<1>2. CASE program \in Initializers /\ stage = "work" /\ pc' = "ready" /\ UNCHANGED <<stage, todo, granted>>
  BY <1>2, GrantsKept
<1>3. CASE stage' = "status" /\ pc' = "dns"
  BY <1>3 DEF PoolClaimed, OwnClaimed, DoneIdle
<1>4. CASE program \notin Initializers /\ pc' = "failed"
  BY <1>1, <1>4 DEF PoolClaimed, OwnClaimed, DoneIdle, Initializers
<1> QED  BY <1>2, <1>3, <1>4 DEF Fails

\* The indices of a sequence.
LEMMA Domain ==
    ASSUME NEW S, NEW s \in Seq(S)
    PROVE  DOMAIN s = 1..Len(s)
OBVIOUS

\* Nothing is asked for in the first state.
LEMMA GrantInit ==
    ASSUME Init
    PROVE  GrantInv
<1>1. wire = <<>> /\ requests = <<>> /\ stage = "status" /\ pc # "done"
  BY DEF Init
<1>2. WireTrue
  BY <1>1, Nothing DEF WireTrue
<1> QED  BY <1>1, <1>2 DEF GrantInv, PoolClaimed, OwnAsked, OwnClaimed, DoneIdle

\* A MySQL Server starts with a command for each of its node ids.
LEMMA GrantConnect ==
    ASSUME Inv, GrantInv, Connect
    PROVE  PoolClaimed' /\ OwnClaimed' /\ DoneIdle'
<1>1. /\ program' = program /\ todo' = FirstCommands /\ pc' = "ready"
      /\ stage' = IF HasStatus THEN "status" ELSE "work"
  BY DEF Connect, env
<1>2. PoolClaimed'
  <2> SUFFICES ASSUME program = "initialize MySQL Server", NEW j \in 1..Len(NodeIdPool)
               PROVE  \E i \in 1..Len(todo') : todo'[i].node = NodeIdPool[j]
    BY <1>1 DEF PoolClaimed
  <2>1. todo' = [i \in DOMAIN NodeIdPool |-> TryReserveNodeId(NodeIdPool[i])]
    BY <1>1 DEF FirstCommands
  <2>2. NodeIdPool \in Seq(Nat)
    BY MgmClientAssumption
  <2>3. todo' \in Seq(CommandsSent)
    BY <1>1, FirstCommandsFacts
  <2>4. DOMAIN NodeIdPool = 1..Len(NodeIdPool)
    BY <2>2, Domain
  <2>5. DOMAIN todo' = 1..Len(todo')
    BY <2>3, Domain
  <2>6. j \in 1..Len(todo') /\ todo'[j] = TryReserveNodeId(NodeIdPool[j])
    BY <2>1, <2>4, <2>5
  <2>7. \A n : TryReserveNodeId(n).node = n
    BY DEF TryReserveNodeId, Command
  <2> QED  BY <2>6, <2>7
<1>3. OwnClaimed'
  BY <1>1 DEF OwnClaimed, HasStatus
<1>4. DoneIdle'
  BY <1>1 DEF DoneIdle
<1> QED  BY <1>2, <1>3, <1>4

\* A data node does not wait for its node id if the status has no connected one.
LEMMA GrantSystemRestart ==
    ASSUME Inv, IsSystemRestart
    PROVE  PoolClaimed' /\ OwnClaimed' /\ DoneIdle'
<1>1. /\ program' = "initialize data node" /\ cluster' = cluster /\ todo' = todo
      /\ StatusReturned /\ ConvInv
      /\ pc' \in {"failure handling", "done"}
  BY DEF IsSystemRestart, env, Inv
<1>2. todo' = <<>>
  BY <1>1, StatusNodes DEF StatusReturned, GroupsKnown
<1>3. OwnClaimed'
  <2> SUFFICES ASSUME pc' = "done", NEW n \in DOMAIN cluster
               PROVE  ~cluster[n].connected
    BY <1>1 DEF OwnClaimed
  <2>1. ~\E m \in DOMAIN status.nodes : IsDataNode(status.nodes[m]) /\ status.nodes[m].connected
    BY DEF IsSystemRestart
  <2>2. /\ DOMAIN status.nodes = Nodes /\ status.typed = Nodes /\ ApiNode \in status.typed
        /\ DOMAIN cluster \subseteq status.typed /\ Truthful(status, cluster)
    BY <1>1, StatusComplete
  <2>3. n \in DOMAIN status.nodes /\ IsDataNode(status.nodes[n])
        /\ status.nodes[n].connected = cluster[n].connected
    BY <2>2 DEF Truthful
  <2> QED  BY <2>1, <2>3
<1>4. PoolClaimed' /\ DoneIdle'
  BY <1>1, <1>2 DEF PoolClaimed, DoneIdle
<1> QED  BY <1>3, <1>4

\* Every step keeps track of the node ids that are granted and of those asked for.
LEMMA GrantStep ==
    ASSUME Inv, GrantInv, [Next]_vars
    PROVE  GrantInv'
<1>1. ConvInv /\ Claims
  BY DEF Inv
<1>2. WireTrue' /\ OwnAsked'
  BY WireTrueKept, OwnAskedKept DEF GrantInv
<1>3. program' = program /\ free \subseteq free'
  BY StepKeeps
<1> SUFFICES PoolClaimed' /\ OwnClaimed' /\ DoneIdle'
  BY <1>2 DEF GrantInv
<1>4. CASE Connect
  BY <1>4, GrantConnect
<1>5. CASE SendCommand
  <2>1. CASE pc' = "reply" /\ UNCHANGED <<stage, todo, granted>>
    BY <2>1, GrantsKept
  <2>2. CASE Fails
    BY <1>5, <2>2, GrantFails DEF SendCommand
  <2> QED  BY <1>5, <2>1, <2>2 DEF SendCommand
<1>6. CASE ReadReply
  <2>1. PICK cmd : cmd = Head(todo)
    OBVIOUS
  <2>2. PICK last : last = LastLine(cmd)
    OBVIOUS
  <2>3. /\ pc = "reply" /\ ReplyIsOver(last)
        /\ Fails \/ Used(cmd, last)
    BY <1>1, <1>6, <2>1, <2>2, ReadFacts
  <2>4. todo # <<>>
    BY <1>1, <2>3 DEF ConvInv, Flow
  <2>5. CASE Fails
    BY <2>4, <2>5, GrantFails
  <2>6. CASE Used(cmd, last)
    <3>1. granted' = granted
      BY <2>6 DEF Used
    <3> QED  BY <2>1, <2>2, <2>3, <2>6, <3>1, GrantUsed
  <2> QED  BY <2>3, <2>5, <2>6
<1>7. CASE AskNodeGroup
  <2>1. stage' = "status" /\ pc' = "ready"
    BY <1>7 DEF AskNodeGroup
  <2> QED  BY <2>1 DEF PoolClaimed, OwnClaimed, DoneIdle
<1>8. CASE StatusMiscounted
  <2>1. Fails /\ stage = "status"
    BY <1>8 DEF StatusMiscounted, GroupsKnown
  <2> QED  BY <2>1, GrantFails
<1>9. CASE ReadTimesOut
  <2>1. Fails /\ pc = "reply"
    BY <1>9 DEF ReadTimesOut
  <2>2. todo # <<>>
    BY <1>1, <2>1 DEF ConvInv, Flow
  <2> QED  BY <2>1, <2>2, GrantFails
<1>10. CASE IsSystemRestart
  BY <1>10, GrantSystemRestart
<1>11. CASE FailureHandled
  <2>1. program' = "initialize data node" /\ todo = <<>>
    BY <1>1, <1>3, <1>11 DEF ConvInv, Flow, FailureHandled
  <2>2. CASE OwnId \in free /\ pc' = "done" /\ todo' = todo
    BY <1>3, <2>1, <2>2 DEF PoolClaimed, OwnClaimed, DoneIdle
  <2>3. CASE pc' = "ready" /\ todo' = <<TryReserveNodeId(OwnId)>>
    <3>1. todo' # <<>>
      BY <2>3, OneElement
    <3> QED  BY <2>1, <2>3, <3>1 DEF PoolClaimed, OwnClaimed, DoneIdle
  <2> QED  BY <1>11, <2>2, <2>3 DEF FailureHandled
<1>12. CASE EnsureDataNodePodVersion
  <2>1. program' = "ensureDataNodePodVersion" /\ todo' = todo /\ todo = <<>>
    BY <1>3, <1>12 DEF EnsureDataNodePodVersion, StatusReturned, GroupsKnown
  <2> QED  BY <2>1 DEF PoolClaimed, OwnClaimed, DoneIdle
<1>13. CASE CreateNodeGroups
  <2>1. program' = "createNodeGroups" /\ pc' = "ready"
    BY <1>3, <1>13 DEF CreateNodeGroups, StatusReturned, GroupsKnown
  <2> QED  BY <2>1 DEF PoolClaimed, OwnClaimed, DoneIdle
<1>14. CASE Finish
  <2>1. /\ pc = "ready" /\ pc' = "done" /\ stage = "work" /\ stage' = stage
        /\ todo = <<>> /\ todo' = todo /\ granted' = granted
    BY <1>14 DEF Finish
  <2>2. /\ timeouts' = 0 => timeouts = 0
        /\ TRUE
    BY StepKeeps
  <2>3. PoolClaimed'
    BY <1>3, <2>1, <2>2 DEF PoolClaimed, GrantInv
  <2>4. OwnClaimed' /\ DoneIdle'
    BY <1>3, <2>1 DEF OwnClaimed, DoneIdle, GrantInv
  <2> QED  BY <2>3, <2>4
<1>15. CASE Answer
  <2>1. UNCHANGED <<todo, stage, pc>> /\ granted \subseteq granted'
    BY <1>15 DEF Answer, local
  <2> QED  BY <2>1, GrantsKept
<1>16. CASE ConnectFails
  <2>1. pc' \in {"dns", "failed"} /\ UNCHANGED <<todo, stage, granted>>
    BY <1>16 DEF ConnectFails
  <2> QED  BY <2>1, GrantsKept
<1>17. CASE \E r \in Replicas : LookupPod(r)
  <2>1. pc' \in {"connect", "dns"} /\ UNCHANGED <<todo, stage, granted>>
    BY <1>17 DEF LookupPod
  <2> QED  BY <2>1, GrantsKept
<1>18. CASE \/ \E r \in Replicas : DnsUpdated(r)
            \/ \E s \in 1..Mgmds : MgmdCrash(s) \/ MgmdRestart(s)
            \/ \E id \in Ids : NodeIdFreed(id)
            \/ UNCHANGED vars
  <2>1. UNCHANGED <<todo, stage, pc, granted>>
    BY <1>18 DEF DnsUpdated, MgmdCrash, MgmdRestart, NodeIdFreed, local, vars
  <2> QED  BY <2>1, GrantsKept
<1> QED  BY <1>4, <1>5, <1>6, <1>7, <1>8, <1>9, <1>10, <1>11, <1>12, <1>13, <1>14, <1>15, <1>16,
            <1>17, <1>18 DEF Next, Client

\* A MySQL Server goes on only with node ids that a management server granted, unless
\* a reply came late; a data node only when its node id is free or no data node is
\* connected, also then.
THEOREM PodsHaveTheirIds == Spec => []NodeIdsGranted
<1>1. Init => Inv /\ GrantInv
  BY InvInit, GrantInit
<1>2. Inv /\ GrantInv /\ [Next]_vars => Inv' /\ GrantInv'
  BY InvStep, GrantStep
<1>3. Inv /\ GrantInv => NodeIdsGranted
  <2> SUFFICES ASSUME Inv, GrantInv
               PROVE  NodeIdsGranted
    OBVIOUS
  <2>1. pc = "done" => todo = <<>> /\ stage = "work"
    BY DEF Inv, ConvInv, Flow, GrantInv, DoneIdle
  <2>2. ASSUME program = "initialize MySQL Server", pc = "done", timeouts = 0
        PROVE  ToSet(NodeIdPool) \subseteq granted
    <3>1. \A i \in 1..Len(todo) : FALSE
      BY <2>1, <2>2, Nothing
    <3>2. \A j \in 1..Len(NodeIdPool) : NodeIdPool[j] \in granted
      BY <2>1, <2>2, <3>1 DEF GrantInv, PoolClaimed
    <3>3. NodeIdPool \in Seq(Nat)
      BY MgmClientAssumption
    <3>4. ToSet(NodeIdPool) = {NodeIdPool[j] : j \in DOMAIN NodeIdPool}
      BY DEF ToSet
    <3>5. DOMAIN NodeIdPool = 1..Len(NodeIdPool)
      BY <3>3, Domain
    <3> QED  BY <3>2, <3>4, <3>5
  <2>3. ASSUME program = "initialize data node", pc = "done"
        PROVE  OwnId \in free \/ \A n \in DOMAIN cluster : ~cluster[n].connected
    BY <2>1, <2>3 DEF GrantInv, OwnClaimed
  <2> QED  BY <2>2, <2>3 DEF NodeIdsGranted
<1> QED  BY <1>1, <1>2, <1>3, PTL DEF Spec

-----------------------------------------------------------------------------
(* Every new data node gets a node group, but for too few of them *)

\* The data nodes in the same node group as n.
SameGroup(c, n) == {m \in DOMAIN c : c[m].group = c[n].group}

\* The node groups are as the property says, whatever happened to the program.
GroupsFull ==
    program = "createNodeGroups" =>
        \A n \in DOMAIN cluster : cluster[n].group \in Nat =>
            cluster[n].group = NodeGroupNewDisconnectedDataNode
            \/ Cardinality(SameGroup(cluster, n)) = Redundancy

\* New data nodes that no command is about: fewer than a node group has.
Leftover == {n \in Newcomers : \A i \in 1..Len(todo) : n \notin NodesIn(todo[i])}
\* The commands leave out fewer than would make a node group.
FewLeft == ~Original /\ pc # "failed" => Cardinality(Leftover) < Redundancy

\* The nodes of a command that was answered are no longer new.
AnsweredGone ==
    ~Original /\ pc = "reply" /\ wire # <<>> => NodesIn(todo[1]) \cap Newcomers = {}

\* The node groups are complete, and remain so.
GroupInv == GroupsFull /\ FewLeft /\ AnsweredGone

\* The new data nodes are finitely many.
LEMMA FewerLeft ==
    ASSUME ConvInv, NEW L, L \subseteq Leftover
    PROVE  /\ IsFiniteSet(Leftover) /\ Cardinality(Leftover) \in Nat
           /\ IsFiniteSet(L) /\ Cardinality(L) \in Nat /\ Cardinality(L) <= Cardinality(Leftover)
<1>1. IsFiniteSet(DOMAIN cluster)
  BY DEF ConvInv, ClusterOK
<1>2. Leftover \in SUBSET DOMAIN cluster
  BY DEF Leftover, Newcomers
<1>3. IsFiniteSet(Leftover)
  BY <1>1, <1>2, FS_Subset
<1>4. L \in SUBSET Leftover
  OBVIOUS
<1>5. IsFiniteSet(L) /\ Cardinality(L) <= Cardinality(Leftover)
  BY <1>3, <1>4, FS_Subset
<1> QED  BY <1>3, <1>5, FS_CardinalityType

\* The programs find complete node groups.
LEMMA GroupInit ==
    ASSUME Init
    PROVE  GroupInv
<1>1. program \in Programs /\ cluster \in Clusters[program] /\ stage = "status"
  BY DEF Init
<1>2. GroupsFull
  BY <1>1, ClusterAssumption DEF GroupsFull, SameGroup
<1> QED  BY <1>1, <1>2 DEF GroupInv, FewLeft, AnsweredGone, Original

\* A command makes a node group of its own nodes: no other one is like it.
LEMMA FullAnswer ==
    ASSUME ConvInv, GroupsToCreate, GroupsFull, Answer, ~Original,
           NEW cmd, cmd = Head(requests)
    PROVE  GroupsFull' /\ Newcomers' \subseteq Newcomers \ NodesIn(cmd)
<1>1. /\ DOMAIN cluster' = DOMAIN cluster
      /\ \A n \in DOMAIN cluster \ NodesIn(cmd) : cluster'[n] = cluster[n]
      /\ NodesIn(cmd) \subseteq Newcomers
  BY AnswerCluster
<1>2. PICK new \in Int :
          /\ -256 < new /\ new <= NodeGroupNewDisconnectedDataNode
          /\ \A n \in NodesIn(cmd) : cluster'[n].group = new
          /\ Newcomers # {} => \A n \in DOMAIN cluster :
                cluster[n].group < NodeGroupNewDisconnectedDataNode => cluster[n].group < new
  BY AnswerCluster
<1>3. /\ program = "createNodeGroups" /\ program' = program /\ cmd = todo[1] /\ 1 \in 1..Len(todo)
  <2>1. PICK fresh : fresh = 1 + Max({cluster[n].group : n \in {m \in DOMAIN cluster :
                                cluster[m].group < NodeGroupNewDisconnectedDataNode}})
    OBVIOUS
  <2>2. program = "createNodeGroups" /\ program' = program /\ cmd = todo[1] /\ todo # <<>>
    BY <2>1, AnswerFacts
  <2>3. todo \in Seq(CommandsSent)
    BY DEF ConvInv, Sequences
  <2> QED  BY <2>2, <2>3, HeadOf
<1>4. IsFiniteSet(NodesIn(cmd)) /\ Cardinality(NodesIn(cmd)) = Redundancy /\ Redundancy > 0
  <2>1. IsFiniteSet(NodesIn(todo[1])) /\ Cardinality(NodesIn(todo[1])) = Redundancy
    BY <1>3 DEF GroupsToCreate
  <2>2. Redundancy > 0
    BY MgmClientAssumption
  <2> QED  BY <1>3, <2>1, <2>2
<1>5. Newcomers # {}
  BY <1>1, <1>4, FS_EmptySet
<1>6. \A n \in DOMAIN cluster : cluster[n].group \in Int
  BY DEF ConvInv, ClusterOK
<1>7. \A n \in NodesIn(cmd) : n \in DOMAIN cluster /\ cluster[n].group = -256
  BY <1>1 DEF Newcomers, NodeGroupNewConnectedDataNode
<1>8. Newcomers' \subseteq Newcomers \ NodesIn(cmd)
  <2> SUFFICES ASSUME NEW n \in DOMAIN cluster, cluster'[n].group = -256
               PROVE  n \in Newcomers \ NodesIn(cmd)
    BY <1>1 DEF Newcomers, NodeGroupNewConnectedDataNode
  <2>1. n \notin NodesIn(cmd)
    BY <1>2
  <2>2. cluster'[n] = cluster[n]
    BY <1>1, <2>1
  <2> QED  BY <2>1, <2>2 DEF Newcomers, NodeGroupNewConnectedDataNode
<1>9. GroupsFull'
  <2> SUFFICES ASSUME NEW n \in DOMAIN cluster, cluster'[n].group \in Nat, cluster'[n].group # 65536
               PROVE  Cardinality(SameGroup(cluster', n)) = Redundancy
    BY <1>1 DEF GroupsFull, NodeGroupNewDisconnectedDataNode
  <2>1. \A m \in DOMAIN cluster : cluster[m].group < 65536 => cluster[m].group < new
    BY <1>2, <1>5 DEF NodeGroupNewDisconnectedDataNode
  <2>2. new <= 65536
    BY <1>2 DEF NodeGroupNewDisconnectedDataNode
  <2>3. CASE n \in NodesIn(cmd)
    <3>1. cluster'[n].group = new /\ new < 65536
      BY <1>2, <2>2, <2>3
    <3>2. \A m \in DOMAIN cluster : cluster'[m].group = new <=> m \in NodesIn(cmd)
      <4> SUFFICES ASSUME NEW m \in DOMAIN cluster, m \notin NodesIn(cmd), cluster'[m].group = new
                   PROVE  FALSE
        BY <1>2
      <4>1. cluster[m].group = new
        BY <1>1
      <4> QED  BY <2>1, <3>1, <4>1
    <3>3. SameGroup(cluster', n) = NodesIn(cmd)
      BY <1>1, <1>7, <3>1, <3>2 DEF SameGroup
    <3> QED  BY <1>4, <3>3
  <2>4. CASE n \notin NodesIn(cmd)
    <3>1. cluster'[n] = cluster[n]
      BY <1>1, <2>4
    <3>2. Cardinality(SameGroup(cluster, n)) = Redundancy
      BY <1>3, <3>1 DEF GroupsFull, NodeGroupNewDisconnectedDataNode
    <3>3. \A m \in DOMAIN cluster : cluster'[m].group = cluster[n].group <=> cluster[m].group = cluster[n].group
      <4> SUFFICES ASSUME NEW m \in NodesIn(cmd)
                   PROVE  cluster'[m].group # cluster[n].group /\ cluster[m].group # cluster[n].group
        BY <1>1
      <4>1. cluster'[m].group = new /\ cluster[m].group = -256
        BY <1>2, <1>7
      <4>2. cluster[n].group \in Nat /\ cluster[n].group # 65536
        BY <3>1
      <4>3. CASE cluster[n].group < 65536
        <5>1. cluster[n].group < new
          BY <2>1, <4>3
        <5> QED  BY <4>1, <4>2, <5>1
      <4>4. CASE cluster[n].group > 65536
        BY <2>2, <4>1, <4>2, <4>4
      <4> QED  BY <4>2, <4>3, <4>4
    <3>4. SameGroup(cluster', n) = SameGroup(cluster, n)
      BY <1>1, <3>1, <3>3 DEF SameGroup
    <3> QED  BY <3>2, <3>4
  <2> QED  BY <2>3, <2>4
<1> QED  BY <1>8, <1>9

\* The position k lies in one of the first q blocks of length r.
BlockOf(k, q, r) == \E i \in 1..q : \E j \in 1..r : (i - 1) * r + j = k

\* Every place in q blocks of r is in one of them.
LEMMA InBlock ==
    ASSUME NEW r \in Nat, r > 0, NEW q \in Nat, NEW k \in Nat, k >= 1, k <= q * r
    PROVE  BlockOf(k, q, r)
<1>1. PICK a \in Nat : a = (k - 1) \div r
  OBVIOUS
<1>2. PICK b \in Nat : b = (k - 1) % r
  OBVIOUS
<1>3. k - 1 = r * a + b /\ b < r
  BY <1>1, <1>2
<1>4. r * a \in Nat /\ r * a = a * r /\ q * r \in Nat
  OBVIOUS
<1>5. a < q
  <2> SUFFICES ASSUME q <= a
               PROVE  FALSE
    OBVIOUS
  <2>1. \A x, y, d \in Nat : x <= y => x * d <= y * d
    OBVIOUS
  <2>2. q * r <= a * r
    BY <2>1
  <2> QED  BY <1>3, <1>4, <2>2
<1>6. PICK c \in Nat : c = a * r
  BY <1>4
<1>7. c + (b + 1) = k
  BY <1>3, <1>4, <1>6
<1>8. a + 1 \in 1..q /\ b + 1 \in 1..r /\ (a + 1) - 1 = a
  BY <1>3, <1>5
<1>9. ((a + 1) - 1) * r + (b + 1) = k
  BY <1>6, <1>7, <1>8
<1> QED  BY <1>8, <1>9 DEF BlockOf

\* The number of whole blocks of r among l, and their length.
LEMMA DivNat ==
    ASSUME NEW r \in Nat, r > 0, NEW l \in Nat
    PROVE  l \div r \in Nat /\ (l \div r) * r \in Nat
<1>1. PICK q \in Nat : q = l \div r
  OBVIOUS
<1>2. q * r \in Nat
  OBVIOUS
<1> QED  BY <1>1, <1>2

\* Fewer than r are left over.
LEMMA DivBounds ==
    ASSUME NEW r \in Nat, r > 0, NEW l \in Nat, NEW a, a = (l \div r) * r
    PROVE  a <= l /\ l < a + r
<1>1. PICK q \in Nat : q = l \div r
  OBVIOUS
<1>2. PICK b \in Nat : b = l % r
  OBVIOUS
<1>3. l = r * q + b /\ b < r
  BY <1>1, <1>2
<1>4. r * q = q * r /\ q * r \in Nat
  OBVIOUS
<1> QED  BY <1>1, <1>3, <1>4

\* The image of a set.
ElementsOf(f, S) == {f[k] : k \in S}

\* What is left of a list after all its whole blocks is less than a block.
LEMMA RestIsShort ==
    ASSUME NEW r \in Nat, r > 0, NEW l \in Nat, NEW q, q = l \div r, NEW f,
           NEW L, L \subseteq ElementsOf(f, (q * r + 1)..l)
    PROVE  IsFiniteSet(L) /\ Cardinality(L) < r
<1>1. q \in Nat /\ q * r \in Nat
  BY DivNat
<1>2. PICK a \in Nat : a = q * r
  BY <1>1
<1>3. a <= l /\ l < a + r
  BY <1>2, DivBounds
<1>4. IsFiniteSet((a + 1)..l) /\ Cardinality((a + 1)..l) < r
  <2>1. a + 1 \in Int /\ l \in Int
    OBVIOUS
  <2>2. IsFiniteSet((a + 1)..l) /\ Cardinality((a + 1)..l) = (IF a + 1 > l THEN 0 ELSE l - (a + 1) + 1)
    BY <2>1, FS_Interval
  <2> QED  BY <1>3, <2>2
<1>5. PICK S : S = (a + 1)..l
  OBVIOUS
<1>6. IsFiniteSet(S) /\ Cardinality(S) < r
  BY <1>4, <1>5
<1>7. PICK T : T = {f[k] : k \in S}
  OBVIOUS
<1>8. IsFiniteSet(T) /\ Cardinality(T) <= Cardinality(S)
  BY <1>6, <1>7, FiniteImage
<1>9. L \in SUBSET T
  BY <1>2, <1>5, <1>7 DEF ElementsOf
<1>10. IsFiniteSet(L) /\ Cardinality(L) <= Cardinality(T)
  BY <1>8, <1>9, FS_Subset
<1>11. Cardinality(S) \in Nat /\ Cardinality(T) \in Nat /\ Cardinality(L) \in Nat
  BY <1>6, <1>8, <1>10, FS_CardinalityType
<1> QED  BY <1>6, <1>8, <1>10, <1>11

\* The status that createNodeGroups works from has the new data nodes, all of them
\* connected.
LEMMA NewcomersListed ==
    ASSUME Inv, GroupsReadable, StatusReturned, NEW cs, cs = status.nodes,
           NEW new, new = GetConnectedDataNodesWithNodeGroup(cs, NodeGroupNewConnectedDataNode)
    PROVE  new = Sorted(Newcomers) /\ IsFiniteSet(Newcomers) /\ Newcomers \subseteq Int
<1>1. /\ DOMAIN cs = Nodes /\ status.typed = Nodes /\ DOMAIN cluster \subseteq Nodes
      /\ Truthful(status, cluster) /\ Original
  BY StatusComplete DEF Inv
<1>2. \A n \in DOMAIN cluster : cs[n] = cluster[n]
  BY ReturnedExact DEF StatusExact
<1>3. \A n \in Nodes : IsDataNode(cs[n]) <=> n \in DOMAIN cluster
  BY <1>1 DEF Truthful
<1>4. PICK nodes : nodes = {n \in DOMAIN cs : IsDataNode(cs[n]) /\ cs[n].group = NodeGroupNewConnectedDataNode}
  OBVIOUS
<1>5. nodes = Newcomers
  BY <1>1, <1>2, <1>3, <1>4 DEF Newcomers
<1>6. \A n \in Newcomers : cluster[n].connected
  <2>1. program \in Programs /\ cluster \in Clusters[program]
    BY <1>1 DEF Inv, ConvInv, ClusterFound, TypeInv, TypeOK
  <2>2. \A n \in DOMAIN cluster : ~cluster[n].connected => cluster[n].group # NodeGroupNewConnectedDataNode
    BY <2>1, ClusterAssumption
  <2> QED  BY <2>2 DEF Newcomers
<1>7. IsFiniteSet(DOMAIN cs) /\ DOMAIN cs \subseteq Nat
  BY StatusNodes DEF Inv
<1>8. Listed(cs, nodes, new)
  BY <1>4, <1>7, ConnectedNodes
<1>9. \A n \in nodes : cs[n].connected
  BY <1>2, <1>5, <1>6 DEF Newcomers
<1>10. new = Sorted(nodes) /\ IsFiniteSet(nodes)
  BY <1>8, <1>9 DEF Listed
<1>11. nodes \subseteq Int
  BY <1>4, <1>7
<1> QED  BY <1>5, <1>10, <1>11, Zenon

\* The commands of createNodeGroups leave fewer data nodes than a node group has.
LEMMA FewAtFirst ==
    ASSUME Inv, GroupsReadable, CreateNodeGroups
    PROVE  Cardinality(Leftover') < Redundancy
<1>1. StatusReturned /\ cluster' = cluster
  BY DEF CreateNodeGroups
<1>2. PICK cs : cs = status.nodes
  OBVIOUS
<1>3. PICK new : new = GetConnectedDataNodesWithNodeGroup(cs, NodeGroupNewConnectedDataNode)
  OBVIOUS
<1>4. PICK cmds : cmds = todo'
  OBVIOUS
<1>5. cmds = [i \in 1..(Len(new) \div Redundancy) |->
                  CreateNodeGroup(SubSeq(new, (i - 1) * Redundancy + 1, i * Redundancy))]
  BY <1>2, <1>3, <1>4 DEF CreateNodeGroups
<1>6. new = Sorted(Newcomers) /\ IsFiniteSet(Newcomers) /\ Newcomers \subseteq Int
  BY <1>1, <1>2, <1>3, NewcomersListed
<1>7. PICK c \in Nat : c = Cardinality(Newcomers)
  BY <1>6, FS_CardinalityType
<1>8. new \in [1..c -> Newcomers] /\ \A n \in Newcomers : \E k \in 1..c : new[k] = n
  BY <1>6, <1>7, SortedFacts
<1>9. Newcomers \subseteq Nat
  BY DEF Inv, ConvInv, ClusterOK, Newcomers
<1>10. new \in Seq(Nat) /\ Len(new) = c
  <2>1. new \in [1..c -> Nat]
    BY <1>8, <1>9
  <2> QED  BY <2>1, FunctionSequence
<1>11. PICK r \in Nat : r = Redundancy /\ r > 0
  BY MgmClientAssumption
<1>12. PICK q : q = c \div r
  OBVIOUS
<1>13. q \in Nat /\ q * r \in Nat
  BY <1>11, <1>12, DivNat
<1>14. /\ Len(cmds) = q
       /\ \A i \in 1..q : /\ cmds[i].nodes \in [1..r -> Nat]
                          /\ \A j \in 1..r : cmds[i].nodes[j] = new[(i - 1) * r + j]
  <2>1. Batches(new, cmds)
    BY <1>5, <1>10, GroupCommands
  <2> QED  BY <1>10, <1>11, <1>12, <2>1 DEF Batches
<1>15. PICK L : L = Leftover'
  OBVIOUS
<1>16. ASSUME NEW n \in L
       PROVE  \E k \in (q * r + 1)..c : n = new[k]
  <2>1. n \in Newcomers /\ \A i \in 1..q : n \notin NodesIn(cmds[i])
    BY <1>1, <1>4, <1>14, <1>15 DEF Leftover, Newcomers
  <2>2. PICK k \in 1..c : new[k] = n
    BY <1>8, <2>1
  <2>3. ~(k <= q * r)
    <3> SUFFICES ASSUME k <= q * r
                 PROVE  FALSE
      OBVIOUS
    <3>1. k \in Nat /\ k >= 1
      BY <1>7
    <3>2. BlockOf(k, q, r)
      BY <1>11, <1>13, <3>1, InBlock
    <3>3. PICK i \in 1..q, j \in 1..r : (i - 1) * r + j = k
      BY <3>2 DEF BlockOf
    <3>4. cmds[i].nodes[j] = n /\ j \in DOMAIN cmds[i].nodes
      BY <1>14, <2>2, <3>3
    <3>5. n \in NodesIn(cmds[i])
      BY <3>4 DEF NodesIn
    <3> QED  BY <2>1, <3>5
  <2>4. k \in (q * r + 1)..c
    BY <1>7, <1>13, <2>3
  <2> QED  BY <2>2, <2>4
<1>17. L \subseteq ElementsOf(new, (q * r + 1)..c)
  BY <1>16 DEF ElementsOf
<1>18. Cardinality(L) < r
  BY <1>7, <1>11, <1>12, <1>17, RestIsShort
<1> QED  BY <1>11, <1>15, <1>18

\* A step that leaves the data nodes, the program and its commands alone.
LEMMA GroupsKept ==
    ASSUME ConvInv, GroupInv, UNCHANGED <<program, cluster, todo, stage>>,
           pc # "failed" \/ pc' = "failed",
           ~Original => pc' # "reply" \/ wire' = <<>> \/ (pc = "reply" /\ wire # <<>>)
    PROVE  GroupInv'
<1>1. Newcomers' = Newcomers /\ Leftover' = Leftover /\ (Original' <=> Original)
  BY DEF Newcomers, Leftover, Original
<1>2. GroupsFull'
  BY DEF GroupInv, GroupsFull
<1>3. FewLeft'
  BY <1>1 DEF GroupInv, FewLeft
<1>4. AnsweredGone'
  BY <1>1 DEF GroupInv, AnsweredGone
<1> QED  BY <1>2, <1>3, <1>4 DEF GroupInv

\* A step of another program, or before the node groups are created.
LEMMA GroupsLater ==
    ASSUME GroupInv, UNCHANGED <<program, cluster>>, Original' \/ pc' = "failed"
    PROVE  GroupInv'
BY DEF GroupInv, GroupsFull, FewLeft, AnsweredGone

\* The node groups that are created are complete ones.
LEMMA GroupAnswer ==
    ASSUME ConvInv, GroupsToCreate, GroupInv, Answer
    PROVE  GroupInv'
<1>1. PICK cmd : cmd = Head(requests)
  OBVIOUS
<1>2. PICK new : new = 1 + Max({cluster[n].group : n \in {m \in DOMAIN cluster :
                                cluster[m].group < NodeGroupNewDisconnectedDataNode}})
  OBVIOUS
<1>3. /\ UNCHANGED <<program, pc, stage, todo>>
      /\ Original => cluster' = cluster
      /\ ~Original => cmd = todo[1] /\ pc = "reply"
  BY <1>1, <1>2, AnswerFacts
<1>4. CASE Original
  BY <1>3, <1>4, GroupsLater DEF Original
<1>5. CASE ~Original
  <2>1. GroupsFull' /\ Newcomers' \subseteq Newcomers \ NodesIn(cmd)
    BY <1>1, <1>5, FullAnswer DEF GroupInv
  <2>2. Leftover' \subseteq Leftover
    BY <1>3, <2>1 DEF Leftover
  <2>3. Cardinality(Leftover) < Redundancy
    BY <1>3, <1>5 DEF GroupInv, FewLeft
  <2>4. Cardinality(Leftover') < Redundancy
    <3>1. PICK L : L = Leftover'
      OBVIOUS
    <3>2. /\ Cardinality(Leftover) \in Nat /\ Cardinality(L) \in Nat
          /\ Cardinality(L) <= Cardinality(Leftover)
      BY <2>2, <3>1, FewerLeft
    <3>3. Redundancy \in Nat
      BY MgmClientAssumption
    <3> QED  BY <2>3, <3>1, <3>2, <3>3
  <2>5. FewLeft'
    BY <2>4 DEF FewLeft
  <2>6. AnsweredGone'
    BY <1>3, <1>5, <2>1 DEF AnsweredGone
  <2> QED  BY <2>1, <2>5, <2>6 DEF GroupInv
<1> QED  BY <1>4, <1>5

\* A reply in order ends the command that is about nodes that are no longer new.
LEMMA GroupUsed ==
    ASSUME ConvInv, GroupsToCreate, GroupInv, pc = "reply", ~Original, UNCHANGED <<program, cluster>>,
           NEW cmd, cmd = Head(todo), NEW last, Used(cmd, last)
    PROVE  GroupInv'
<1>1. todo \in Seq(CommandsSent) /\ todo # <<>>
  BY DEF ConvInv, Sequences, Flow
<1>2. cmd = todo[1] /\ 1 \in 1..Len(todo)
  BY <1>1, HeadOf
<1>3. cmd.name = "create nodegroup"
  BY <1>2 DEF GroupsToCreate
<1>4. todo' = Tail(todo) /\ pc' = "ready" /\ stage' = stage /\ wire # <<>>
  BY <1>3 DEF Used, Succeeds
<1>5. NodesIn(todo[1]) \cap Newcomers = {}
  BY <1>4 DEF GroupInv, AnsweredGone
<1>6. Newcomers' = Newcomers
  BY DEF Newcomers
<1>7. ASSUME NEW n \in Leftover'
      PROVE  n \in Leftover
  <2>1. n \in Newcomers /\ \A i \in 1..Len(todo') : n \notin NodesIn(todo'[i])
    BY <1>6 DEF Leftover
  <2>2. ASSUME NEW i \in 1..Len(todo)
        PROVE  n \notin NodesIn(todo[i])
    <3>1. CASE i = 1
      BY <1>5, <2>1, <3>1
    <3>2. CASE i # 1
      <4>1. i - 1 \in 1..Len(Tail(todo)) /\ Tail(todo)[i - 1] = todo[i]
        BY <1>1, <3>2, Later
      <4>2. PICK k : k = i - 1
        OBVIOUS
      <4>3. k \in 1..Len(todo') /\ todo'[k] = todo[i]
        BY <1>4, <4>1, <4>2
      <4> QED  BY <2>1, <4>3
    <3> QED  BY <3>1, <3>2
  <2> QED  BY <2>1, <2>2 DEF Leftover
<1>8. Cardinality(Leftover) < Redundancy
  BY DEF GroupInv, FewLeft
<1>9. Cardinality(Leftover') < Redundancy
  <2>1. PICK L : L = Leftover'
    OBVIOUS
  <2>2. L \subseteq Leftover
    BY <1>7, <2>1
  <2>3. /\ Cardinality(Leftover) \in Nat /\ Cardinality(L) \in Nat
        /\ Cardinality(L) <= Cardinality(Leftover)
    BY <2>2, FewerLeft
  <2>4. Redundancy \in Nat
    BY MgmClientAssumption
  <2> QED  BY <1>8, <2>1, <2>3, <2>4
<1>10. GroupsFull'
  BY DEF GroupInv, GroupsFull
<1> QED  BY <1>4, <1>9, <1>10 DEF GroupInv, FewLeft, AnsweredGone

\* Every step keeps the node groups full, and few of the new data nodes left.
LEMMA GroupStep ==
    ASSUME Inv, GroupInv, [Next]_vars, GroupsReadable
    PROVE  GroupInv'
<1>1. ConvInv /\ Claims /\ GroupsToCreate
  BY DEF Inv
<1>2. program' = program
  BY StepKeeps
<1>3. ASSUME Fails, cluster' = cluster
      PROVE  GroupInv'
  <2>1. CASE program \in Initializers
    <3>1. Original'
      BY <1>2, <2>1 DEF Original, Initializers
    <3> QED  BY <1>2, <1>3, <3>1, GroupsLater
  <2>2. CASE program \notin Initializers
    <3>1. pc' = "failed"
      BY <1>3, <2>2 DEF Fails
    <3> QED  BY <1>2, <1>3, <3>1, GroupsLater
  <2> QED  BY <2>1, <2>2
<1>4. ~Original => program = "createNodeGroups" /\ stage = "work" /\ program \notin Initializers
  BY <1>1 DEF Original, ConvInv, TypeInv, TypeOK, Initializers
<1>5. CASE Answer
  BY <1>1, <1>5, GroupAnswer
<1>6. CASE CreateNodeGroups
  <2>1. cluster' = cluster /\ pc' = "ready"
    BY <1>6, StatusNodes DEF CreateNodeGroups, Inv
  <2>2. Cardinality(Leftover') < Redundancy
    BY <1>6, FewAtFirst
  <2>3. GroupsFull'
    BY <1>2, <2>1 DEF GroupInv, GroupsFull
  <2> QED  BY <2>1, <2>2, <2>3 DEF GroupInv, FewLeft, AnsweredGone
<1>7. CASE SendCommand
  <2>1. cluster' = cluster /\ pc = "ready"
    BY <1>7 DEF SendCommand
  <2>2. CASE pc' = "reply" /\ UNCHANGED <<wire, stage, todo>>
    <3>1. ~Original => wire = <<>>
      BY <1>1, <1>4, <2>1 DEF ConvInv, Exchange, Clean
    <3> QED  BY <1>1, <1>2, <2>1, <2>2, <3>1, GroupsKept
  <2>3. CASE Fails
    BY <1>3, <2>1, <2>3
  <2> QED  BY <1>7, <2>2, <2>3 DEF SendCommand
<1>8. CASE ReadReply
  <2>1. PICK cmd : cmd = Head(todo)
    OBVIOUS
  <2>2. PICK last : last = LastLine(cmd)
    OBVIOUS
  <2>3. /\ pc = "reply" /\ cluster' = cluster
        /\ Fails \/ Used(cmd, last)
    BY <1>1, <1>8, <2>1, <2>2, ReadFacts
  <2>4. CASE Used(cmd, last) /\ Original
    <3>1. Original'
      BY <1>2, <2>4 DEF Used, Original
    <3> QED  BY <1>2, <2>3, <3>1, GroupsLater
  <2>5. CASE Used(cmd, last) /\ ~Original
    BY <1>1, <1>2, <2>1, <2>3, <2>5, GroupUsed
  <2> QED  BY <1>3, <2>3, <2>4, <2>5
<1>9. CASE ReadTimesOut \/ StatusMiscounted
  BY <1>3, <1>9 DEF ReadTimesOut, StatusMiscounted
<1>10. CASE Connect \/ AskNodeGroup \/ IsSystemRestart \/ FailureHandled \/ EnsureDataNodePodVersion
  <2>1. cluster' = cluster
    BY <1>10 DEF Connect, AskNodeGroup, IsSystemRestart, FailureHandled, EnsureDataNodePodVersion
  <2>2. program = "createNodeGroups" => stage' = "status"
    BY <1>1, <1>10 DEF Connect, AskNodeGroup, IsSystemRestart, FailureHandled, EnsureDataNodePodVersion,
                       HasStatus, ConvInv, Flow
  <2> QED  BY <1>2, <2>1, <2>2, GroupsLater DEF Original
<1>11. CASE Finish
  <2>1. UNCHANGED <<cluster, todo, stage>> /\ pc = "ready" /\ pc' = "done"
    BY <1>11 DEF Finish
  <2> QED  BY <1>1, <1>2, <2>1, GroupsKept
<1>12. CASE \/ \E r \in Replicas : LookupPod(r) \/ DnsUpdated(r)
            \/ ConnectFails
  <2>1. /\ UNCHANGED <<cluster, todo, stage, wire>>
        /\ pc \in {"dns", "connect"} /\ pc' # "reply"
    BY <1>12 DEF LookupPod, DnsUpdated, ConnectFails, link, local
  <2> QED  BY <1>1, <1>2, <2>1, GroupsKept
<1>13. ASSUME NEW s \in 1..Mgmds, MgmdCrash(s)
       PROVE  GroupInv'
  <2>1. UNCHANGED <<cluster, todo, stage, pc>>
    BY <1>13 DEF MgmdCrash, local
  <2>2. wire' = wire \/ \E n \in 0..Len(wire) : wire' = SubSeq(wire, 1, n)
    BY <1>13 DEF MgmdCrash, link
  <2>3. wire = <<>> => wire' = <<>>
    <3>1. \A n : n \in 0..Len(<<>>) => SubSeq(<<>>, 1, n) = <<>>
      OBVIOUS
    <3> QED  BY <2>2, <3>1
  <2> QED  BY <1>1, <1>2, <2>1, <2>3, GroupsKept
<1>14. CASE \/ \E s \in 1..Mgmds : MgmdRestart(s)
            \/ \E id \in Ids : NodeIdFreed(id)
            \/ UNCHANGED vars
  <2>1. UNCHANGED <<cluster, todo, stage, pc, wire>>
    BY <1>14 DEF MgmdRestart, NodeIdFreed, link, local, vars
  <2> QED  BY <1>1, <1>2, <2>1, GroupsKept
<1> QED  BY <1>5, <1>6, <1>7, <1>8, <1>9, <1>10, <1>11, <1>12, <1>13, <1>14 DEF Next, Client

\* createNodeGroups makes no node group with too few or too many nodes, whatever
\* fails, and no other one could be made when it has succeeded.  It rests on the
\* reader: a data node whose node group is read wrong could pass for a new one.
THEOREM NodeGroupsMade ==
    ASSUME GroupsReadable
    PROVE  Spec => []NewNodesGrouped
<1>1. Init => Inv /\ GrantInv /\ GroupInv
  BY InvInit, GrantInit, GroupInit
<1>2. Inv /\ GrantInv /\ GroupInv /\ [Next]_vars => Inv' /\ GrantInv' /\ GroupInv'
  BY InvStep, GrantStep, GroupStep
<1>3. Inv /\ GrantInv /\ GroupInv => NewNodesGrouped
  <2> SUFFICES ASSUME Inv, GrantInv, GroupInv, program = "createNodeGroups"
               PROVE  NewNodesGrouped
    BY DEF NewNodesGrouped
  <2>1. \A n \in DOMAIN cluster : cluster[n].group \in Nat =>
            cluster[n].group = NodeGroupNewDisconnectedDataNode
            \/ Cardinality({m \in DOMAIN cluster : cluster[m].group = cluster[n].group}) = Redundancy
    BY DEF GroupInv, GroupsFull, SameGroup
  <2>2. ASSUME pc = "done"
        PROVE  Cardinality(Newcomers) < Redundancy
    <3>1. todo = <<>> /\ stage = "work"
      BY <2>2 DEF Inv, ConvInv, Flow, GrantInv, DoneIdle
    <3>2. \A i \in 1..Len(todo) : FALSE
      BY <3>1, Nothing
    <3>3. Leftover = Newcomers
      BY <3>2 DEF Leftover, Newcomers
    <3>4. Cardinality(Leftover) < Redundancy
      BY <2>2, <3>1 DEF GroupInv, FewLeft, Original
    <3> QED  BY <3>3, <3>4
  <2> QED  BY <2>1, <2>2 DEF NewNodesGrouped, Newcomers
<1> QED  BY <1>1, <1>2, <1>3, PTL DEF Spec

-----------------------------------------------------------------------------
(* Node groups are restarted as a whole *)

\* The nodes of a status are those of the cluster, and its data nodes are as they are.
Exact(nodes, c) ==
    /\ \A n \in DOMAIN nodes : IsDataNode(nodes[n]) <=> n \in DOMAIN c
    /\ DOMAIN c \subseteq DOMAIN nodes
    /\ \A n \in DOMAIN c : nodes[n] = c[n]

\* ensureDataNodePodVersion works from a status that stays true.
EnsureInv ==
    program = "ensureDataNodePodVersion" /\ stage = "work" =>
        pc = "done" /\ Exact(status.nodes, cluster)

\* A status that GetStatus returns is exact.
LEMMA ReturnedStatus ==
    ASSUME Inv, GroupsReadable, StatusReturned
    PROVE  Exact(status.nodes, cluster)
<1>1. /\ status.typed = Nodes /\ DOMAIN status.nodes = Nodes
      /\ DOMAIN cluster \subseteq status.typed /\ Truthful(status, cluster)
  BY StatusComplete DEF Inv
<1>2. \A n \in DOMAIN cluster : status.nodes[n] = cluster[n]
  BY ReturnedExact DEF StatusExact
<1> QED  BY <1>1, <1>2 DEF Truthful, Exact

\* ensureDataNodePodVersion works from an exact status.
LEMMA EnsureStep ==
    ASSUME Inv, EnsureInv, [Next]_vars, GroupsReadable
    PROVE  EnsureInv'
<1>1. ConvInv /\ program' = program
  BY StepKeeps DEF Inv
<1> SUFFICES ASSUME program = "ensureDataNodePodVersion", stage' = "work"
             PROVE  pc' = "done" /\ Exact(status'.nodes, cluster')
  BY <1>1 DEF EnsureInv
<1>2. CASE stage = "work"
  <2>1. pc = "done" /\ Exact(status.nodes, cluster)
    BY <1>2 DEF EnsureInv
  <2>2. ~conn.open
    BY <1>1, <2>1 DEF ConvInv, Flow
  <2>3. program \notin Initializers
    BY DEF Initializers
  <2>4. UNCHANGED <<pc, status, cluster>>
    <3>1. CASE Client
      BY <2>1, <3>1 DEF Client, LookupPod, Connect, ConnectFails, SendCommand, ReadReply, AskNodeGroup,
                        StatusMiscounted, IsSystemRestart, FailureHandled, EnsureDataNodePodVersion,
                        CreateNodeGroups, Finish, StatusReturned, GroupsKnown
    <3>2. CASE ~Client
      BY <2>1, <2>2, <2>3, <3>2 DEF Next, ReadTimesOut, Answer, MgmdCrash, MgmdRestart, NodeIdFreed,
                                    DnsUpdated, local, vars
    <3> QED  BY <3>1, <3>2
  <2> QED  BY <2>1, <2>4
<1>3. CASE stage = "status"
  <2>1. EnsureDataNodePodVersion
    <3>1. stage' # stage
      BY <1>3
    <3>2. ~Fails
      BY <3>1 DEF Fails
    <3>3. CASE Client
      BY <1>3, <3>1, <3>2, <3>3 DEF Client, LookupPod, Connect, ConnectFails, SendCommand, ReadReply,
           AskNodeGroup, StatusMiscounted, IsSystemRestart, FailureHandled, CreateNodeGroups, Finish, HasStatus
    <3>4. CASE ~Client
      BY <3>1, <3>2, <3>4 DEF Next, ReadTimesOut, Answer, MgmdCrash, MgmdRestart, NodeIdFreed, DnsUpdated,
                              local, vars
    <3> QED  BY <3>3, <3>4
  <2>2. StatusReturned /\ pc' = "done" /\ UNCHANGED <<status, cluster>>
    BY <2>1 DEF EnsureDataNodePodVersion
  <2>3. Exact(status.nodes, cluster)
    BY <2>2, ReturnedStatus
  <2> QED  BY <2>2, <2>3
<1>4. stage \in {"status", "work"}
  BY <1>1 DEF ConvInv, TypeInv, TypeOK
<1> QED  BY <1>2, <1>3, <1>4

\* Node group ids without a gap are those below their number.
LEMMA Segment ==
    ASSUME NEW G, IsFiniteSet(G), G \subseteq Nat, \A g \in G : \A h \in 0..g : h \in G
    PROVE  Cardinality(G) \in Nat /\ G = 0..(Cardinality(G) - 1)
<1>1. CASE G = {}
  <2>1. Cardinality(G) = 0
    BY <1>1, FS_EmptySet
  <2> QED  BY <1>1, <2>1
<1>2. CASE G # {}
  <2>1. PICK k \in G : TRUE
    BY <1>2
  <2>2. G \subseteq Int
    OBVIOUS
  <2>3. Max(G) \in G /\ \A g \in G : g <= Max(G)
    BY <2>1, <2>2, MaxFacts
  <2>4. PICK m \in Nat : m = Max(G)
    BY <2>3
  <2>5. G = 0..m
    <3>1. \A h \in G : h \in 0..m
      <4> SUFFICES ASSUME NEW h \in G
                   PROVE  h \in 0..m
        OBVIOUS
      <4>1. h \in Nat /\ h <= m
        BY <2>3, <2>4
      <4> QED  BY <4>1
    <3>2. \A h \in 0..m : h \in G
      BY <2>3, <2>4
    <3> QED  BY <3>1, <3>2
  <2>6. Cardinality(0..m) = m + 1
    <3>1. 0 \in Int /\ m \in Int
      OBVIOUS
    <3>2. Cardinality(0..m) = (IF 0 > m THEN 0 ELSE m - 0 + 1)
      BY <3>1, FS_Interval
    <3> QED  BY <3>2
  <2> QED  BY <2>5, <2>6
<1> QED  BY <1>1, <1>2

\* The elements of a sorted set, as a sequence.
LEMMA SortedSeq ==
    ASSUME NEW S, IsFiniteSet(S), S \subseteq Int
    PROVE  Len(Sorted(S)) = Cardinality(S) /\ ToSet(Sorted(S)) = S
<1>1. PICK k \in Nat : k = Cardinality(S)
  BY FS_CardinalityType
<1>2. PICK s : s = Sorted(S)
  OBVIOUS
<1>3. s \in [1..k -> S] /\ \A n \in S : \E i \in 1..k : s[i] = n
  BY <1>1, <1>2, SortedFacts
<1>4. Len(s) = k
  BY <1>3, FunctionSequence
<1>5. ToSet(s) = S
  BY <1>3 DEF ToSet
<1> QED  BY <1>1, <1>2, <1>4, <1>5

\* The lists of a status: one for each node group, with all its nodes.
Inducted(cs) ==
    {n \in DOMAIN cs : IsDataNode(cs[n]) /\ cs[n].connected /\ cs[n].group # NodeGroupNewConnectedDataNode}
\* The node groups of those nodes.
GroupIds(cs) == {cs[n].group : n \in Inducted(cs)}
\* The nodes of one group.
NodesOfGroup(cs, g) == {n \in Inducted(cs) : cs[n].group = g}

\* Nobody is lost, and the lists are those of the groups 0, 1, ...
ListsOf(cs, groups) ==
    /\ \A n \in DOMAIN cs : IsDataNode(cs[n]) /\ ~cs[n].connected =>
           cs[n].group = NodeGroupNewDisconnectedDataNode
    /\ groups = [i \in 1..Cardinality(GroupIds(cs)) |-> Sorted(NodesOfGroup(cs, i - 1))]

\* That is what GetNodesGroupedByNodegroup returns, if anything.
LEMMA Grouped ==
    ASSUME NEW cs, NEW groups, groups = GetNodesGroupedByNodegroup(cs), groups # <<>>
    PROVE  ListsOf(cs, groups)
<1> DEFINE data     == {n \in DOMAIN cs : IsDataNode(cs[n])}
           inducted == {n \in data : cs[n].connected /\ cs[n].group # NodeGroupNewConnectedDataNode}
           ids      == {cs[n].group : n \in inducted}
           lost     == \E n \in data : ~cs[n].connected /\ cs[n].group # NodeGroupNewDisconnectedDataNode
           lists    == [i \in 1..Cardinality(ids) |-> Sorted({n \in inducted : cs[n].group = i - 1})]
<1>1. groups = IF lost THEN <<>> ELSE lists
  BY DEF GetNodesGroupedByNodegroup
<1>2. inducted = Inducted(cs)
  BY DEF Inducted
<1>3. ids = GroupIds(cs)
  BY <1>2 DEF GroupIds
<1>4. \A i : {n \in inducted : cs[n].group = i - 1} = NodesOfGroup(cs, i - 1)
  BY <1>2 DEF NodesOfGroup
<1>5. ~lost => \A n \in DOMAIN cs : IsDataNode(cs[n]) /\ ~cs[n].connected =>
                  cs[n].group = NodeGroupNewDisconnectedDataNode
  OBVIOUS
<1>6. lists = [i \in 1..Cardinality(GroupIds(cs)) |-> Sorted(NodesOfGroup(cs, i - 1))]
  <2> HIDE DEF inducted, ids
  <2> QED  BY <1>3, <1>4
<1> HIDE DEF lost, lists
<1> QED  BY <1>1, <1>5, <1>6 DEF ListsOf

\* What is proved of the lists for a status that is true.
LEMMA GroupedExactly ==
    ASSUME Inv, NoGaps, Exact(status.nodes, cluster), program = "ensureDataNodePodVersion",
           NEW groups, groups = GetNodesGroupedByNodegroup(status.nodes), groups # <<>>
    PROVE  /\ \A i \in DOMAIN groups : Len(groups[i]) = Redundancy
           /\ UNION {ToSet(groups[i]) : i \in DOMAIN groups} =
                {n \in DOMAIN cluster : cluster[n].group \notin
                   {NodeGroupNewConnectedDataNode, NodeGroupNewDisconnectedDataNode}}
<1>1. PICK cs : cs = status.nodes
  OBVIOUS
<1>2. program \in Programs /\ cluster \in Clusters[program] /\ ClusterOK
  BY DEF Inv, ConvInv, TypeInv, TypeOK, ClusterFound, Original
<1>3. /\ \A n \in DOMAIN cs : IsDataNode(cs[n]) <=> n \in DOMAIN cluster
      /\ DOMAIN cluster \subseteq DOMAIN cs
      /\ \A n \in DOMAIN cluster : cs[n] = cluster[n]
  BY <1>1 DEF Exact
<1>4. ListsOf(cs, groups)
  BY <1>1, Grouped
<1>5. /\ \A n \in DOMAIN cluster : cluster[n].connected => cluster[n].group # NodeGroupNewDisconnectedDataNode
      /\ \A n \in DOMAIN cluster : ~cluster[n].connected => cluster[n].group # NodeGroupNewConnectedDataNode
  BY <1>2, ClusterAssumption
<1>6. \A n \in DOMAIN cluster : cluster[n].group \in Nat \ {NodeGroupNewDisconnectedDataNode} =>
            Cardinality(SameGroup(cluster, n)) = Redundancy
  BY <1>2, ClusterAssumption DEF SameGroup
<1>7. Consecutive(cluster)
  BY <1>2 DEF NoGaps
<1>8. Inducted(cs) = OldNodes(cluster)
  <2>1. ASSUME NEW n \in Inducted(cs)
        PROVE  n \in OldNodes(cluster)
    BY <1>3, <1>5 DEF Inducted, OldNodes
  <2>2. ASSUME NEW n \in OldNodes(cluster)
        PROVE  n \in Inducted(cs)
    BY <1>3, <1>4 DEF Inducted, OldNodes, ListsOf
  <2> QED  BY <2>1, <2>2
<1>9. IsFiniteSet(Inducted(cs)) /\ Inducted(cs) \subseteq Int
  <2>1. IsFiniteSet(DOMAIN cluster) /\ \A n \in DOMAIN cluster : n \in Nat
    BY <1>2 DEF ClusterOK
  <2>2. Inducted(cs) \in SUBSET DOMAIN cluster
    BY <1>8 DEF OldNodes
  <2> QED  BY <2>1, <2>2, FS_Subset
<1>10. PICK G : G = GroupIds(cs)
  OBVIOUS
<1>11. IsFiniteSet(G)
  <2>1. PICK f : f = [n \in DOMAIN cs |-> cs[n].group]
    OBVIOUS
  <2>2. G = {f[n] : n \in Inducted(cs)}
    BY <1>10, <2>1 DEF GroupIds, Inducted
  <2> QED  BY <1>9, <2>2, FiniteImage
<1>12. G = OldGroups(cluster)
  BY <1>3, <1>8, <1>10 DEF GroupIds, OldGroups, OldNodes
<1>13. \A g \in G : g \in Nat /\ g # NodeGroupNewDisconnectedDataNode
  <2> SUFFICES ASSUME NEW g \in G
               PROVE  g \in Nat /\ g # NodeGroupNewDisconnectedDataNode
    OBVIOUS
  <2>1. g \in 0..(NodeGroupNewDisconnectedDataNode - 1)
    BY <1>7, <1>12 DEF Consecutive
  <2>2. g # NodeGroupNewDisconnectedDataNode
    BY <1>12 DEF OldGroups, OldNodes
  <2>3. \A m \in Int : \A h \in 0..m : h \in Nat
    OBVIOUS
  <2>4. NodeGroupNewDisconnectedDataNode - 1 \in Int
    BY DEF NodeGroupNewDisconnectedDataNode
  <2> QED  BY <2>1, <2>2, <2>3, <2>4
<1>14. PICK k \in Nat : k = Cardinality(G) /\ G = 0..(k - 1)
  <2>1. G \subseteq Nat
    BY <1>13
  <2>2. \A g \in G : \A h \in 0..g : h \in G
    BY <1>7, <1>12 DEF Consecutive
  <2> QED  BY <1>11, <2>1, <2>2, Segment
<1>15. \A i \in 1..k : i - 1 \in G
  <2>1. \A i \in 1..k : i - 1 \in 0..(k - 1)
    BY <1>14
  <2> QED  BY <1>14, <2>1
<1>16. /\ DOMAIN groups = 1..k
       /\ \A i \in 1..k : groups[i] = Sorted(NodesOfGroup(cs, i - 1))
  BY <1>4, <1>10, <1>14 DEF ListsOf
<1>17. ASSUME NEW g \in G
       PROVE  /\ Len(Sorted(NodesOfGroup(cs, g))) = Redundancy
              /\ ToSet(Sorted(NodesOfGroup(cs, g))) = NodesOfGroup(cs, g)
  <2>1. PICK n \in OldNodes(cluster) : g = cluster[n].group
    BY <1>12 DEF OldGroups
  <2>2. NodesOfGroup(cs, g) = SameGroup(cluster, n)
    BY <1>3, <1>8, <2>1 DEF NodesOfGroup, SameGroup, OldNodes
  <2>3. Cardinality(SameGroup(cluster, n)) = Redundancy
    BY <1>6, <1>13, <2>1 DEF OldNodes
  <2>4. IsFiniteSet(NodesOfGroup(cs, g)) /\ NodesOfGroup(cs, g) \subseteq Int
    <3>1. NodesOfGroup(cs, g) \in SUBSET Inducted(cs)
      BY DEF NodesOfGroup
    <3> QED  BY <1>9, <3>1, FS_Subset
  <2> QED  BY <2>2, <2>3, <2>4, SortedSeq
<1>18. \A i \in DOMAIN groups : /\ Len(groups[i]) = Redundancy
                                /\ ToSet(groups[i]) = NodesOfGroup(cs, i - 1)
  BY <1>15, <1>16, <1>17
<1>19. ASSUME NEW n \in Inducted(cs)
       PROVE  \E i \in DOMAIN groups : n \in ToSet(groups[i])
  <2>1. PICK g \in G : g = cs[n].group
    BY <1>10 DEF GroupIds
  <2>2. g + 1 \in 1..k /\ (g + 1) - 1 = g
    <3>1. g \in 0..(k - 1)
      BY <1>14, <2>1
    <3> QED  BY <1>14, <3>1
  <2>3. n \in NodesOfGroup(cs, g)
    BY <2>1 DEF NodesOfGroup
  <2>4. g + 1 \in DOMAIN groups /\ ToSet(groups[g + 1]) = NodesOfGroup(cs, g)
    BY <1>16, <1>18, <2>2
  <2> QED  BY <2>3, <2>4
<1>20. ASSUME NEW i \in DOMAIN groups, NEW n \in ToSet(groups[i])
       PROVE  n \in Inducted(cs)
  BY <1>18 DEF NodesOfGroup
<1>21. UNION {ToSet(groups[i]) : i \in DOMAIN groups} = Inducted(cs)
  BY <1>19, <1>20
<1> QED  BY <1>8, <1>18, <1>21 DEF OldNodes

\* When a rolling restart goes over the node groups, each of them is there with all
\* its nodes, and no new data node is among them.  It rests on the reader and on
\* the ids of the node groups: the list of a node group is made from its position.
THEOREM NodeGroupsWhole ==
    ASSUME GroupsReadable, NoGaps
    PROVE  Spec => []NodeGroupsComplete
<1>1. Init => Inv /\ EnsureInv
  <2>1. Init => EnsureInv
    BY DEF Init, EnsureInv
  <2> QED  BY <2>1, InvInit
<1>2. Inv /\ EnsureInv /\ [Next]_vars => Inv' /\ EnsureInv'
  BY InvStep, EnsureStep
<1>3. Inv /\ EnsureInv => NodeGroupsComplete
  <2> SUFFICES ASSUME Inv, EnsureInv, pc = "done", program = "ensureDataNodePodVersion",
                      NEW groups, groups = GetNodesGroupedByNodegroup(status.nodes), groups # <<>>
               PROVE  /\ \A i \in DOMAIN groups : Len(groups[i]) = Redundancy
                      /\ UNION {ToSet(groups[i]) : i \in DOMAIN groups} =
                           {n \in DOMAIN cluster : cluster[n].group \notin
                              {NodeGroupNewConnectedDataNode, NodeGroupNewDisconnectedDataNode}}
    BY DEF NodeGroupsComplete
  <2>1. Exact(status.nodes, cluster)
    BY DEF Inv, ConvInv, Flow, EnsureInv
  <2> QED  BY <2>1, GroupedExactly
<1> QED  BY <1>1, <1>2, <1>3, PTL DEF Spec
=============================================================================
