-------------------------- MODULE WorkQueueProofs --------------------------
(***************************************************************************)
(* For any number of NdbClusters, workers, events and errors: no NdbCluster *)
(* is reconciled by two workers at a time, no event is forgotten, and the   *)
(* queue implements ReconcileRequests.                                      *)
(***************************************************************************)
EXTENDS WorkQueue, TLAPS

\* What a worker holds is being processed, and no other worker holds it.
Held ==
    /\ \A w \in Workers : Busy(w) => item[w] \in processing
    /\ OneWorkerPerKey

QueueInv == TypeOK /\ QueueConsistent /\ Held /\ NoEventLost

-----------------------------------------------------------------------------
(* Sequences without repetition *)

\* Two positions of a sequence never hold the same element.
NoRepeat(q) == \A i, j \in DOMAIN q : q[i] = q[j] => i = j

\* The sequence holds exactly the elements of a set.
Holds(q, S) == \A k \in Keys : (\E i \in DOMAIN q : q[i] = k) <=> k \in S

\* Appending a new element to a sequence.
LEMMA AppendKey ==
    ASSUME NEW q \in Seq(Keys), NEW S, NoRepeat(q), Holds(q, S), NEW k \in Keys, k \notin S
    PROVE  /\ Append(q, k) \in Seq(Keys)
           /\ NoRepeat(Append(q, k))
           /\ Holds(Append(q, k), S \cup {k})
<1> DEFINE a == Append(q, k)
<1>1. /\ a \in Seq(Keys) /\ Len(a) = Len(q) + 1 /\ DOMAIN a = 1..(Len(q) + 1)
      /\ DOMAIN q = 1..Len(q) /\ Len(q) \in Nat
      /\ \A i \in 1..Len(q) : a[i] = q[i] /\ q[i] \in Keys
      /\ a[Len(q) + 1] = k
  OBVIOUS
<1>2. \A i \in 1..Len(q) : q[i] # k
  BY <1>1 DEF Holds
<1>3. NoRepeat(a)
  BY <1>1, <1>2 DEF NoRepeat
<1>4. Holds(a, S \cup {k})
  <2> SUFFICES ASSUME NEW x \in Keys
               PROVE  (\E i \in DOMAIN a : a[i] = x) <=> x \in S \cup {k}
    BY DEF Holds
  <2>1. ASSUME NEW i \in DOMAIN a, a[i] = x PROVE x \in S \cup {k}
    BY <1>1, <2>1 DEF Holds
  <2>2. ASSUME x \in S PROVE \E i \in DOMAIN a : a[i] = x
    <3>1. PICK i \in DOMAIN q : q[i] = x
      BY <2>2 DEF Holds
    <3>2. i \in DOMAIN a /\ a[i] = x
      BY <1>1, <3>1
    <3> QED
      BY <3>2
  <2>3. ASSUME x = k PROVE \E i \in DOMAIN a : a[i] = x
    <3>1. Len(q) + 1 \in DOMAIN a /\ a[Len(q) + 1] = x
      BY <1>1, <2>3
    <3> QED
      BY <3>1
  <2> QED
    BY <2>1, <2>2, <2>3
<1> QED
  BY <1>1, <1>3, <1>4

\* Taking the first element of a sequence.
LEMMA TakeKey ==
    ASSUME NEW q \in Seq(Keys), NEW S, NoRepeat(q), Holds(q, S), q # <<>>
    PROVE  /\ Head(q) \in Keys /\ Head(q) \in S
           /\ Tail(q) \in Seq(Keys)
           /\ NoRepeat(Tail(q))
           /\ Holds(Tail(q), S \ {Head(q)})
<1> DEFINE t == Tail(q)
<1>1. /\ t \in Seq(Keys) /\ DOMAIN t = 1..(Len(q) - 1) /\ DOMAIN q = 1..Len(q)
      /\ Len(q) \in Nat /\ Len(q) > 0 /\ Head(q) = q[1] /\ q[1] \in Keys
      /\ \A i \in 1..(Len(q) - 1) : t[i] = q[i + 1]
  OBVIOUS
<1>2. Head(q) \in S
  BY <1>1 DEF Holds
<1>3. NoRepeat(t)
  <2> SUFFICES ASSUME NEW i \in DOMAIN t, NEW j \in DOMAIN t, t[i] = t[j]
               PROVE  i = j
    BY DEF NoRepeat
  <2>1. i + 1 \in DOMAIN q /\ j + 1 \in DOMAIN q /\ q[i + 1] = q[j + 1]
    BY <1>1
  <2> QED
    BY <1>1, <2>1 DEF NoRepeat
<1>4. Holds(t, S \ {Head(q)})
  <2> SUFFICES ASSUME NEW x \in Keys
               PROVE  (\E i \in DOMAIN t : t[i] = x) <=> x \in S \ {Head(q)}
    BY DEF Holds
  <2>1. ASSUME NEW i \in DOMAIN t, t[i] = x PROVE x \in S \ {Head(q)}
    <3>1. i + 1 \in DOMAIN q /\ q[i + 1] = x /\ 1 \in DOMAIN q /\ i + 1 # 1
      BY <1>1, <2>1
    <3> QED
      BY <1>1, <3>1 DEF Holds, NoRepeat
  <2>2. ASSUME x \in S, x # Head(q) PROVE \E i \in DOMAIN t : t[i] = x
    <3>1. PICK i \in DOMAIN q : q[i] = x
      BY <2>2 DEF Holds
    <3>2. i # 1
      BY <1>1, <2>2, <3>1
    <3>3. i - 1 \in DOMAIN t /\ t[i - 1] = x
      BY <1>1, <3>1, <3>2
    <3> QED
      BY <3>3
  <2> QED
    BY <2>1, <2>2
<1> QED
  BY <1>1, <1>2, <1>3, <1>4

-----------------------------------------------------------------------------
(* The operations of the queue *)

\* Add keeps the queue consistent and leaves the key dirty.
LEMMA AddInv ==
    ASSUME TypeOK, QueueConsistent, NEW k \in Keys, Add(k), UNCHANGED processing
    PROVE  /\ queue' \in Seq(Keys) /\ QueueConsistent'
           /\ dirty' \in {dirty, dirty \cup {k}}
           /\ ~shuttingDown => k \in dirty'
<1>0. queue \in Seq(Keys) /\ NoRepeat(queue) /\ Holds(queue, dirty \ processing)
  BY DEF TypeOK, QueueConsistent, NoRepeat, Holds
<1>1. CASE shuttingDown \/ k \in dirty
  BY <1>0, <1>1 DEF Add, QueueConsistent
<1>2. CASE ~shuttingDown /\ k \notin dirty /\ k \in processing
  <2>1. queue' = queue /\ dirty' = dirty \cup {k}
    BY <1>2 DEF Add
  <2>2. dirty' \ processing' = dirty \ processing
    BY <1>2, <2>1
  <2> QED
    BY <1>0, <2>1, <2>2 DEF QueueConsistent
<1>3. CASE ~shuttingDown /\ k \notin dirty /\ k \notin processing
  <2>1. queue' = Append(queue, k) /\ dirty' = dirty \cup {k}
    BY <1>3 DEF Add
  <2>2. dirty' \ processing' = (dirty \ processing) \cup {k}
    BY <1>3, <2>1
  <2>3. k \notin dirty \ processing
    BY <1>3
  <2>4. /\ queue' \in Seq(Keys) /\ NoRepeat(queue')
        /\ Holds(queue', (dirty \ processing) \cup {k})
    BY <1>0, <2>1, <2>3, AppendKey
  <2>5. QueueConsistent'
    BY <2>2, <2>4 DEF QueueConsistent, NoRepeat, Holds
  <2> QED
    BY <2>1, <2>4, <2>5
<1> QED
  BY <1>1, <1>2, <1>3

\* Get takes a key that is dirty and is not being processed.
LEMMA GetInv ==
    ASSUME TypeOK, QueueConsistent, Get
    PROVE  /\ queue' \in Seq(Keys) /\ QueueConsistent'
           /\ Head(queue) \in Keys /\ Head(queue) \in dirty \ processing
<1>0. queue \in Seq(Keys) /\ NoRepeat(queue) /\ Holds(queue, dirty \ processing)
  BY DEF TypeOK, QueueConsistent, NoRepeat, Holds
<1>1. /\ queue # <<>> /\ queue' = Tail(queue)
      /\ dirty' \ processing' = (dirty \ processing) \ {Head(queue)}
  BY DEF Get
<1>2. /\ Head(queue) \in Keys /\ Head(queue) \in dirty \ processing
      /\ queue' \in Seq(Keys) /\ NoRepeat(queue')
      /\ Holds(queue', (dirty \ processing) \ {Head(queue)})
  BY <1>0, <1>1, TakeKey
<1> QED
  BY <1>1, <1>2 DEF QueueConsistent, NoRepeat, Holds

\* Done queues the key again if it was added in the meantime.
LEMMA DoneInv ==
    ASSUME TypeOK, QueueConsistent, NEW k \in processing, Done(k)
    PROVE  queue' \in Seq(Keys) /\ QueueConsistent'
<1>0. /\ queue \in Seq(Keys) /\ NoRepeat(queue) /\ Holds(queue, dirty \ processing)
      /\ k \in Keys
  BY DEF TypeOK, QueueConsistent, NoRepeat, Holds
<1>1. CASE k \in dirty
  <2>1. queue' = Append(queue, k) /\ dirty' \ processing' = (dirty \ processing) \cup {k}
    BY <1>1 DEF Done
  <2>2. k \notin dirty \ processing
    OBVIOUS
  <2>3. /\ queue' \in Seq(Keys) /\ NoRepeat(queue')
        /\ Holds(queue', (dirty \ processing) \cup {k})
    BY <1>0, <2>1, <2>2, AppendKey
  <2> QED
    BY <2>1, <2>3 DEF QueueConsistent, NoRepeat, Holds
<1>2. CASE k \notin dirty
  <2>1. queue' = queue /\ dirty' \ processing' = dirty \ processing
    BY <1>2 DEF Done
  <2> QED
    BY <1>0, <2>1 DEF QueueConsistent
<1> QED
  BY <1>1, <1>2

-----------------------------------------------------------------------------
(* The steps *)

\* The first state.
LEMMA InitInv == Init => QueueInv
<1> SUFFICES ASSUME Init PROVE QueueInv
  OBVIOUS
<1>1. queue = <<>> /\ queue \in Seq(Keys) /\ DOMAIN queue = {} /\ dirty = {} /\ processing = {}
  BY DEF Init
<1>2. \A w \in Workers : ~Busy(w)
  BY DEF Init, Busy
<1>3. TypeOK
  BY <1>1, <1>2 DEF Init, TypeOK
<1>4. QueueConsistent
  BY <1>1 DEF QueueConsistent
<1>5. Held
  BY <1>2 DEF Held, OneWorkerPerKey
<1>6. NoEventLost
  BY DEF Init, NoEventLost
<1> QED
  BY <1>3, <1>4, <1>5, <1>6 DEF QueueInv

\* An event handler or the rate limiter adds a key.
LEMMA AddedInv ==
    ASSUME QueueInv, NEW k \in Keys, Event(k) \/ AddDelayed(k)
    PROVE  QueueInv'
<1>1. /\ Add(k)
      /\ UNCHANGED <<processing, shuttingDown, returned, item, step, synced, errors>>
  BY DEF Event, AddDelayed
<1>2. /\ queue' \in Seq(Keys) /\ QueueConsistent' /\ dirty' \in {dirty, dirty \cup {k}}
      /\ ~shuttingDown => k \in dirty'
  BY <1>1, AddInv DEF QueueInv
<1>3. /\ event' \in [Keys -> Nat] /\ waiting' \subseteq waiting
      /\ \A x \in Keys : x # k => event'[x] = event[x] /\ (x \in waiting => x \in waiting')
  <2>0. event \in [Keys -> Nat] /\ event[k] \in Nat
    BY DEF QueueInv, TypeOK
  <2>1. CASE Event(k)
    <3>1. event' = [event EXCEPT ![k] = event[k] + 1] /\ waiting' = waiting
      BY <2>1 DEF Event
    <3> QED
      BY <2>0, <3>1
  <2>2. CASE AddDelayed(k)
    <3>1. event' = event /\ waiting' = waiting \ {k}
      BY <2>2 DEF AddDelayed
    <3> QED
      BY <2>0, <3>1
  <2> QED
    BY <2>1, <2>2
<1>4. TypeOK'
  BY <1>1, <1>2, <1>3 DEF QueueInv, TypeOK, Busy
<1>5. Held'
  BY <1>1 DEF QueueInv, Held, OneWorkerPerKey, Busy
<1>6. NoEventLost'
  BY <1>1, <1>2, <1>3 DEF QueueInv, NoEventLost
<1> QED
  BY <1>2, <1>4, <1>5, <1>6 DEF QueueInv

\* A worker takes a key: it was not being processed, so nobody else has it.
LEMMA TakeItemInv ==
    ASSUME QueueInv, NEW w \in Workers, TakeItem(w)
    PROVE  QueueInv'
<1> DEFINE k == Head(queue)
<1>1. /\ step[w] = "get" /\ Get
      /\ item' = [item EXCEPT ![w] = k] /\ step' = [step EXCEPT ![w] = "sync"]
      /\ UNCHANGED <<waiting, shuttingDown, returned, event, synced, errors>>
  BY DEF TakeItem
<1>2. queue' \in Seq(Keys) /\ QueueConsistent' /\ k \in Keys /\ k \in dirty \ processing
  BY <1>1, GetInv DEF QueueInv
<1>3. dirty' = dirty \ {k} /\ processing' = processing \cup {k}
  BY <1>1 DEF Get
<1>4. /\ item' \in [Workers -> Keys \cup {None}] /\ item'[w] = k /\ step'[w] = "sync"
      /\ step' \in [Workers -> {"get", "sync", "result", "done", Exited}]
      /\ \A v \in Workers : v # w => item'[v] = item[v] /\ step'[v] = step[v]
  BY <1>1, <1>2 DEF QueueInv, TypeOK
<1>5. TypeOK'
  BY <1>1, <1>2, <1>3, <1>4 DEF QueueInv, TypeOK, Busy
<1>6. \A v \in Workers : Busy(v)' /\ v # w => Busy(v) /\ item[v] \in processing
  BY <1>4 DEF QueueInv, Held, Busy
<1>7. Held'
  BY <1>2, <1>3, <1>4, <1>6 DEF QueueInv, Held, OneWorkerPerKey
<1>8. NoEventLost'
  BY <1>1, <1>2, <1>3, <1>4 DEF QueueInv, NoEventLost
<1> QED
  BY <1>2, <1>5, <1>7, <1>8 DEF QueueInv

\* A worker syncs, or its sync ends with or without an error.
LEMMA SyncInv ==
    ASSUME QueueInv, NEW w \in Workers, Sync(w) \/ SyncSucceeds(w) \/ SyncFails(w)
    PROVE  QueueInv'
<1>0. Busy(w) /\ item[w] \in Keys
  BY DEF Sync, SyncSucceeds, SyncFails, Busy, QueueInv, TypeOK
<1>1. /\ UNCHANGED <<queue, dirty, processing, shuttingDown, returned, item, event>>
      /\ waiting \subseteq waiting' /\ waiting' \subseteq Keys
      /\ errors' \in Nat
      /\ step' \in [Workers -> {"get", "sync", "result", "done", Exited}]
      /\ \A v \in Workers : v # w => step'[v] = step[v]
      /\ step'[w] \in {"result", "done"}
      /\ synced' \in [Keys -> Nat]
  <2>0. /\ step \in [Workers -> {"get", "sync", "result", "done", Exited}]
        /\ synced \in [Keys -> Nat] /\ event \in [Keys -> Nat] /\ errors \in Nat
        /\ waiting \subseteq Keys
    BY DEF QueueInv, TypeOK
  <2>1. CASE Sync(w)
    BY <1>0, <2>0, <2>1 DEF Sync, queueVars
  <2>2. CASE SyncSucceeds(w)
    BY <1>0, <2>0, <2>2 DEF SyncSucceeds, queueVars
  <2>3. CASE SyncFails(w)
    BY <1>0, <2>0, <2>3 DEF SyncFails, queueVars
  <2> QED
    BY <2>1, <2>2, <2>3
<1>2. TypeOK'
  BY <1>0, <1>1 DEF QueueInv, TypeOK, Busy
<1>3. QueueConsistent'
  BY <1>1 DEF QueueInv, QueueConsistent
<1>4. Held'
  BY <1>0, <1>1 DEF QueueInv, Held, OneWorkerPerKey, Busy
<1>5. NoEventLost'
  <2> SUFFICES ASSUME ~shuttingDown, NEW k \in Keys, synced'[k] < event[k]
               PROVE  \/ k \in dirty \cup waiting'
                      \/ \E v \in Workers : step'[v] = "sync" /\ item[v] = k
    BY <1>1 DEF NoEventLost
  <2>0. event[k] \in Nat
    BY DEF QueueInv, TypeOK
  <2>1. CASE k # item[w]
    <3>1. synced'[k] = synced[k]
      BY <1>0, <2>1 DEF Sync, SyncSucceeds, SyncFails, QueueInv, TypeOK
    <3>2. \/ k \in dirty \cup waiting
          \/ \E v \in Workers : step[v] = "sync" /\ item[v] = k
      BY <3>1 DEF QueueInv, NoEventLost
    <3> QED
      BY <1>1, <2>1, <3>2
  <2>2. CASE k = item[w] /\ Sync(w)
    <3>1. synced'[k] = event[k]
      BY <1>0, <2>2 DEF Sync, QueueInv, TypeOK
    <3> QED
      BY <2>0, <3>1
  <2>3. CASE k = item[w] /\ SyncFails(w)
    BY <2>3 DEF SyncFails
  <2>4. CASE k = item[w] /\ SyncSucceeds(w)
    <3>1. /\ synced'[k] = synced[k] /\ waiting' = waiting
          /\ step[w] = "result" /\ step'[w] = "done"
      BY <2>4 DEF SyncSucceeds, QueueInv, TypeOK
    <3>2. \/ k \in dirty \cup waiting
          \/ \E v \in Workers : step[v] = "sync" /\ item[v] = k
      BY <3>1 DEF QueueInv, NoEventLost
    <3> QED
      BY <1>1, <3>1, <3>2
  <2> QED
    BY <2>1, <2>2, <2>3, <2>4
<1> QED
  BY <1>2, <1>3, <1>4, <1>5 DEF QueueInv

\* A worker gives its key back.
LEMMA ItemDoneInv ==
    ASSUME QueueInv, NEW w \in Workers, ItemDone(w)
    PROVE  QueueInv'
<1> DEFINE k == item[w]
<1>1. /\ step[w] = "done" /\ Done(k)
      /\ item' = [item EXCEPT ![w] = None] /\ step' = [step EXCEPT ![w] = "get"]
      /\ UNCHANGED <<waiting, shuttingDown, returned, event, synced, errors>>
  BY DEF ItemDone
<1>2. Busy(w) /\ k \in processing /\ k \in Keys
  BY <1>1 DEF QueueInv, Held, TypeOK, Busy
<1>3. queue' \in Seq(Keys) /\ QueueConsistent'
  BY <1>1, <1>2, DoneInv DEF QueueInv
<1>4. dirty' = dirty /\ processing' = processing \ {k}
  BY <1>1 DEF Done
<1>5. /\ item' \in [Workers -> Keys \cup {None}]
      /\ step' \in [Workers -> {"get", "sync", "result", "done", Exited}]
      /\ step'[w] = "get"
      /\ \A v \in Workers : v # w => item'[v] = item[v] /\ step'[v] = step[v]
  BY <1>1 DEF QueueInv, TypeOK
<1>6. \A v \in Workers : Busy(v)' => v # w /\ Busy(v)
  BY <1>5 DEF Busy
<1>7. TypeOK'
  BY <1>1, <1>3, <1>4, <1>5, <1>6 DEF QueueInv, TypeOK
<1>8. Held'
  BY <1>2, <1>4, <1>5, <1>6 DEF QueueInv, Held, OneWorkerPerKey
<1>9. NoEventLost'
  BY <1>1, <1>4, <1>5 DEF QueueInv, NoEventLost
<1> QED
  BY <1>3, <1>7, <1>8, <1>9 DEF QueueInv

\* Every step keeps the invariant.
LEMMA StepInv == QueueInv /\ [Next]_vars => QueueInv'
<1> SUFFICES ASSUME QueueInv, [Next]_vars PROVE QueueInv'
  OBVIOUS
<1>1. CASE UNCHANGED vars
  BY <1>1 DEF vars, QueueInv, TypeOK, QueueConsistent, Held, OneWorkerPerKey, NoEventLost, Busy
<1>2. CASE \E k \in Keys : Event(k) \/ AddDelayed(k)
  BY <1>2, AddedInv
<1>3. ASSUME NEW w \in Workers, Worker(w) PROVE QueueInv'
  <2>1. CASE TakeItem(w)
    BY <2>1, TakeItemInv
  <2>2. CASE WorkerExits(w)
    <3>1. /\ UNCHANGED <<queue, dirty, processing, shuttingDown, waiting, returned, item,
                         event, synced, errors>>
          /\ shuttingDown
          /\ step' \in [Workers -> {"get", "sync", "result", "done", Exited}]
          /\ \A v \in Workers : Busy(v)' => Busy(v)
      BY <2>2 DEF WorkerExits, queueVars, QueueInv, TypeOK, Busy, Exited
    <3> QED
      BY <3>1 DEF QueueInv, TypeOK, QueueConsistent, Held, OneWorkerPerKey, NoEventLost
  <2>3. CASE Sync(w) \/ SyncSucceeds(w) \/ SyncFails(w)
    BY <2>3, SyncInv
  <2>4. CASE ItemDone(w)
    BY <2>4, ItemDoneInv
  <2> QED
    BY <1>3, <2>1, <2>2, <2>3, <2>4 DEF Worker
<1>4. CASE ShutDown
  BY <1>4 DEF ShutDown, QueueInv, TypeOK, QueueConsistent, Held, OneWorkerPerKey,
     NoEventLost, Busy
<1> QED
  BY <1>1, <1>2, <1>3, <1>4 DEF Next

-----------------------------------------------------------------------------
(* The theorems *)

\* The workqueue and processNextWorkItem never let two workers reconcile the
\* same NdbCluster at a time.
THEOREM ExclusiveSync == Spec => []OneWorkerPerKey
<1>1. QueueInv => OneWorkerPerKey
  BY DEF QueueInv, Held
<1> QED
  BY <1>1, InitInv, StepInv, PTL DEF Spec

\* Every reachable state of the queue and its workers is well typed, also
\* during shutdown, for any number of workers and clusters.
THEOREM QueueTypeCorrect == Spec => []TypeOK
<1>1. QueueInv => TypeOK
  BY DEF QueueInv
<1> QED
  BY <1>1, InitInv, StepInv, PTL DEF Spec

\* The queue holds each dirty NdbCluster that no worker reconciles exactly
\* once: Add and Done never queue a key twice and never leave one out.
THEOREM QueueKeysConsistent == Spec => []QueueConsistent
<1>1. QueueInv => QueueConsistent
  BY DEF QueueInv
<1> QED
  BY <1>1, InitInv, StepInv, PTL DEF Spec

\* As long as the operator is not told to stop, no event and no failed sync of
\* an NdbCluster is forgotten.
THEOREM EventsRemembered == Spec => []NoEventLost
<1>1. QueueInv => NoEventLost
  BY DEF QueueInv
<1> QED
  BY <1>1, InitInv, StepInv, PTL DEF Spec

\* The queue with its workers, events, retries and shutdown implements the two
\* promises that NdbReconciler relies on.
THEOREM QueueRefinement == Spec => ImplementsRequests
<1>1. Init => Requests!Init
  BY DEF Init, Requests!Init
<1>2. QueueInv /\ [Next]_vars => [Requests!Next]_(<<dirty \cup waiting, processing>>)
  <2> SUFFICES ASSUME QueueInv, [Next]_vars
               PROVE  \/ Requests!Next
                      \/ (dirty \cup waiting)' = dirty \cup waiting /\ processing' = processing
    OBVIOUS
  <2>1. CASE UNCHANGED vars
    BY <2>1 DEF vars
  <2>2. ASSUME NEW k \in Keys, Event(k) \/ AddDelayed(k) PROVE Requests!Request(k)
            \/ ((dirty \cup waiting)' = dirty \cup waiting /\ processing' = processing)
    BY <2>2 DEF Event, AddDelayed, Add, Requests!Request
  <2>3. ASSUME NEW w \in Workers, TakeItem(w)
        PROVE  Head(queue) \in Keys /\ Requests!Begin(Head(queue))
    <3>1. Head(queue) \in Keys /\ Head(queue) \in dirty \ processing
      BY <2>3, GetInv DEF TakeItem, QueueInv
    <3>2. /\ dirty' = dirty \ {Head(queue)} /\ processing' = processing \cup {Head(queue)}
          /\ waiting' = waiting
      BY <2>3 DEF TakeItem, Get
    <3> QED
      BY <3>1, <3>2 DEF Requests!Begin
  <2>4. ASSUME NEW w \in Workers, SyncFails(w)
        PROVE  \/ item[w] \in Keys /\ Requests!Request(item[w])
               \/ (dirty \cup waiting)' = dirty \cup waiting /\ processing' = processing
    <3>1. item[w] \in Keys
      BY <2>4 DEF SyncFails, QueueInv, TypeOK, Busy
    <3> QED
      BY <2>4, <3>1 DEF SyncFails, queueVars, Requests!Request
  <2>5. ASSUME NEW w \in Workers, ItemDone(w)
        PROVE  item[w] \in Keys /\ Requests!End(item[w])
    <3>1. item[w] \in Keys /\ item[w] \in processing
      BY <2>5 DEF ItemDone, QueueInv, Held, TypeOK, Busy
    <3> QED
      BY <2>5, <3>1 DEF ItemDone, Done, Requests!End
  <2>6. ASSUME NEW w \in Workers, WorkerExits(w) \/ Sync(w) \/ SyncSucceeds(w)
        PROVE  (dirty \cup waiting)' = dirty \cup waiting /\ processing' = processing
    BY <2>6 DEF WorkerExits, Sync, SyncSucceeds, queueVars
  <2>7. CASE ShutDown
    BY <2>7 DEF ShutDown
  <2> QED
    BY <2>1, <2>2, <2>3, <2>4, <2>5, <2>6, <2>7 DEF Next, Worker, Requests!Next
<1> QED
  BY <1>1, <1>2, InitInv, StepInv, PTL DEF Spec, ImplementsRequests, Requests!Spec
=============================================================================
