----------------------------- MODULE WorkQueue -----------------------------
(***************************************************************************)
(* The rate limited workqueue of NdbCluster keys and the workers that run   *)
(* processNextWorkItem.  Every operation of the queue holds its lock, so it *)
(* is one step; the event handlers, the workers, the delayed adds of the    *)
(* rate limiter and the shutdown interleave.                                *)
(***************************************************************************)
EXTENDS Integers, Sequences

CONSTANTS
    Keys,        \* NdbCluster resources
    Workers,     \* goroutines that run processNextWorkItem
    MaxEvents,   \* bound: events per NdbCluster
    MaxErrors,   \* bound: syncs that return an error
    MayShutDown  \* TRUE iff the operator may be told to stop

None   == "none"
Exited == "exited"

ASSUME WorkQueueAssumption ==
    /\ None \notin Keys /\ Exited \notin Keys
    /\ MaxEvents \in Nat /\ MaxErrors \in Nat
    /\ MayShutDown \in BOOLEAN

VARIABLES
    queue,         \* keys in the order they will be processed
    dirty,         \* keys that need processing
    processing,    \* keys being processed
    waiting,       \* keys the rate limiter will add later
    shuttingDown,  \* ShutDown was called
    returned,      \* Controller.Run has returned
    item,          \* what each worker got from the queue
    step,          \* where each worker is in processNextWorkItem
    event,         \* history: number of the latest event of each key
    synced,        \* history: the latest event that a sync of the key has read
    errors         \* syncs that returned an error

queueVars == <<queue, dirty, processing, shuttingDown>>
vars == <<queue, dirty, processing, waiting, shuttingDown, returned, item, step,
          event, synced, errors>>

-----------------------------------------------------------------------------
(* The queue *)

\* Mutant: a key is queued even while it is being processed.
PushAlways(k) ==
    IF shuttingDown \/ k \in dirty
    THEN UNCHANGED <<queue, dirty>>
    ELSE dirty' = dirty \cup {k} /\ queue' = Append(queue, k)

Add(k) ==
    IF shuttingDown \/ k \in dirty
    THEN UNCHANGED <<queue, dirty>>
    ELSE /\ dirty' = dirty \cup {k}
         /\ queue' = IF k \in processing THEN queue ELSE Append(queue, k)

\* The item is popped; the caller takes Head(queue).
Get ==
    /\ queue # <<>>
    /\ queue' = Tail(queue)
    /\ processing' = processing \cup {Head(queue)}
    /\ dirty' = dirty \ {Head(queue)}

\* Mutant: what was added during the processing is dropped.
DoneForgets(k) ==
    /\ processing' = processing \ {k}
    /\ dirty' = dirty \ {k}
    /\ UNCHANGED queue

Done(k) ==
    /\ processing' = processing \ {k}
    /\ queue' = IF k \in dirty THEN Append(queue, k) ELSE queue
    /\ UNCHANGED dirty

-----------------------------------------------------------------------------
(* The event handlers, the rate limiter and the workers *)

\* An informer's handler adds the key of the NdbCluster the event is about.
Event(k) ==
    /\ event[k] < MaxEvents
    /\ event' = [event EXCEPT ![k] = @ + 1]
    /\ Add(k)
    /\ UNCHANGED <<processing, waiting, shuttingDown, returned, item, step, synced, errors>>

\* waitingLoop adds a key whose delay is over.
AddDelayed(k) ==
    /\ k \in waiting /\ ~shuttingDown
    /\ waiting' = waiting \ {k}
    /\ Add(k)
    /\ UNCHANGED <<processing, shuttingDown, returned, item, step, event, synced, errors>>

\* processNextWorkItem waits for an item.
TakeItem(w) ==
    /\ step[w] = "get" /\ Get
    /\ item' = [item EXCEPT ![w] = Head(queue)]
    /\ step' = [step EXCEPT ![w] = "sync"]
    /\ UNCHANGED <<waiting, shuttingDown, returned, event, synced, errors>>

\* Mutant: the shutdown result of Get is ignored.
ShutdownIgnored(w) ==
    /\ step[w] = "get" /\ queue = <<>> /\ shuttingDown
    /\ step' = [step EXCEPT ![w] = "sync"]
    /\ UNCHANGED <<queueVars, waiting, returned, item, event, synced, errors>>

\* Get returns shutdown once the queue is empty.
WorkerExits(w) ==
    /\ step[w] = "get" /\ queue = <<>> /\ shuttingDown
    /\ step' = [step EXCEPT ![w] = Exited]
    /\ UNCHANGED <<queueVars, waiting, returned, item, event, synced, errors>>

\* syncHandler reads the caches, which show every event delivered so far.
Sync(w) ==
    /\ step[w] = "sync"
    /\ synced' = [synced EXCEPT ![item[w]] = event[item[w]]]
    /\ step' = [step EXCEPT ![w] = "result"]
    /\ UNCHANGED <<queueVars, waiting, returned, item, event, errors>>

\* The sync succeeded: Forget.  The deferred Done comes next.
SyncSucceeds(w) ==
    /\ step[w] = "result"
    /\ step' = [step EXCEPT ![w] = "done"]
    /\ UNCHANGED <<queueVars, waiting, returned, item, event, synced, errors>>

\* Mutant: an error is not retried.
ErrorForgotten(w) ==
    /\ step[w] = "result" /\ errors < MaxErrors
    /\ errors' = errors + 1
    /\ step' = [step EXCEPT ![w] = "done"]
    /\ synced' = [synced EXCEPT ![item[w]] = 0]
    /\ UNCHANGED <<queueVars, waiting, returned, item, event>>

\* The sync returned an error: what it read counts for nothing, and
\* AddRateLimited schedules a retry, unless the queue is shut down.
SyncFails(w) ==
    /\ step[w] = "result" /\ errors < MaxErrors
    /\ errors' = errors + 1
    /\ step' = [step EXCEPT ![w] = "done"]
    /\ synced' = [synced EXCEPT ![item[w]] = 0]
    /\ waiting' = IF shuttingDown THEN waiting ELSE waiting \cup {item[w]}
    /\ UNCHANGED <<queueVars, returned, item, event>>

\* The deferred Done, and the next call of processNextWorkItem.
ItemDone(w) ==
    /\ step[w] = "done"
    /\ Done(item[w])
    /\ item' = [item EXCEPT ![w] = None]
    /\ step' = [step EXCEPT ![w] = "get"]
    /\ UNCHANGED <<waiting, shuttingDown, returned, event, synced, errors>>

\* Run: the context is cancelled, and the deferred ShutDown runs before Run
\* returns.
ShutDown ==
    /\ MayShutDown /\ ~shuttingDown
    /\ shuttingDown' = TRUE /\ returned' = TRUE
    /\ UNCHANGED <<queue, dirty, processing, waiting, item, step, event, synced, errors>>

-----------------------------------------------------------------------------

Init ==
    /\ queue = <<>> /\ dirty = {} /\ processing = {} /\ waiting = {}
    /\ shuttingDown = FALSE /\ returned = FALSE
    /\ item = [w \in Workers |-> None]
    /\ step = [w \in Workers |-> "get"]
    /\ event = [k \in Keys |-> 0] /\ synced = [k \in Keys |-> 0]
    /\ errors = 0

Worker(w) ==
    \/ TakeItem(w)
    \/ WorkerExits(w)
    \/ Sync(w)
    \/ SyncSucceeds(w)
    \/ SyncFails(w)
    \/ ItemDone(w)

Next ==
    \/ \E k \in Keys : Event(k) \/ AddDelayed(k)
    \/ \E w \in Workers : Worker(w)
    \/ ShutDown

Spec == Init /\ [][Next]_vars

\* Goroutines that can run, run, and timers fire.
Fairness ==
    /\ \A w \in Workers : WF_vars(Worker(w))
    /\ \A k \in Keys : WF_vars(AddDelayed(k))

FairSpec == Spec /\ Fairness

-----------------------------------------------------------------------------
(* Properties *)

Busy(w) == step[w] \in {"sync", "result", "done"}

\* Every variable has its type.
TypeOK ==
    /\ queue \in Seq(Keys)
    /\ dirty \subseteq Keys /\ processing \subseteq Keys /\ waiting \subseteq Keys
    /\ shuttingDown \in BOOLEAN /\ returned \in BOOLEAN
    /\ item \in [Workers -> Keys \cup {None}]
    /\ step \in [Workers -> {"get", "sync", "result", "done", Exited}]
    /\ \A w \in Workers : Busy(w) => item[w] \in Keys
    /\ event \in [Keys -> Nat] /\ synced \in [Keys -> Nat]
    /\ errors \in Nat

\* "The workqueue ensures that the same key is not processed simultaneously in
\* two different workers" (Controller.workqueue), however events, retries and
\* shutdown interleave.
OneWorkerPerKey ==
    \A v, w \in Workers : Busy(v) /\ Busy(w) /\ item[v] = item[w] => v = w

\* The queue holds every key that is to be processed and is not being
\* processed, exactly once (Add, Get and Done together).
QueueConsistent ==
    /\ \A i, j \in DOMAIN queue : queue[i] = queue[j] => i = j
    /\ \A k \in Keys : (\E i \in DOMAIN queue : queue[i] = k) <=> k \in dirty \ processing

\* An event that no successful sync has read yet, or a failed sync, is not
\* forgotten: the key is queued, waits for its delay, or is being processed by
\* a sync that will still read it or whose retry is due (processNextWorkItem).
NoEventLost ==
    ~shuttingDown => \A k \in Keys :
        synced[k] < event[k] =>
            \/ k \in dirty \cup waiting
            \/ \E w \in Workers : step[w] = "sync" /\ item[w] = k

\* "it will shutdown the workqueue and wait for workers to finish processing
\* their current work items" (Controller.Run).
RunWaitsForWorkers == returned => \A w \in Workers : ~Busy(w)

\* Every event of every NdbCluster is eventually read by a successful sync,
\* unless the operator is shut down first.
EveryEventSynced ==
    \A k \in Keys, e \in 1..MaxEvents :
        event[k] = e ~> synced[k] >= e \/ shuttingDown

\* NdbReconciler's view of the queue: the pending keys are those to be
\* processed, now or after a delay.
Requests == INSTANCE ReconcileRequests
                WITH pending <- dirty \cup waiting, syncing <- processing

\* The queue and its workers implement ReconcileRequests.
ImplementsRequests == Requests!Spec
=============================================================================
