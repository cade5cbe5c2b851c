----------------------------- MODULE ThreadPool -----------------------------
(***************************************************************************)
(* The thread pool as coded (ThreadPool.c): the queue is a linked list of  *)
(* allocated nodes with a head and a tail pointer.                         *)
(***************************************************************************)
EXTENDS Integers, FiniteSets, Sequences

CONSTANTS Workers, Tasks, Exit, NoTask,
          Nodes,      \* addresses of list nodes
          Null        \* the null pointer

ASSUME ThreadPoolAssumption ==
    /\ Workers # {}
    /\ Exit \notin Tasks
    /\ NoTask \notin Tasks \cup {Exit}
    /\ Null \notin Nodes
    /\ IsFiniteSet(Nodes)

VARIABLES
    queue, queue_tail,    \* head and tail pointers
    node,                 \* node[n]: its func/args and next, or not allocated
    worker, request, phase,
    dangling              \* a freed node has been read or written

listVars == <<queue, queue_tail, node, dangling>>
vars == <<listVars, worker, request, phase>>

Freed == [task |-> NoTask, next |-> Null]

TypeOK ==
    /\ queue \in Nodes \cup {Null}
    /\ queue_tail \in Nodes \cup {Null}
    /\ node \in [Nodes -> {Freed} \cup [task : Tasks \cup {Exit}, next : Nodes \cup {Null}]]
    /\ worker \in [Workers -> {"waiting", "woken", "running", "exited"}]
    /\ request \in [Workers -> Tasks \cup {Exit, NoTask}]
    /\ phase \in {"open", "cleared", "closing", "closed"}
    /\ dangling \in BOOLEAN

Init ==
    /\ queue = Null
    /\ queue_tail = Null
    /\ node = [n \in Nodes |-> Freed]
    /\ worker = [w \in Workers |-> "waiting"]
    /\ request = [w \in Workers |-> NoTask]
    /\ phase = "open"
    /\ dangling = FALSE

live(n) == n \in Nodes /\ node[n].task # NoTask

-----------------------------------------------------------------------------
(* The list.  n is the node malloc returns.                                *)

queueAddTailKept(t, n) ==                             \* mutant: tail not advanced
    /\ ~live(n)
    /\ \/ /\ queue = Null
          /\ queue' = n
          /\ queue_tail' = n
          /\ node' = [node EXCEPT ![n] = [task |-> t, next |-> Null]]
          /\ UNCHANGED dangling
       \/ /\ queue # Null
          /\ node' = [node EXCEPT ![queue_tail].next = n, ![n] = [task |-> t, next |-> Null]]
          /\ dangling' = (dangling \/ ~live(queue_tail))
          /\ UNCHANGED <<queue, queue_tail>>
queueAddFront(t, n) ==                                \* mutant: added at the head
    /\ ~live(n)
    /\ queue' = n
    /\ queue_tail' = IF queue = Null THEN n ELSE queue_tail
    /\ node' = [node EXCEPT ![n] = [task |-> t, next |-> queue]]
    /\ UNCHANGED dangling
queueAdd(t, n) ==
    /\ ~live(n)
    /\ \/ /\ queue = Null
          /\ queue' = n
          /\ queue_tail' = n
          /\ node' = [node EXCEPT ![n] = [task |-> t, next |-> Null]]
          /\ UNCHANGED dangling
       \/ /\ queue # Null
          /\ node' = [node EXCEPT ![queue_tail].next = n, ![n] = [task |-> t, next |-> Null]]
          /\ queue_tail' = n
          /\ dangling' = (dangling \/ ~live(queue_tail))
          /\ UNCHANGED queue

(* queueTakeHead of a list that is not empty.                              *)
queueTakeHead ==
    /\ dangling' = (dangling \/ ~live(queue))
    /\ queue' = node[queue].next
    /\ queue_tail' = IF node[queue].next = Null THEN Null ELSE queue_tail
    /\ node' = [node EXCEPT ![queue] = Freed]

(* queueTakeHead, or the loop of threadPoolDestroy, until nothing is left: *)
(* every node reachable from the head is freed.                            *)
chain[k \in 0 .. Cardinality(Nodes)] ==
    IF k = 0 THEN queue
    ELSE IF chain[k - 1] = Null THEN Null ELSE node[chain[k - 1]].next

onList == { chain[k] : k \in 0 .. Cardinality(Nodes) } \ {Null}

freeAll ==
    /\ queue' = Null
    /\ node' = [n \in Nodes |-> IF n \in onList THEN Freed ELSE node[n]]
    /\ dangling' = (dangling \/ \E n \in onList : ~live(n))

-----------------------------------------------------------------------------
(* The operations on the pool.                                             *)

signalled(wk) ==
    LET asleep == { w \in Workers : wk[w] = "waiting" }
    IN  IF asleep = {} THEN {wk} ELSE { [wk EXCEPT ![w] = "woken"] : w \in asleep }

threadPoolAdd(t, wk) ==
    /\ \E n \in Nodes : queueAdd(t, n)
    /\ worker' \in signalled(wk)

(* pthread_cond_timedwait returns on a signal or when the time is over.    *)
mayTakeSignalled(w) == worker[w] = "woken"            \* mutant: no timeout
mayTake(w) == worker[w] \in {"waiting", "woken"}

PoolTakeTask(w) ==
    /\ mayTake(w)
    /\ \/ /\ queue = Null
          /\ worker' = [worker EXCEPT ![w] = "waiting"]
          /\ UNCHANGED <<listVars, request>>
       \/ /\ queue # Null
          /\ worker' = [worker EXCEPT ![w] = "running"]
          /\ request' = [request EXCEPT ![w] = node[queue].task]
          /\ queueTakeHead
    /\ UNCHANGED phase

(* poolWorker goes round its loop; its task was a client request.          *)
poolWorker(w) ==
    /\ worker[w] = "running"
    /\ request[w] \in Tasks
    /\ worker' = [worker EXCEPT ![w] = "waiting"]
    /\ request' = [request EXCEPT ![w] = NoTask]
    /\ UNCHANGED <<listVars, phase>>

ThreadRequestExitOnce(w) ==                           \* mutant: not put back
    /\ worker[w] = "running"
    /\ request[w] = Exit
    /\ worker' = [worker EXCEPT ![w] = "exited"]
    /\ UNCHANGED <<listVars, request, phase>>
ThreadRequestExit(w) ==
    /\ worker[w] = "running"
    /\ request[w] = Exit
    /\ threadPoolAdd(Exit, [worker EXCEPT ![w] = "exited"])
    /\ UNCHANGED <<request, phase>>

(* The main thread hands over a connection that is not being served.       *)
Unserved(t) == /\ \A n \in Nodes : node[n].task # t
               /\ \A w \in Workers : request[w] # t

AddTask(t) ==
    /\ phase = "open"
    /\ Unserved(t)
    /\ threadPoolAdd(t, worker)
    /\ UNCHANGED <<request, phase>>

(* The list is emptied from its head; the last queueTakeHead resets tail.  *)
threadPoolClear ==
    /\ phase = "open"
    /\ phase' = "cleared"
    /\ freeAll
    /\ queue_tail' = IF queue = Null THEN queue_tail ELSE Null
    /\ UNCHANGED <<worker, request>>

AddExit ==
    /\ phase = "cleared"
    /\ phase' = "closing"
    /\ threadPoolAdd(Exit, worker)
    /\ UNCHANGED request

(* workersDestroy joins every worker, then threadPoolDestroy frees what is *)
(* left on the list.                                                       *)
workersDestroy ==
    /\ phase = "closing"
    /\ \A w \in Workers : worker[w] = "exited"
    /\ phase' = "closed"
    /\ freeAll
    /\ UNCHANGED <<queue_tail, worker, request>>

Next ==
    \/ \E t \in Tasks : AddTask(t)
    \/ threadPoolClear \/ AddExit \/ workersDestroy
    \/ \E w \in Workers : PoolTakeTask(w) \/ poolWorker(w) \/ ThreadRequestExit(w)

Spec == Init /\ [][Next]_vars

(* Workers run on, a wait ends, and the main thread closes once it began.  *)
Fairness ==
    /\ WF_vars(AddExit) /\ WF_vars(workersDestroy)
    /\ \A w \in Workers : WF_vars(PoolTakeTask(w)) /\ WF_vars(poolWorker(w))
                          /\ WF_vars(ThreadRequestExit(w))
FairSpec == Spec /\ Fairness

-----------------------------------------------------------------------------
(* Properties.                                                             *)

(* The tail pointer is good whenever it is used: no freed node is touched, *)
(* although the list empties and fills again with threads in between, and  *)
(* every allocated node is on the list, so threadPoolDestroy frees all.    *)
ListIntact ==
    /\ TypeOK
    /\ ~dangling
    /\ { n \in Nodes : live(n) } = onList
    /\ queue # Null => live(queue_tail) /\ node[queue_tail].next = Null

length == Cardinality({ k \in 0 .. Cardinality(Nodes) : chain[k] # Null })
listed == [i \in 1 .. length |-> node[chain[i - 1]].task]

Abstract == INSTANCE TaskPool WITH tasks <- listed

(* The linked list behaves as the FIFO queue of TaskPool in every step of  *)
(* the main thread and of the workers.                                     *)
ImplementsTaskPool == Abstract!Spec

(* A queued connection is served although a signal sent while every worker *)
(* is busy is lost.                                                        *)
TaskIsTaken ==
    \A t \in Tasks :
        (\E n \in Nodes : node[n].task = t) ~>
            ((\E w \in Workers : request[w] = t) \/ phase # "open")

(* Closing the pool reaches the join of every worker: the one exit task is *)
(* handed from worker to worker.                                           *)
AllWorkersExit == phase = "cleared" ~> phase = "closed"

=============================================================================
