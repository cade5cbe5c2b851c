------------------------------ MODULE TaskPool ------------------------------
(***************************************************************************)
(* What the thread pool of the server promises (ThreadPool.c): a FIFO      *)
(* queue of tasks, a fixed number of workers that each take and run one    *)
(* task at a time, and the closing of the pool by a task that makes the    *)
(* worker that runs it leave.  ThreadPool refines this with the linked     *)
(* list of the code; Server composes it with the main loop.                *)
(*                                                                         *)
(* The pool's mutex is held only in sections that wait for nothing else,   *)
(* each part of one step.  pthread_cond_timedwait returns when signalled   *)
(* ("woken") or when its 50 microseconds are over ("waiting"); it is       *)
(* called whether or not the queue is empty.                               *)
(***************************************************************************)
EXTENDS Naturals, Sequences

CONSTANTS
    Workers,     \* the worker threads
    Tasks,       \* arguments of clientReadReq: a connection to serve
    Exit,        \* the task ThreadRequestExit
    NoTask       \* a NULL function: the queue was empty

ASSUME TaskPoolAssumption ==
    /\ Workers # {}
    /\ Exit \notin Tasks
    /\ NoTask \notin Tasks \cup {Exit}

VARIABLES
    tasks,       \* the queue, the oldest task first
    worker,      \* where each worker stands
    request,     \* the task a worker runs
    phase        \* how far the main thread is in closing the pool

poolVars == <<tasks, worker, request, phase>>

WorkerStates == {"waiting", "woken", "running", "exited"}
Phases == {"open", "cleared", "closing", "closed"}

PoolTypeOK ==
    /\ tasks \in Seq(Tasks \cup {Exit})
    /\ worker \in [Workers -> WorkerStates]
    /\ request \in [Workers -> Tasks \cup {Exit, NoTask}]
    /\ phase \in Phases

PoolInit ==
    /\ tasks = <<>>
    /\ worker = [w \in Workers |-> "waiting"]
    /\ request = [w \in Workers |-> NoTask]
    /\ phase = "open"

(* pthread_cond_signal wakes one waiting worker; with none it is lost.     *)
signalled(wk) ==
    LET asleep == { w \in Workers : wk[w] = "waiting" }
    IN  IF asleep = {} THEN {wk} ELSE { [wk EXCEPT ![w] = "woken"] : w \in asleep }

threadPoolAdd(t) ==
    /\ tasks' = Append(tasks, t)
    /\ worker' \in signalled(worker)
    /\ UNCHANGED request

(* PoolTakeTask after its wait, which a timeout also ends.                 *)
mayTakeSignalled(w) == worker[w] = "woken"            \* mutant: no timeout
mayTake(w) == worker[w] \in {"waiting", "woken"}

PoolTakeTask(w) ==
    /\ mayTake(w)
    /\ \/ /\ tasks = <<>>
          /\ worker' = [worker EXCEPT ![w] = "waiting"]
          /\ UNCHANGED <<tasks, request>>
       \/ /\ tasks # <<>>
          /\ worker' = [worker EXCEPT ![w] = "running"]
          /\ request' = [request EXCEPT ![w] = Head(tasks)]
          /\ tasks' = Tail(tasks)
    /\ UNCHANGED phase

(* clientReadReq has returned and poolWorker goes round its loop.          *)
taskDone(w) ==
    /\ worker[w] = "running"
    /\ request[w] \in Tasks
    /\ worker' = [worker EXCEPT ![w] = "waiting"]
    /\ request' = [request EXCEPT ![w] = NoTask]
    /\ UNCHANGED <<tasks, phase>>

(* ThreadRequestExit: put the task back for the next worker, and leave.    *)
ThreadRequestExit(w) ==
    /\ worker[w] = "running"
    /\ request[w] = Exit
    /\ tasks' = Append(tasks, Exit)
    /\ worker' \in signalled([worker EXCEPT ![w] = "exited"])
    /\ UNCHANGED <<request, phase>>

(* The main thread: a task for a connection nobody serves, and the closing *)
(* sequence threadPoolClear, threadPoolAdd, workersDestroy.                *)
Unserved(t) == /\ \A i \in 1 .. Len(tasks) : tasks[i] # t
               /\ \A w \in Workers : request[w] # t

AddTask(t) == phase = "open" /\ Unserved(t) /\ threadPoolAdd(t) /\ UNCHANGED phase

threadPoolClear ==
    /\ phase = "open"
    /\ phase' = "cleared"
    /\ tasks' = <<>>
    /\ UNCHANGED <<worker, request>>

AddExit == phase = "cleared" /\ phase' = "closing" /\ threadPoolAdd(Exit)

workersDestroy ==
    /\ phase = "closing"
    /\ \A w \in Workers : worker[w] = "exited"
    /\ phase' = "closed"
    /\ tasks' = <<>>                                  \* threadPoolDestroy
    /\ UNCHANGED <<worker, request>>

Next ==
    \/ \E t \in Tasks : AddTask(t)
    \/ threadPoolClear \/ AddExit \/ workersDestroy
    \/ \E w \in Workers : PoolTakeTask(w) \/ taskDone(w) \/ ThreadRequestExit(w)

Spec == PoolInit /\ [][Next]_poolVars

=============================================================================
