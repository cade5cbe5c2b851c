----------------------------- MODULE ServerProofs -----------------------------
(***************************************************************************)
(* Theorems about the main loop, the workers and the pipe between them,    *)
(* for every number of clients, workers and requests and every set of      *)
(* signals.                                                                *)
(*                                                                         *)
(* The invariants are proved in three layers, each inductive with those    *)
(* before it: what the threads are doing (Threads), how the numbers in the *)
(* pipe pair up (Paired), and where the connections are (Tracked).         *)
(***************************************************************************)
EXTENDS Server, Lemmas

-----------------------------------------------------------------------------
(* The first layer: types, the pool and the parts of the loop's state that *)
(* do not depend on who has a connection.                                  *)

(* The task of a worker follows from where it stands, and the closing of   *)
(* the pool from how far the main thread is.                               *)
PoolPhases ==
    /\ \A w \in Workers :
          /\ worker[w] \in {"waiting", "woken"} => request[w] = NoTask
          /\ worker[w] = "running" => request[w] # NoTask
          /\ worker[w] = "exited" => request[w] = Exit
    /\ phase \in {"open", "cleared"} =>
          /\ \A k \in 1 .. Len(tasks) : tasks[k] # Exit
          /\ \A w \in Workers : request[w] # Exit
    /\ phase = "closed" => \A w \in Workers : worker[w] = "exited"
    /\ main \in {"select", "scan"} => phase = "open"

(* The main thread always waits for its pipes and for new connections, and *)
(* finds the signal it was told of.                                        *)
AlwaysWatched ==
    /\ {PipeFd, SignalFd, ListenFd} \subseteq fdset
    /\ main = "scan" /\ SignalFd \in ready /\ i =< SignalFd => sigpipe # <<>>

(* An open connection belongs to one client, which has been accepted.      *)
OneConnection ==
    /\ \A f \in ClientFds : sock[f] # NoClient => client[sock[f]] \in {"connected", "closed"}
    /\ \A f, g \in ClientFds : sock[f] = sock[g] /\ sock[f] # NoClient => f = g

Threads == TypeOK /\ PoolPhases /\ AlwaysWatched /\ OneConnection

-----------------------------------------------------------------------------
(* The second layer: the pipe.                                             *)

(* Workers that have written fdOpen and not yet the descriptor.            *)
Writers == { w \in Workers : InRequest(w, "fd") }

(* Reading from the front, there are never more descriptors than fdOpens,  *)
(* and the fdOpens that have no descriptor yet are those of the workers    *)
(* between their two writes.                                               *)
FdsAmong(k) == Cardinality(Occ(pipe, k, ClientFds))
Paired ==
    ~garbled =>
        /\ \A k \in 0 .. Len(pipe) : 2 * FdsAmong(k) =< k
        /\ Len(pipe) = 2 * FdsAmong(Len(pipe)) + Cardinality(Writers)

-----------------------------------------------------------------------------
(* The third layer: the connections.                                       *)

Tracked ==
    ~garbled /\ phase = "open" =>
        \A f \in ClientFds :
            IF sock[f] = NoClient THEN f \notin fdset \cup workset /\ Holders(f) = 0
            ELSE \/ f \in fdset \ workset /\ Holders(f) = 0
                 \/ f \in workset \ fdset /\ Holders(f) = 1

(* A connection the scan has still to meet is in fd_struct.                *)
ScanSound ==
    ~garbled /\ main = "scan" =>
        \A f \in ready \cap ClientFds : i =< f => f \in fdset /\ sock[f] # NoClient

Served == Tracked /\ ScanSound /\ MaxCovers /\ HangupServesAll

ServerInv == Threads /\ Paired /\ Served

-----------------------------------------------------------------------------
(* The operators.                                                          *)

(* Only a waiting worker is woken.                                         *)
LEMMA Signalled ==
    ASSUME NEW wk \in [Workers -> WorkerStates], NEW v \in signalled(wk)
    PROVE  /\ v \in [Workers -> WorkerStates]
           /\ \A w \in Workers : v[w] = wk[w] \/ (wk[w] = "waiting" /\ v[w] = "woken")
    BY DEF signalled, WorkerStates

(* ClientFds is a finite set of as many descriptors as there are clients.  *)
LEMMA ClientFdsFinite ==
    /\ IsFiniteSet(ClientFds)
    /\ Cardinality(ClientFds) = Cardinality(Clients)
    /\ Cardinality(Clients) \in Nat
    /\ \A f \in ClientFds : f \in Nat /\ f > ListenFd /\ f =< ListenFd + Cardinality(Clients)
<1>1. Cardinality(Clients) \in Nat
    BY ServerAssumption, FS_CardinalityType
<1>2. 8 \in Int /\ 7 + Cardinality(Clients) \in Int
    BY <1>1
<1>3. IsFiniteSet(ClientFds)
    BY <1>2, FS_Interval DEF ClientFds
<1>4. Cardinality(ClientFds) = Cardinality(Clients)
  <2> DEFINE m == 8
             n == 7 + Cardinality(Clients)
  <2>1. m \in Int /\ n \in Int
      BY <1>1
  <2>2. Cardinality(m .. n) = IF m > n THEN 0 ELSE n - m + 1
    <3> HIDE DEF m, n
    <3> QED
        BY <2>1, FS_Interval
  <2> QED
      BY <1>1, <2>2 DEF ClientFds
<1> QED
    BY <1>1, <1>3, <1>4 DEF ClientFds, ListenFd

(* While a client waits in the backlog a descriptor is free: the others    *)
(* have at most one each.                                                  *)
LEMMA FreeFd ==
    ASSUME Threads, backlog # {}
    PROVE  Min(freeFds) \in ClientFds /\ sock[Min(freeFds)] = NoClient
<1>1. freeFds # {}
  <2> SUFFICES ASSUME freeFds = {} PROVE FALSE
      OBVIOUS
  <2>1. PICK c \in Clients : client[c] = "backlog"
      BY DEF backlog
  <2>2. sock \in [ClientFds -> Clients \ {c}]
    <3>1. sock \in [ClientFds -> Clients \cup {NoClient}]
        BY DEF Threads, TypeOK
    <3>2. \A f \in ClientFds : sock[f] # NoClient /\ sock[f] # c
        BY <2>1 DEF freeFds, Threads, OneConnection
    <3> QED
        BY <3>1, <3>2
  <2>3. IsFiniteSet(Clients \ {c}) /\ Cardinality(Clients \ {c}) = Cardinality(Clients) - 1
      BY ServerAssumption, FS_RemoveElement
  <2>4. \E f, g \in ClientFds : f # g /\ sock[f] = sock[g]
    <3>1. Cardinality(Clients \ {c}) < Cardinality(ClientFds)
        BY <2>3, ClientFdsFinite
    <3> QED
        BY <2>2, <2>3, <3>1, ClientFdsFinite, FS_PigeonHole
  <2> QED
      BY <2>2, <2>4 DEF Threads, OneConnection, freeFds
<1>2. freeFds \in SUBSET Int /\ IsFiniteSet(freeFds)
  <2>1. freeFds \subseteq ClientFds
      BY DEF freeFds
  <2> QED
      BY <2>1, ClientFdsFinite, FS_Subset
<1>3. Min(freeFds) \in freeFds
    BY <1>1, <1>2, MinIsMember
<1> QED
    BY <1>3 DEF freeFds

(* What the scan meets is set, not before the position and not above max.  *)
LEMMA MetFd ==
    ASSUME TypeOK, NEW f, Meets(f)
    PROVE  main = "scan" /\ f \in ready /\ i =< f /\ f =< fdmax /\ \A g \in ready : i =< g /\ g =< fdmax => f =< g
<1>1. ready \in SUBSET Int /\ IsFiniteSet(ready)
  <2> DEFINE n == ListenFd + Cardinality(Clients)
  <2>1. n \in Nat /\ \A g \in {PipeFd, SignalFd, ListenFd} \cup ClientFds : g \in Nat /\ g =< n
      BY ClientFdsFinite DEF PipeFd, SignalFd, ListenFd
  <2>2. ready \in SUBSET Nat /\ \A g \in ready : g =< n
      BY <2>1 DEF TypeOK
  <2>3. IsFiniteSet(ready)
    <3> HIDE DEF n
    <3> QED
        BY <2>1, <2>2, FS_BoundedSetOfNaturals
  <2> QED
      BY <2>2, <2>3
<1>2. ahead \in SUBSET Int /\ IsFiniteSet(ahead)
  <2>1. ahead \subseteq ready
      BY DEF ahead
  <2> QED
      BY <1>1, <2>1, FS_Subset
<1>3. f \in ahead /\ \A g \in ahead : f =< g
    BY <1>2, MinIsMember DEF Meets
<1> QED
    BY <1>3 DEF Meets, ahead

(* FdSetUpdate finds the greatest watched descriptor up to the old max,    *)
(* which is at least the listening socket.                                 *)
LEMMA UpdatedMax ==
    ASSUME TypeOK, ListenFd \in fdset, FdSetUpdate
    PROVE  /\ fdmax' \in ListenFd .. fdmax
           /\ \A f \in watched : f =< fdmax => f =< fdmax'
<1> DEFINE S == {0} \cup { f \in watched : f =< fdmax }
<1>1. S \in SUBSET Int /\ IsFiniteSet(S) /\ ListenFd \in S
  <2>1. watched \subseteq {PipeFd, SignalFd, ListenFd} \cup ClientFds
      BY DEF watched, TypeOK
  <2>2. \A g \in {PipeFd, SignalFd, ListenFd} \cup ClientFds : g \in Nat
      BY ClientFdsFinite DEF PipeFd, SignalFd, ListenFd
  <2>3. fdmax \in Nat /\ ListenFd =< fdmax
      BY ClientFdsFinite DEF TypeOK, ListenFd
  <2>4. S \subseteq Nat /\ \A x \in S : x =< fdmax
      BY <2>1, <2>2, <2>3
  <2>5. IsFiniteSet(S)
    <3> HIDE DEF S
    <3> QED
        BY <2>3, <2>4, FS_BoundedSetOfNaturals
  <2> QED
      BY <2>3, <2>4, <2>5 DEF watched
<1>2. fdmax' = Max(S)
    BY DEF FdSetUpdate
<1>3. Max(S) \in S /\ \A y \in S : y =< Max(S)
  <2> HIDE DEF S
  <2> QED
      BY <1>1, MaxIsMember
<1> QED
    BY <1>1, <1>2, <1>3, ClientFdsFinite DEF TypeOK, ListenFd

-----------------------------------------------------------------------------
(* The first layer is inductive.                                           *)

(* The loop starts with its own three descriptors and an idle pool.        *)
LEMMA ThreadsInit == Init => Threads
<1> SUFFICES ASSUME Init PROVE Threads
    OBVIOUS
<1>1. TypeOK
  <2>1. fdmax \in ListenFd .. ListenFd + Cardinality(Clients)
      BY ClientFdsFinite DEF Init, ListenFd
  <2>2. PoolTypeOK
      BY DEF Init, PoolInit, PoolTypeOK, WorkerStates, Phases
  <2>3. made \in [Clients -> 0 .. MaxRequests]
      BY ServerAssumption DEF Init
  <2>4. pipe \in Seq({0, 1} \cup ClientFds) /\ sigpipe \in Seq(Signals)
      BY DEF Init
  <2> QED
      BY <2>1, <2>2, <2>3, <2>4 DEF Init, TypeOK
<1>2. PoolPhases
    BY TaskPoolAssumption DEF Init, PoolInit, PoolPhases
<1>3. AlwaysWatched /\ OneConnection
    BY DEF Init, AlwaysWatched, OneConnection
<1> QED
    BY <1>1, <1>2, <1>3 DEF Threads

(* Every step of the main thread, a worker, the signal thread or a client  *)
(* keeps the first layer.                                                  *)
LEMMA ThreadsStep == Threads /\ [ServerNext]_vars => Threads'
<1> SUFFICES ASSUME Threads, [ServerNext]_vars PROVE Threads'
    OBVIOUS
<1> USE DEF Threads
<1>1. ASSUME NEW c \in Clients, Connect(c) PROVE Threads'
  <2>1. TypeOK'
      BY <1>1 DEF TypeOK, Connect, PoolTypeOK, poolVars, loopVars, workerVars, signalVars
  <2>2. PoolPhases' /\ AlwaysWatched'
      BY <1>1 DEF Connect, PoolPhases, AlwaysWatched, poolVars, loopVars, signalVars
  <2>3. OneConnection'
      BY <1>1 DEF Connect, OneConnection, TypeOK
  <2> QED
      BY <2>1, <2>2, <2>3
<1>2. ASSUME NEW c \in Clients, Ask(c) PROVE Threads'
  <2>1. TypeOK'
    <3>1. made' \in [Clients -> 0 .. MaxRequests]
        BY <1>2, ServerAssumption DEF TypeOK, Ask
    <3> QED
        BY <1>2, <3>1 DEF TypeOK, Ask, PoolTypeOK, poolVars, loopVars, workerVars, signalVars
  <2>2. PoolPhases' /\ AlwaysWatched' /\ OneConnection'
      BY <1>2 DEF Ask, PoolPhases, AlwaysWatched, OneConnection, poolVars, loopVars, signalVars
  <2> QED
      BY <2>1, <2>2
<1>3. ASSUME NEW c \in Clients, Close(c) PROVE Threads'
  <2>1. TypeOK'
      BY <1>3 DEF TypeOK, Close, PoolTypeOK, poolVars, loopVars, workerVars, signalVars
  <2>2. PoolPhases' /\ AlwaysWatched'
      BY <1>3 DEF Close, PoolPhases, AlwaysWatched, poolVars, loopVars, signalVars
  <2>3. OneConnection'
      BY <1>3 DEF Close, OneConnection, TypeOK
  <2> QED
      BY <2>1, <2>2, <2>3
<1>4. ASSUME NEW s \in Signals, SendSignal(s) PROVE Threads'
  <2>1. TypeOK'
      BY <1>4 DEF TypeOK, SendSignal, PoolTypeOK, poolVars, loopVars, workerVars, clientVars
  <2>2. PoolPhases' /\ AlwaysWatched' /\ OneConnection'
      BY <1>4 DEF SendSignal, PoolPhases, AlwaysWatched, OneConnection, poolVars, loopVars, clientVars
  <2> QED
      BY <2>1, <2>2
<1>5. CASE signal_h
  <2>1. sigpipe' \in Seq(Signals) /\ sigpipe' # <<>>
      BY <1>5, AppendProperties DEF TypeOK, signal_h
  <2>2. TypeOK'
      BY <1>5, <2>1 DEF TypeOK, signal_h, PoolTypeOK, poolVars, loopVars, workerVars, clientVars
  <2>3. PoolPhases' /\ AlwaysWatched' /\ OneConnection'
      BY <1>5, <2>1 DEF signal_h, PoolPhases, AlwaysWatched, OneConnection, poolVars, loopVars, clientVars
  <2> QED
      BY <2>2, <2>3
<1>6. CASE Select
  <2>1. TypeOK'
      BY <1>6 DEF TypeOK, Select, PoolTypeOK, poolVars, workerVars, signalVars, clientVars
  <2>2. PoolPhases' /\ OneConnection'
      BY <1>6 DEF Select, PoolPhases, OneConnection, poolVars, clientVars
  <2>3. AlwaysWatched'
    <3>1. SignalFd \in ready' => sigpipe # <<>>
        BY <1>6, ClientFdsFinite DEF Select, readable, SignalFd, PipeFd, ListenFd
    <3> QED
        BY <1>6, <3>1 DEF Select, AlwaysWatched, signalVars
  <2> QED
      BY <2>1, <2>2, <2>3
<1>7. CASE readSignal
  <2>1. main = "scan" /\ SignalFd \in ready /\ i =< SignalFd
      BY <1>7, MetFd DEF readSignal
  <2>2. Head(sigpipe) \in Signals /\ Tail(sigpipe) \in Seq(Signals)
      BY <2>1, HeadTailProperties DEF AlwaysWatched, TypeOK
  <2>3. TypeOK'
      BY <1>7, <2>2 DEF TypeOK, readSignal, Passed, SignalFd, PoolTypeOK, poolVars, workerVars, clientVars
  <2>4. PoolPhases' /\ OneConnection' /\ AlwaysWatched'
      BY <1>7 DEF readSignal, Passed, SignalFd, PoolPhases, OneConnection, AlwaysWatched, poolVars, clientVars
  <2> QED
      BY <2>3, <2>4
<1>8. ASSUME NEW c \in Clients, acceptConnection(c) PROVE Threads'
  <2> DEFINE f == Min(freeFds)
  <2>1. f \in ClientFds /\ sock[f] = NoClient /\ client[c] = "backlog"
      BY <1>8, FreeFd DEF acceptConnection, backlog
  <2> HIDE DEF f
  <2>2. /\ i' = ListenFd + 1
        /\ sock' = [sock EXCEPT ![f] = c]
        /\ client' = [client EXCEPT ![c] = "connected"]
        /\ fdset' = fdset \cup {f}
        /\ fdmax' = IF f > fdmax THEN f ELSE fdmax
        /\ UNCHANGED <<poolVars, main, ready, workset, signal, workerVars, signalVars, asked, made, garbled>>
      BY <1>8 DEF acceptConnection, Passed, f
  <2>3. TypeOK'
    <3>1. fdmax' \in ListenFd .. ListenFd + Cardinality(Clients) /\ i' \in Nat
        BY <2>1, <2>2, ClientFdsFinite DEF TypeOK, ListenFd
    <3> QED
        BY <2>1, <2>2, <3>1 DEF TypeOK, PoolTypeOK, poolVars, workerVars, signalVars
  <2>4. PoolPhases' /\ AlwaysWatched'
      BY <2>2 DEF PoolPhases, AlwaysWatched, ListenFd, SignalFd, poolVars, signalVars
  <2>5. OneConnection'
      BY <2>1, <2>2, ServerAssumption DEF OneConnection, TypeOK
  <2> QED
      BY <2>3, <2>4, <2>5
<1>9. CASE ignoreConnection
  <2>1. TypeOK'
      BY <1>9 DEF TypeOK, ignoreConnection, Passed, ListenFd, PoolTypeOK, poolVars, workerVars, signalVars, clientVars
  <2>2. PoolPhases' /\ OneConnection' /\ AlwaysWatched'
      BY <1>9 DEF ignoreConnection, Passed, ListenFd, SignalFd, PoolPhases, OneConnection, AlwaysWatched,
                  poolVars, clientVars, signalVars
  <2> QED
      BY <2>1, <2>2
<1>10. CASE checkPipeForFd
  <2>1. /\ i' = PipeFd + 1
        /\ pipe' = SubSeq(pipe, 3, Len(pipe))
        /\ UNCHANGED <<main, ready, poolVars, fdmax, signal, step, fdOpen, signalVars, client, asked, made>>
      BY <1>10 DEF checkPipeForFd, Passed
  <2>2. /\ garbled' \in BOOLEAN
        /\ \/ UNCHANGED <<fdset, workset, sock>>
           \/ \E f \in ClientFds :
                 /\ workset' = workset \ {f}
                 /\ fdset' \in {fdset, fdset \cup {f}}
                 /\ sock' \in {sock, [sock EXCEPT ![f] = NoClient]}
      BY <1>10 DEF checkPipeForFd, giveBack, TypeOK
  <2>3. /\ fdset \subseteq fdset' /\ fdset' \subseteq {PipeFd, SignalFd, ListenFd} \cup ClientFds
        /\ workset' \subseteq ClientFds
        /\ sock' \in [ClientFds -> Clients \cup {NoClient}]
    <3>1. fdset \subseteq {PipeFd, SignalFd, ListenFd} \cup ClientFds /\ workset \subseteq ClientFds
          /\ sock \in [ClientFds -> Clients \cup {NoClient}]
        BY DEF TypeOK
    <3> QED
        BY <2>2, <3>1
  <2>4. i \in Nat /\ i =< PipeFd
      BY <1>10, MetFd DEF checkPipeForFd, TypeOK
  <2>5. pipe' \in Seq({0, 1} \cup ClientFds)
      BY <2>1, SubSeqProperties, LenProperties DEF TypeOK
  <2>6. TypeOK'
      BY <2>1, <2>2, <2>3, <2>5 DEF TypeOK, PipeFd, PoolTypeOK, poolVars, signalVars
  <2>7. PoolPhases'
      BY <2>1 DEF PoolPhases, poolVars
  <2>8. AlwaysWatched' /\ OneConnection'
    <3>1. i =< SignalFd
        BY <2>4 DEF PipeFd, SignalFd
    <3>2. main' = "scan" /\ SignalFd \in ready' => sigpipe' # <<>>
        BY <2>1, <3>1 DEF AlwaysWatched, signalVars
    <3>3. AlwaysWatched'
        BY <2>3, <3>2 DEF AlwaysWatched
    <3>4. OneConnection'
        BY ZenonT(30), <2>1, <2>2, ServerAssumption DEF OneConnection, TypeOK
    <3> QED
        BY <3>3, <3>4
  <2> QED
      BY <2>6, <2>7, <2>8
<1>11. ASSUME NEW f \in ClientFds, clientRequest(f) PROVE Threads'
  <2>1. main = "scan" /\ f \in Nat /\ f > ListenFd
      BY <1>11, MetFd, ClientFdsFinite DEF clientRequest
  <2>2. /\ i' = f + 1
        /\ tasks' = Append(tasks, f)
        /\ worker' \in signalled(worker)
        /\ fdset' = fdset \ {f}
        /\ workset' = workset \cup {f}
        /\ UNCHANGED <<main, ready, request, phase, fdmax, signal, workerVars, signalVars, clientVars, garbled>>
      BY <1>11 DEF clientRequest, Passed, threadPoolAdd, taken
  <2>3. tasks' \in Seq(Tasks \cup {Exit}) /\ Len(tasks') = Len(tasks) + 1 /\ Len(tasks) \in Nat
        /\ (\A k \in 1 .. Len(tasks) : tasks'[k] = tasks[k]) /\ tasks'[Len(tasks) + 1] = f
      BY <2>2, ServerAssumption, AppendProperties, LenProperties DEF TypeOK, PoolTypeOK
  <2>4. /\ worker' \in [Workers -> WorkerStates]
        /\ \A w \in Workers : worker'[w] = worker[w] \/ (worker[w] = "waiting" /\ worker'[w] = "woken")
      BY <2>2, Signalled DEF TypeOK, PoolTypeOK
  <2>5. TypeOK'
      BY <2>1, <2>2, <2>3, <2>4 DEF TypeOK, PoolTypeOK, workerVars, signalVars, clientVars
  <2>6. PoolPhases'
    <3>1. f # Exit /\ \A k \in 1 .. Len(tasks') : tasks'[k] # Exit
        BY <2>1, <2>3, ServerAssumption, TaskPoolAssumption DEF PoolPhases
    <3> QED
        BY <2>1, <2>2, <2>4, <3>1 DEF PoolPhases
  <2>7. AlwaysWatched' /\ OneConnection'
      BY <2>1, <2>2 DEF AlwaysWatched, OneConnection, PipeFd, SignalFd, ListenFd, signalVars, clientVars
  <2> QED
      BY <2>5, <2>6, <2>7
<1>12. CASE endOfScan
  <2>1. fdmax' \in ListenFd .. ListenFd + Cardinality(Clients)
    <3>1. fdmax' \in ListenFd .. fdmax
        BY <1>12, UpdatedMax DEF endOfScan, AlwaysWatched
    <3> QED
        BY <3>1, ClientFdsFinite DEF TypeOK, ListenFd
  <2>2. main' \in {"select", "closing"}
      BY <1>12 DEF endOfScan
  <2>3. TypeOK'
      BY <1>12, <2>1, <2>2 DEF TypeOK, endOfScan, PoolTypeOK, poolVars, workerVars, signalVars, clientVars
  <2>4. PoolPhases'
      BY <1>12, <2>2 DEF PoolPhases, endOfScan, poolVars
  <2>5. AlwaysWatched' /\ OneConnection'
      BY <1>12, <2>2 DEF AlwaysWatched, OneConnection, endOfScan, clientVars
  <2> QED
      BY <2>3, <2>4, <2>5
<1>13. CASE closePool
  <2>1. main = "closing" /\ UNCHANGED <<loopVars, workerVars, signalVars, clientVars, garbled>>
      BY <1>13 DEF closePool
  <2>2. AlwaysWatched' /\ OneConnection'
      BY <2>1 DEF AlwaysWatched, OneConnection, loopVars, signalVars, clientVars
  <2>3. CASE threadPoolClear
    <3>1. TypeOK'
        BY <2>1, <2>3 DEF TypeOK, PoolTypeOK, threadPoolClear, Phases, loopVars, workerVars, signalVars, clientVars
    <3>2. PoolPhases'
        BY <2>1, <2>3 DEF PoolPhases, threadPoolClear, loopVars
    <3> QED
        BY <2>2, <3>1, <3>2
  <2>4. CASE AddExit
    <3>1. /\ worker' \in [Workers -> WorkerStates]
          /\ \A w \in Workers : worker'[w] = worker[w] \/ (worker[w] = "waiting" /\ worker'[w] = "woken")
        BY <2>4, Signalled DEF AddExit, threadPoolAdd, TypeOK, PoolTypeOK
    <3>2. TypeOK'
      <4>1. tasks' \in Seq(Tasks \cup {Exit})
          BY <2>4, AppendProperties DEF AddExit, threadPoolAdd, TypeOK, PoolTypeOK
      <4> QED
          BY <2>1, <2>4, <3>1, <4>1
             DEF TypeOK, PoolTypeOK, AddExit, threadPoolAdd, Phases, loopVars, workerVars, signalVars, clientVars
    <3>3. PoolPhases'
        BY <2>1, <2>4, <3>1 DEF PoolPhases, AddExit, threadPoolAdd, loopVars
    <3> QED
        BY <2>2, <3>2, <3>3
  <2>5. CASE workersDestroy
    <3>1. TypeOK'
        BY <2>1, <2>5 DEF TypeOK, PoolTypeOK, workersDestroy, Phases, loopVars, workerVars, signalVars, clientVars
    <3>2. PoolPhases'
        BY <2>1, <2>5 DEF PoolPhases, workersDestroy, loopVars
    <3> QED
        BY <2>2, <3>1, <3>2
  <2> QED
      BY <1>13, <2>3, <2>4, <2>5 DEF closePool
<1>14. CASE endOfMain
  <2>1. TypeOK'
      BY <1>14 DEF TypeOK, endOfMain, PoolTypeOK, poolVars, workerVars, signalVars, clientVars
  <2>2. PoolPhases' /\ AlwaysWatched' /\ OneConnection'
      BY <1>14 DEF endOfMain, PoolPhases, AlwaysWatched, OneConnection, poolVars, signalVars, clientVars
  <2> QED
      BY <2>1, <2>2
<1>15. ASSUME NEW w \in Workers, takeTask(w) PROVE Threads'
  <2>1. /\ worker[w] \in {"waiting", "woken"} /\ request[w] = NoTask
        /\ step' = [step EXCEPT ![w] = "read"]
        /\ UNCHANGED <<phase, loopVars, pipe, fdOpen, signalVars, clientVars, garbled>>
      BY <1>15 DEF takeTask, PoolTakeTask, mayTake, PoolPhases
  <2>2. AlwaysWatched' /\ OneConnection'
      BY <2>1 DEF AlwaysWatched, OneConnection, loopVars, signalVars, clientVars
  <2>3. CASE worker' = [worker EXCEPT ![w] = "waiting"] /\ UNCHANGED <<tasks, request>>
    <3>1. TypeOK'
        BY <2>1, <2>3 DEF TypeOK, PoolTypeOK, WorkerStates, loopVars, signalVars, clientVars
    <3>2. PoolPhases'
        BY <2>1, <2>3 DEF PoolPhases, TypeOK, PoolTypeOK, loopVars
    <3> QED
        BY <2>2, <3>1, <3>2
  <2>4. CASE /\ tasks # <<>>
             /\ worker' = [worker EXCEPT ![w] = "running"]
             /\ request' = [request EXCEPT ![w] = Head(tasks)]
             /\ tasks' = Tail(tasks)
    <3>1. /\ Head(tasks) \in Tasks \cup {Exit} /\ Head(tasks) = tasks[1] /\ 1 \in 1 .. Len(tasks)
          /\ Tail(tasks) \in Seq(Tasks \cup {Exit}) /\ Len(Tail(tasks)) = Len(tasks) - 1 /\ Len(tasks) \in Nat
          /\ \A k \in 1 .. Len(Tail(tasks)) : Tail(tasks)[k] = tasks[k + 1]
        BY <2>4, HeadTailProperties, LenProperties, EmptySeq DEF TypeOK, PoolTypeOK
    <3>2. TypeOK'
        BY <2>1, <2>4, <3>1 DEF TypeOK, PoolTypeOK, WorkerStates, loopVars, signalVars, clientVars
    <3>3. PoolPhases'
      <4>1. phase \in {"open", "cleared"} => \A k \in 1 .. Len(tasks') : tasks'[k] # Exit
          BY <2>4, <3>1 DEF PoolPhases
      <4>2. phase # "closed" /\ Head(tasks) # NoTask
          BY <2>1, <3>1, TaskPoolAssumption DEF PoolPhases
      <4> QED
          BY <2>1, <2>4, <3>1, <4>1, <4>2 DEF PoolPhases, TypeOK, PoolTypeOK, loopVars
    <3> QED
        BY <2>2, <3>2, <3>3
  <2> QED
      BY <1>15, <2>3, <2>4 DEF takeTask, PoolTakeTask
<1>16. ASSUME NEW w \in Workers, clientReadReq(w) \/ ReqFunArr(w) PROVE Threads'
  <2>1. TypeOK'
    <3>1. /\ asked' \in [Clients -> BOOLEAN]
          /\ fdOpen' \in [Workers -> {0, 1}]
          /\ step' \in [Workers -> {"read", "serve", "flag", "fd"}]
        BY <1>16 DEF clientReadReq, ReqFunArr, TypeOK, clientVars
    <3>2. UNCHANGED <<poolVars, loopVars, pipe, signalVars, sock, client, made, garbled>>
        BY <1>16 DEF clientReadReq, ReqFunArr, clientVars
    <3> QED
        BY <3>1, <3>2 DEF TypeOK, PoolTypeOK, poolVars, loopVars, signalVars
  <2>2. PoolPhases' /\ AlwaysWatched' /\ OneConnection'
      BY <1>16 DEF clientReadReq, ReqFunArr, PoolPhases, AlwaysWatched, OneConnection,
                   poolVars, loopVars, signalVars, clientVars
  <2> QED
      BY <2>1, <2>2
<1>17. ASSUME NEW w \in Workers, writeOpen(w) PROVE Threads'
  <2>1. pipe' \in Seq({0, 1} \cup ClientFds)
    <3>1. fdOpen[w] \in {0, 1} \cup ClientFds
        BY DEF TypeOK
    <3> QED
        BY <1>17, <3>1, AppendProperties DEF writeOpen, TypeOK
  <2>2. TypeOK'
      BY <1>17, <2>1 DEF TypeOK, writeOpen, PoolTypeOK, poolVars, loopVars, signalVars, clientVars
  <2>3. PoolPhases' /\ AlwaysWatched' /\ OneConnection'
      BY <1>17 DEF writeOpen, PoolPhases, AlwaysWatched, OneConnection, poolVars, loopVars, signalVars, clientVars
  <2> QED
      BY <2>2, <2>3
<1>18. ASSUME NEW w \in Workers, writeFd(w) PROVE Threads'
  <2>1. /\ worker[w] = "running" /\ request[w] \in ClientFds
        /\ worker' = [worker EXCEPT ![w] = "waiting"]
        /\ request' = [request EXCEPT ![w] = NoTask]
        /\ pipe' = Append(pipe, request[w])
        /\ UNCHANGED <<tasks, phase, loopVars, step, fdOpen, signalVars, clientVars, garbled>>
      BY <1>18 DEF writeFd, taskDone, InRequest
  <2>2. pipe' \in Seq({0, 1} \cup ClientFds)
      BY <2>1, AppendProperties DEF TypeOK
  <2>3. TypeOK'
      BY <2>1, <2>2 DEF TypeOK, PoolTypeOK, WorkerStates, loopVars, signalVars, clientVars
  <2>4. PoolPhases'
      BY <2>1, TaskPoolAssumption DEF PoolPhases, TypeOK, PoolTypeOK, loopVars
  <2>5. AlwaysWatched' /\ OneConnection'
      BY <2>1 DEF AlwaysWatched, OneConnection, loopVars, signalVars, clientVars
  <2> QED
      BY <2>3, <2>4, <2>5
<1>19. ASSUME NEW w \in Workers, exitWorker(w) PROVE Threads'
  <2>1. /\ worker[w] = "running" /\ request[w] = Exit
        /\ tasks' = Append(tasks, Exit)
        /\ worker' \in signalled([worker EXCEPT ![w] = "exited"])
        /\ UNCHANGED <<request, phase, loopVars, workerVars, signalVars, clientVars, garbled>>
      BY <1>19 DEF exitWorker, ThreadRequestExit
  <2> DEFINE wk == [worker EXCEPT ![w] = "exited"]
  <2>2. wk \in [Workers -> WorkerStates] /\ wk[w] = "exited" /\ \A v \in Workers \ {w} : wk[v] = worker[v]
      BY DEF TypeOK, PoolTypeOK, WorkerStates
  <2>3. /\ worker' \in [Workers -> WorkerStates]
        /\ \A v \in Workers : worker'[v] = wk[v] \/ (wk[v] = "waiting" /\ worker'[v] = "woken")
    <3> HIDE DEF wk
    <3>1. worker' \in signalled(wk)
        BY <2>1 DEF wk
    <3> QED
        BY <2>2, <3>1, Signalled
  <2>4. tasks' \in Seq(Tasks \cup {Exit})
      BY <2>1, AppendProperties DEF TypeOK, PoolTypeOK
  <2>5. TypeOK'
      BY <2>1, <2>3, <2>4 DEF TypeOK, PoolTypeOK, loopVars, workerVars, signalVars, clientVars
  <2>6. PoolPhases'
    <3>1. phase \notin {"open", "cleared", "closed"} /\ main \notin {"select", "scan"}
        BY <2>1 DEF PoolPhases
    <3> HIDE DEF wk
    <3> QED
        BY <2>1, <2>2, <2>3, <3>1 DEF PoolPhases, loopVars
  <2>7. AlwaysWatched' /\ OneConnection'
      BY <2>1 DEF AlwaysWatched, OneConnection, loopVars, signalVars, clientVars
  <2> QED
      BY <2>5, <2>6, <2>7
<1>20. CASE UNCHANGED vars
    BY <1>20 DEF TypeOK, PoolTypeOK, PoolPhases, AlwaysWatched, OneConnection,
                 vars, poolVars, loopVars, workerVars, signalVars, clientVars
<1> QED
    BY <1>1, <1>2, <1>3, <1>4, <1>5, <1>6, <1>7, <1>8, <1>9, <1>10, <1>11, <1>12, <1>13, <1>14,
       <1>15, <1>16, <1>17, <1>18, <1>19, <1>20 DEF ServerNext, Main, Worker, Thread, Client

-----------------------------------------------------------------------------
(* The second layer is inductive with the first.                           *)

(* The pipe is empty at the start.                                         *)
LEMMA PairedInit == Init => Paired
<1> SUFFICES ASSUME Init PROVE Paired
    OBVIOUS
<1>1. Writers = {} /\ Len(pipe) = 0
    BY DEF Init, PoolInit, Writers, InRequest
<1>2. FdsAmong(0) = 0
    BY OccFinite DEF FdsAmong
<1>3. Cardinality(Writers) = 0
    BY <1>1, FS_EmptySet
<1> QED
    BY <1>1, <1>2, <1>3 DEF Paired

(* While pairs arrive, the first integer of the pipe is a flag; and if the *)
(* second is a descriptor the rest of the pipe is paired as well.          *)
LEMMA PairAtFront ==
    ASSUME TypeOK, Paired, ~garbled, Len(pipe) >= 2
    PROVE  pipe[1] \in {0, 1} /\ pipe[1] \notin ClientFds
<1>1. pipe[1] \in {0, 1} \cup ClientFds /\ Len(pipe) \in Nat
    BY ElementOfSeq, LenProperties DEF TypeOK
<1>2. Cardinality(Occ(pipe, 1, ClientFds)) = IF pipe[1] \in ClientFds THEN 1 ELSE 0
  <2> DEFINE k == 0
  <2>1. k \in Nat /\ Cardinality(Occ(pipe, k, ClientFds)) = 0
      BY OccFinite
  <2>2. Cardinality(Occ(pipe, k + 1, ClientFds)) =
            Cardinality(Occ(pipe, k, ClientFds)) + (IF pipe[k + 1] \in ClientFds THEN 1 ELSE 0)
    <3> HIDE DEF k
    <3> QED
        BY <2>1, OccNext
  <2> QED
      BY <2>1, <2>2
<1>3. 2 * Cardinality(Occ(pipe, 1, ClientFds)) =< 1
    BY <1>1 DEF Paired, FdsAmong
<1>4. pipe[1] \notin ClientFds
    BY <1>2, <1>3
<1> QED
    BY <1>1, <1>4

(* A worker writes fdOpen and then the descriptor, and the main thread     *)
(* reads two numbers at a time: the numbers stay paired unless two workers *)
(* wrote between each other, which garbled records.                        *)
LEMMA PairedStep == Threads /\ Paired /\ [ServerNext]_vars => Paired'
<1> SUFFICES ASSUME Threads, Paired, [ServerNext]_vars, ~garbled' PROVE Paired'
    BY DEF Paired
<1>1. /\ TypeOK /\ IsFiniteSet(Writers) /\ Cardinality(Writers) \in Nat
      /\ Len(pipe) \in Nat /\ pipe \in Seq({0, 1} \cup ClientFds)
  <2>1. Writers \subseteq Workers
      BY DEF Writers
  <2> QED
      BY <2>1, ServerAssumption, FS_Subset, FS_CardinalityType, LenProperties DEF Threads, TypeOK
<1>2. ~garbled
    BY DEF ServerNext, vars
<1>3. \A k \in 0 .. Len(pipe) : FdsAmong(k) \in Nat /\ 2 * FdsAmong(k) =< k
  <2> SUFFICES ASSUME NEW k \in 0 .. Len(pipe) PROVE FdsAmong(k) \in Nat /\ 2 * FdsAmong(k) =< k
      OBVIOUS
  <2>1. k \in Nat
      BY <1>1
  <2> QED
      BY <1>2, <2>1, OccFinite DEF Paired, FdsAmong
<1>4. Len(pipe) = 2 * FdsAmong(Len(pipe)) + Cardinality(Writers)
    BY <1>2 DEF Paired
<1>5. ASSUME pipe' = pipe, Writers' = Writers PROVE Paired'
    BY <1>3, <1>4, <1>5 DEF Paired, FdsAmong
<1>6. ASSUME UNCHANGED <<pipe, worker, request, step>> PROVE Paired'
  <2>1. Writers' = Writers
      BY <1>6 DEF Writers, InRequest
  <2> QED
      BY <1>5, <1>6, <2>1
<1>7. ASSUME NEW wk \in [Workers -> WorkerStates], worker' \in signalled(wk),
             \A w \in Workers : wk[w] # "running" => worker[w] # "running" \/ request[w] \notin ClientFds,
             \A w \in Workers : wk[w] = "running" => worker[w] = "running",
             UNCHANGED <<pipe, request, step>>
      PROVE  Paired'
  <2>1. \A w \in Workers : worker'[w] = wk[w] \/ (wk[w] = "waiting" /\ worker'[w] = "woken")
      BY <1>7, Signalled
  <2>2. Writers' = Writers
      BY <1>7, <2>1 DEF Writers, InRequest
  <2> QED
      BY <1>5, <1>7, <2>2
<1>8. CASE checkPipeForFd
  <2> DEFINE rest == SubSeq(pipe, 3, Len(pipe))
  <2>1. /\ Len(pipe) >= 2 /\ pipe' = rest /\ pipe[2] \in ClientFds
        /\ UNCHANGED <<worker, request, step>>
      BY <1>8 DEF checkPipeForFd, poolVars
  <2>2. pipe[1] \notin ClientFds
      BY <1>1, <1>2, <2>1, PairAtFront
  <2>3. Len(rest) = Len(pipe) - 2 /\ \A k \in 0 .. Len(pipe) - 2 : Cardinality(Occ(rest, k, ClientFds)) = FdsAmong(k + 2) - 1
    <3> SUFFICES ASSUME NEW k \in 0 .. Len(pipe) - 2
                 PROVE  Len(rest) = Len(pipe) - 2 /\ Cardinality(Occ(rest, k, ClientFds)) = FdsAmong(k + 2) - 1
      <4>1. 0 \in 0 .. Len(pipe) - 2
          BY <1>1, <2>1
      <4> HIDE DEF rest
      <4> QED
          BY <4>1
    <3>1. /\ Len(rest) = Len(pipe) - 2
          /\ FdsAmong(k + 2) = Cardinality(Occ(rest, k, ClientFds))
                + (IF pipe[1] \in ClientFds THEN 1 ELSE 0) + (IF pipe[2] \in ClientFds THEN 1 ELSE 0)
        BY <1>1, <2>1, OccDropPair DEF FdsAmong
    <3>2. Cardinality(Occ(rest, k, ClientFds)) \in Nat
      <4>1. k \in Nat
          BY <1>1
      <4> HIDE DEF rest
      <4> QED
          BY <4>1, OccFinite
    <3> HIDE DEF rest
    <3> QED
        BY <2>1, <2>2, <3>1, <3>2
  <2>4. Writers' = Writers
      BY <2>1 DEF Writers, InRequest
  <2> HIDE DEF rest
  <2>5. \A k \in 0 .. Len(rest) : 2 * Cardinality(Occ(rest, k, ClientFds)) =< k
    <3> SUFFICES ASSUME NEW k \in 0 .. Len(rest) PROVE 2 * Cardinality(Occ(rest, k, ClientFds)) =< k
        OBVIOUS
    <3>1. k + 2 \in 0 .. Len(pipe) /\ k \in Int /\ k \in 0 .. Len(pipe) - 2
        BY <1>1, <2>1, <2>3
    <3>2. 2 * FdsAmong(k + 2) =< k + 2 /\ FdsAmong(k + 2) \in Nat
        BY <1>3, <3>1
    <3> QED
        BY <2>3, <3>1, <3>2
  <2>6. Len(rest) = 2 * Cardinality(Occ(rest, Len(rest), ClientFds)) + Cardinality(Writers)
    <3>1. Len(pipe) - 2 \in 0 .. Len(pipe) - 2 /\ (Len(pipe) - 2) + 2 = Len(pipe)
        BY <1>1, <2>1
    <3>2. FdsAmong(Len(pipe)) \in Nat
        BY <1>1, <1>3
    <3>3. Cardinality(Occ(rest, Len(rest), ClientFds)) = FdsAmong(Len(pipe)) - 1
        BY <2>3, <3>1
    <3> QED
        BY <1>1, <1>4, <2>3, <3>2, <3>3
  <2> QED
      BY <2>1, <2>4, <2>5, <2>6 DEF Paired, FdsAmong
<1>9. ASSUME NEW w \in Workers, takeTask(w) PROVE Paired'
  <2>1. /\ worker[w] \in {"waiting", "woken"} /\ pipe' = pipe
        /\ step' = [step EXCEPT ![w] = "read"]
        /\ \A v \in Workers \ {w} : worker'[v] = worker[v] /\ request'[v] = request[v] /\ step'[v] = step[v]
      BY <1>1, <1>9 DEF takeTask, PoolTakeTask, mayTake, TypeOK, PoolTypeOK
  <2>2. worker[w] # "running" /\ step'[w] = "read"
      BY <1>1, <2>1 DEF TypeOK
  <2>3. Writers' = Writers
      BY <2>1, <2>2 DEF Writers, InRequest
  <2> QED
      BY <1>5, <2>1, <2>3
<1>10. ASSUME NEW w \in Workers, clientReadReq(w) \/ ReqFunArr(w) PROVE Paired'
  <2>1. /\ step[w] # "fd"
        /\ step' = [step EXCEPT ![w] = "serve"] \/ step' = [step EXCEPT ![w] = "flag"]
        /\ UNCHANGED <<pipe, worker, request>>
      BY <1>10 DEF clientReadReq, ReqFunArr, InRequest, poolVars
  <2>2. step'[w] # "fd" /\ \A v \in Workers \ {w} : step'[v] = step[v]
      BY <1>1, <2>1 DEF TypeOK
  <2>3. Writers' = Writers
      BY <2>1, <2>2 DEF Writers, InRequest
  <2> QED
      BY <1>5, <2>1, <2>3
<1>11. ASSUME NEW w \in Workers, writeOpen(w) PROVE Paired'
  <2> DEFINE e == fdOpen[w]
             t == Append(pipe, e)
  <2>1. /\ worker[w] = "running" /\ request[w] \in ClientFds /\ step[w] = "flag"
        /\ pipe' = t /\ step' = [step EXCEPT ![w] = "fd"] /\ UNCHANGED <<worker, request>>
      BY <1>11 DEF writeOpen, InRequest, poolVars
  <2>2. e \in {0, 1} \cup ClientFds /\ e \notin ClientFds
      BY <1>1, ClientFdsFinite DEF TypeOK, ListenFd
  <2>3. Writers' = Writers \cup {w} /\ w \notin Writers
      BY <1>1, <2>1 DEF Writers, InRequest, TypeOK
  <2>4. Cardinality(Writers') = Cardinality(Writers) + 1
      BY <1>1, <2>3, FS_AddElement
  <2> HIDE DEF e
  <2>5. /\ \A k \in 0 .. Len(pipe) : Occ(t, k, ClientFds) = Occ(pipe, k, ClientFds)
        /\ Len(t) = Len(pipe) + 1
        /\ Cardinality(Occ(t, Len(pipe) + 1, ClientFds)) =
               Cardinality(Occ(pipe, Len(pipe), ClientFds)) + (IF e \in ClientFds THEN 1 ELSE 0)
      BY <1>1, <2>2, OccAppend
  <2> HIDE DEF t
  <2>6. FdsAmong(Len(pipe)) \in Nat /\ 2 * FdsAmong(Len(pipe)) =< Len(pipe)
      BY <1>1, <1>3
  <2>7. Cardinality(Occ(t, Len(t), ClientFds)) = FdsAmong(Len(pipe))
      BY <2>2, <2>5, <2>6 DEF FdsAmong
  <2>8. \A k \in 0 .. Len(t) : 2 * Cardinality(Occ(t, k, ClientFds)) =< k
    <3> SUFFICES ASSUME NEW k \in 0 .. Len(t) PROVE 2 * Cardinality(Occ(t, k, ClientFds)) =< k
        OBVIOUS
    <3>1. CASE k \in 0 .. Len(pipe)
        BY <1>3, <2>5, <3>1 DEF FdsAmong
    <3>2. CASE k = Len(t)
        BY <1>1, <2>5, <2>6, <2>7, <3>2
    <3> QED
        BY <1>1, <2>5, <3>1, <3>2
  <2>9. Len(t) = 2 * Cardinality(Occ(t, Len(t), ClientFds)) + Cardinality(Writers')
      BY <1>1, <1>4, <2>4, <2>5, <2>6, <2>7
  <2> QED
      BY <2>1, <2>8, <2>9 DEF Paired, FdsAmong
<1>12. ASSUME NEW w \in Workers, writeFd(w) PROVE Paired'
  <2> DEFINE e == request[w]
             t == Append(pipe, e)
  <2>1. /\ worker[w] = "running" /\ e \in ClientFds /\ step[w] = "fd"
        /\ pipe' = t /\ worker' = [worker EXCEPT ![w] = "waiting"]
        /\ request' = [request EXCEPT ![w] = NoTask] /\ UNCHANGED step
      BY <1>12 DEF writeFd, taskDone, InRequest
  <2>2. Writers' = Writers \ {w} /\ w \in Writers
      BY <1>1, <2>1 DEF Writers, InRequest, TypeOK, PoolTypeOK
  <2>3. Cardinality(Writers') = Cardinality(Writers) - 1 /\ Cardinality(Writers) # 0
      BY <1>1, <2>2, FS_RemoveElement, FS_EmptySet
  <2> HIDE DEF e
  <2>4. /\ \A k \in 0 .. Len(pipe) : Occ(t, k, ClientFds) = Occ(pipe, k, ClientFds)
        /\ Len(t) = Len(pipe) + 1
        /\ Cardinality(Occ(t, Len(pipe) + 1, ClientFds)) =
               Cardinality(Occ(pipe, Len(pipe), ClientFds)) + (IF e \in ClientFds THEN 1 ELSE 0)
      BY <1>1, <2>1, OccAppend
  <2> HIDE DEF t
  <2>5. FdsAmong(Len(pipe)) \in Nat
      BY <1>1, <1>3
  <2>6. Cardinality(Occ(t, Len(t), ClientFds)) = FdsAmong(Len(pipe)) + 1
      BY <2>1, <2>4, <2>5 DEF FdsAmong
  <2>7. 2 * (FdsAmong(Len(pipe)) + 1) =< Len(t)
      BY <1>1, <1>4, <2>3, <2>4, <2>5
  <2>8. \A k \in 0 .. Len(t) : 2 * Cardinality(Occ(t, k, ClientFds)) =< k
    <3> SUFFICES ASSUME NEW k \in 0 .. Len(t) PROVE 2 * Cardinality(Occ(t, k, ClientFds)) =< k
        OBVIOUS
    <3>1. CASE k \in 0 .. Len(pipe)
        BY <1>3, <2>4, <3>1 DEF FdsAmong
    <3>2. CASE k = Len(t)
        BY <2>6, <2>7, <3>2
    <3> QED
        BY <1>1, <2>4, <3>1, <3>2
  <2>9. Len(t) = 2 * Cardinality(Occ(t, Len(t), ClientFds)) + Cardinality(Writers')
      BY <1>1, <1>4, <2>3, <2>4, <2>5, <2>6
  <2> QED
      BY <2>1, <2>8, <2>9 DEF Paired, FdsAmong
<1>13. ASSUME NEW w \in Workers, exitWorker(w) PROVE Paired'
  <2> DEFINE wk == [worker EXCEPT ![w] = "exited"]
  <2>1. /\ worker[w] = "running" /\ request[w] = Exit /\ worker' \in signalled(wk)
        /\ UNCHANGED <<pipe, request, step>>
      BY <1>13 DEF exitWorker, ThreadRequestExit, workerVars
  <2>2. wk \in [Workers -> WorkerStates] /\ wk[w] = "exited" /\ \A v \in Workers \ {w} : wk[v] = worker[v]
      BY <1>1 DEF TypeOK, PoolTypeOK, WorkerStates
  <2>3. Exit \notin ClientFds
      BY ServerAssumption, TaskPoolAssumption
  <2> HIDE DEF wk
  <2> QED
      BY <1>7, <2>1, <2>2, <2>3
<1>14. ASSUME NEW f \in ClientFds, clientRequest(f) PROVE Paired'
  <2>1. worker' \in signalled(worker) /\ UNCHANGED <<pipe, request, step>>
      BY <1>14 DEF clientRequest, threadPoolAdd, workerVars
  <2>2. worker \in [Workers -> WorkerStates]
      BY <1>1 DEF TypeOK, PoolTypeOK
  <2> QED
      BY <1>7, <2>1, <2>2
<1>15. CASE closePool
  <2>1. UNCHANGED <<pipe, step>>
      BY <1>15 DEF closePool, workerVars
  <2>2. CASE threadPoolClear \/ workersDestroy
      BY <1>6, <2>1, <2>2 DEF threadPoolClear, workersDestroy
  <2>3. CASE AddExit
    <3>1. worker' \in signalled(worker) /\ UNCHANGED request
        BY <2>3 DEF AddExit, threadPoolAdd
    <3>2. worker \in [Workers -> WorkerStates]
        BY <1>1 DEF TypeOK, PoolTypeOK
    <3> QED
        BY <1>7, <2>1, <3>1, <3>2
  <2> QED
      BY <1>15, <2>2, <2>3 DEF closePool
<1>16. CASE UNCHANGED <<poolVars, workerVars>>
    BY <1>6, <1>16 DEF poolVars, workerVars
<1>17. CASE \/ Select \/ readSignal \/ (\E c \in Clients : acceptConnection(c)) \/ ignoreConnection
            \/ endOfScan \/ endOfMain \/ signal_h \/ (\E c \in Clients : Client(c))
            \/ (\E s \in Signals : SendSignal(s))
  <2>1. UNCHANGED <<poolVars, workerVars>>
      BY <1>17 DEF Select, readSignal, acceptConnection, ignoreConnection, endOfScan, endOfMain,
                   signal_h, Client, Connect, Ask, Close, SendSignal
  <2> QED
      BY <1>16, <2>1
<1> QED
    BY <1>8, <1>9, <1>10, <1>11, <1>12, <1>13, <1>14, <1>15, <1>16, <1>17
       DEF ServerNext, Main, Worker, Thread, vars

-----------------------------------------------------------------------------
(* The third layer is inductive with the others.                           *)

(* Who has connection f, in the terms of the lemmas on sequences.          *)
Queued(f) == Cardinality(Occ(tasks, Len(tasks), {f}))
Serving(f) == { w \in Workers : request[w] = f }
InPipe(f) == Cardinality(Occ(pipe, Len(pipe), {f}))

(* The holders of f are counted in three places.                           *)
LEMMA HoldersSum ==
    ASSUME TypeOK, NEW f
    PROVE  /\ Holders(f) = Queued(f) + Cardinality(Serving(f)) + InPipe(f)
           /\ Queued(f) \in Nat /\ InPipe(f) \in Nat
           /\ IsFiniteSet(Serving(f)) /\ Cardinality(Serving(f)) \in Nat
<1>1. { k \in 1 .. Len(tasks) : tasks[k] = f } = Occ(tasks, Len(tasks), {f})
    BY DEF Occ
<1>2. { k \in 1 .. Len(pipe) : pipe[k] = f } = Occ(pipe, Len(pipe), {f})
    BY DEF Occ
<1>3. Len(tasks) \in Nat /\ Len(pipe) \in Nat
    BY LenProperties DEF TypeOK, PoolTypeOK
<1>4. Serving(f) \subseteq Workers
    BY DEF Serving
<1> QED
    BY <1>1, <1>2, <1>3, <1>4, ServerAssumption, OccFinite, FS_Subset, FS_CardinalityType
       DEF Holders, Queued, Serving, InPipe

(* A connection in the queue, with a worker or in the pipe is counted.     *)
LEMMA QueuedCounts ==
    ASSUME TypeOK, NEW k \in 1 .. Len(tasks)
    PROVE  Holders(tasks[k]) > 0
<1>1. k \in Occ(tasks, Len(tasks), {tasks[k]}) /\ Len(tasks) \in Nat
    BY LenProperties DEF Occ, TypeOK, PoolTypeOK
<1>2. Queued(tasks[k]) # 0
    BY <1>1, OccFinite, FS_EmptySet DEF Queued
<1> DEFINE f == tasks[k]
<1>3. Holders(f) = Queued(f) + Cardinality(Serving(f)) + InPipe(f)
      /\ Queued(f) \in Nat /\ InPipe(f) \in Nat /\ Cardinality(Serving(f)) \in Nat
  <2> HIDE DEF f
  <2> QED
      BY HoldersSum
<1> QED
    BY <1>2, <1>3

(* A number in the pipe is held.                                           *)
LEMMA PipeCounts ==
    ASSUME TypeOK, NEW k \in 1 .. Len(pipe)
    PROVE  Holders(pipe[k]) > 0
<1>1. k \in Occ(pipe, Len(pipe), {pipe[k]}) /\ Len(pipe) \in Nat
    BY LenProperties DEF Occ, TypeOK
<1>2. InPipe(pipe[k]) # 0
    BY <1>1, OccFinite, FS_EmptySet DEF InPipe
<1> DEFINE f == pipe[k]
<1>3. Holders(f) = Queued(f) + Cardinality(Serving(f)) + InPipe(f)
      /\ Queued(f) \in Nat /\ InPipe(f) \in Nat /\ Cardinality(Serving(f)) \in Nat
  <2> HIDE DEF f
  <2> QED
      BY HoldersSum
<1> QED
    BY <1>2, <1>3

(* The connection of a request is held.                                    *)
LEMMA ServingCounts ==
    ASSUME TypeOK, NEW w \in Workers
    PROVE  Holders(request[w]) > 0
<1> DEFINE f == request[w]
<1>1. w \in Serving(f)
    BY DEF Serving
<1>2. Holders(f) = Queued(f) + Cardinality(Serving(f)) + InPipe(f)
      /\ Queued(f) \in Nat /\ InPipe(f) \in Nat
      /\ IsFiniteSet(Serving(f)) /\ Cardinality(Serving(f)) \in Nat
  <2> HIDE DEF f
  <2> QED
      BY HoldersSum
<1>3. Cardinality(Serving(f)) # 0
    BY <1>1, <1>2, FS_EmptySet
<1> QED
    BY <1>2, <1>3

(* How the actions that pass a connection on change the count.             *)

(* Nothing changes when the queue, the requests and the pipe stay.         *)
LEMMA HoldersSame ==
    ASSUME TypeOK, NEW f, UNCHANGED <<tasks, request, pipe>>
    PROVE  Holders(f)' = Holders(f)
    BY DEF Holders

(* threadPoolAdd gives f one more holder.                                  *)
LEMMA HoldersAdd ==
    ASSUME TypeOK, NEW f \in ClientFds, NEW g,
           tasks' = Append(tasks, f), UNCHANGED <<request, pipe>>
    PROVE  Holders(g)' = Holders(g) + (IF f = g THEN 1 ELSE 0)
<1>1. tasks \in Seq(Tasks \cup {Exit}) /\ f \in Tasks \cup {Exit}
    BY ServerAssumption DEF TypeOK, PoolTypeOK
<1>2. /\ Len(Append(tasks, f)) = Len(tasks) + 1
      /\ Cardinality(Occ(Append(tasks, f), Len(tasks) + 1, {g})) =
             Cardinality(Occ(tasks, Len(tasks), {g})) + (IF f \in {g} THEN 1 ELSE 0)
    BY <1>1, OccAppend
<1>3. Queued(g)' = Queued(g) + (IF f \in {g} THEN 1 ELSE 0)
    BY <1>2 DEF Queued
<1>4. Holders(g) = Queued(g) + Cardinality(Serving(g)) + InPipe(g)
      /\ Queued(g) \in Nat /\ InPipe(g) \in Nat /\ Cardinality(Serving(g)) \in Nat
    BY HoldersSum
<1>5. Holders(g)' = Queued(g)' + Cardinality(Serving(g)) + InPipe(g)
  <2>1. { k \in 1 .. Len(tasks') : tasks'[k] = g } = Occ(tasks', Len(tasks'), {g})
      BY DEF Occ
  <2>2. { k \in 1 .. Len(pipe) : pipe[k] = g } = Occ(pipe, Len(pipe), {g})
      BY DEF Occ
  <2> QED
      BY <2>1, <2>2 DEF Holders, Queued, Serving, InPipe
<1> QED
    BY <1>3, <1>4, <1>5

(* A worker that takes a task moves a connection out of the queue.         *)
LEMMA HoldersTake ==
    ASSUME TypeOK, NEW w \in Workers, NEW g \in ClientFds,
           tasks # <<>>, request[w] = NoTask,
           request' = [request EXCEPT ![w] = Head(tasks)], tasks' = Tail(tasks), UNCHANGED pipe
    PROVE  Holders(g)' = Holders(g)
<1>1. tasks \in Seq(Tasks \cup {Exit}) /\ Len(tasks) \in Nat \ {0} /\ Len(Tail(tasks)) = Len(tasks) - 1
    BY HeadTailProperties, LenProperties, EmptySeq DEF TypeOK, PoolTypeOK
<1>2. Cardinality(Occ(tasks, Len(tasks), {g})) =
          Cardinality(Occ(Tail(tasks), Len(tasks) - 1, {g})) + (IF Head(tasks) \in {g} THEN 1 ELSE 0)
  <2> DEFINE k == Len(tasks) - 1
  <2>1. k \in 0 .. Len(tasks) - 1 /\ k + 1 = Len(tasks)
      BY <1>1
  <2> HIDE DEF k
  <2>2. Cardinality(Occ(tasks, k + 1, {g})) =
            Cardinality(Occ(Tail(tasks), k, {g})) + (IF Head(tasks) \in {g} THEN 1 ELSE 0)
      BY <1>1, <2>1, OccTail
  <2> QED
      BY <2>1, <2>2 DEF k
<1>3. Queued(g) = Queued(g)' + (IF Head(tasks) = g THEN 1 ELSE 0)
    BY <1>1, <1>2 DEF Queued
<1>4. Holders(g) = Queued(g) + Cardinality(Serving(g)) + InPipe(g)
      /\ Queued(g) \in Nat /\ InPipe(g) \in Nat
      /\ IsFiniteSet(Serving(g)) /\ Cardinality(Serving(g)) \in Nat
    BY HoldersSum
<1>5. Holders(g)' = Queued(g)' + Cardinality(Serving(g)') + InPipe(g)
  <2>1. { k \in 1 .. Len(tasks') : tasks'[k] = g } = Occ(tasks', Len(tasks'), {g})
      BY DEF Occ
  <2>2. { k \in 1 .. Len(pipe) : pipe[k] = g } = Occ(pipe, Len(pipe), {g})
      BY DEF Occ
  <2> QED
      BY <2>1, <2>2 DEF Holders, Queued, Serving, InPipe
<1>6. Cardinality(Serving(g)') = Cardinality(Serving(g)) + (IF Head(tasks) = g THEN 1 ELSE 0)
  <2>1. w \notin Serving(g)
      BY ServerAssumption, TaskPoolAssumption DEF Serving
  <2>2. CASE Head(tasks) = g
    <3>1. Serving(g)' = Serving(g) \cup {w}
        BY <2>2 DEF Serving, TypeOK, PoolTypeOK
    <3> QED
        BY ZenonT(30), <1>4, <2>1, <2>2, <3>1, FS_AddElement
  <2>3. CASE Head(tasks) # g
    <3>1. Serving(g)' = Serving(g)
        BY <2>1, <2>3 DEF Serving, TypeOK, PoolTypeOK
    <3> QED
        BY <1>4, <2>3, <3>1
  <2> QED
      BY <2>2, <2>3
<1>7. Queued(g)' \in Nat
  <2>1. Len(tasks') \in Nat
      BY <1>1
  <2> QED
      BY <2>1, OccFinite DEF Queued
<1> QED
    BY <1>3, <1>4, <1>5, <1>6, <1>7

(* A worker that writes its descriptor moves it into the pipe.             *)
LEMMA HoldersWrite ==
    ASSUME TypeOK, NEW w \in Workers, NEW g \in ClientFds, request[w] \in ClientFds,
           request' = [request EXCEPT ![w] = NoTask], pipe' = Append(pipe, request[w]), UNCHANGED tasks
    PROVE  Holders(g)' = Holders(g)
<1> DEFINE e == request[w]
<1>1. pipe \in Seq({0, 1} \cup ClientFds) /\ e \in {0, 1} \cup ClientFds /\ NoTask # g
    BY ServerAssumption, TaskPoolAssumption DEF TypeOK
<1>2. InPipe(g)' = InPipe(g) + (IF e = g THEN 1 ELSE 0)
  <2>1. pipe' = Append(pipe, e)
      OBVIOUS
  <2> HIDE DEF e
  <2>2. /\ Len(Append(pipe, e)) = Len(pipe) + 1
        /\ Cardinality(Occ(Append(pipe, e), Len(pipe) + 1, {g})) =
               Cardinality(Occ(pipe, Len(pipe), {g})) + (IF e \in {g} THEN 1 ELSE 0)
      BY <1>1, OccAppend
  <2> QED
      BY <2>1, <2>2 DEF InPipe
<1>3. Holders(g) = Queued(g) + Cardinality(Serving(g)) + InPipe(g)
      /\ Queued(g) \in Nat /\ InPipe(g) \in Nat
      /\ IsFiniteSet(Serving(g)) /\ Cardinality(Serving(g)) \in Nat
    BY HoldersSum
<1>4. Holders(g)' = Queued(g) + Cardinality(Serving(g)') + InPipe(g)'
  <2>1. { k \in 1 .. Len(tasks) : tasks[k] = g } = Occ(tasks, Len(tasks), {g})
      BY DEF Occ
  <2>2. { k \in 1 .. Len(pipe') : pipe'[k] = g } = Occ(pipe', Len(pipe'), {g})
      BY DEF Occ
  <2> QED
      BY <2>1, <2>2 DEF Holders, Queued, Serving, InPipe
<1>5. Cardinality(Serving(g)) = Cardinality(Serving(g)') + (IF e = g THEN 1 ELSE 0) /\ Cardinality(Serving(g)') \in Nat
  <2>1. CASE e = g
    <3>1. Serving(g)' = Serving(g) \ {w} /\ w \in Serving(g)
        BY <1>1, <2>1 DEF Serving, TypeOK, PoolTypeOK
    <3>2. IsFiniteSet(Serving(g)') /\ Cardinality(Serving(g)') = Cardinality(Serving(g)) - 1
        BY <1>3, <3>1, FS_RemoveElement
    <3>3. Cardinality(Serving(g)') \in Nat
        BY <3>2, FS_CardinalityType
    <3> QED
        BY <1>3, <2>1, <3>2, <3>3
  <2>2. CASE e # g
    <3>1. Serving(g)' = Serving(g)
        BY <1>1, <2>2 DEF Serving, TypeOK, PoolTypeOK
    <3> QED
        BY <1>3, <2>2, <3>1
  <2> QED
      BY <2>1, <2>2
<1> HIDE DEF e
<1> QED
    BY <1>2, <1>3, <1>4, <1>5

(* An fdOpen in the pipe is no connection.                                 *)
LEMMA HoldersFlag ==
    ASSUME TypeOK, NEW e \in {0, 1}, NEW g \in ClientFds,
           pipe' = Append(pipe, e), UNCHANGED <<tasks, request>>
    PROVE  Holders(g)' = Holders(g)
<1>1. pipe \in Seq({0, 1} \cup ClientFds) /\ e \in {0, 1} \cup ClientFds /\ e \notin {g}
    BY ClientFdsFinite DEF TypeOK, ListenFd
<1>2. /\ Len(Append(pipe, e)) = Len(pipe) + 1
      /\ Cardinality(Occ(Append(pipe, e), Len(pipe) + 1, {g})) =
             Cardinality(Occ(pipe, Len(pipe), {g})) + (IF e \in {g} THEN 1 ELSE 0)
    BY <1>1, OccAppend
<1>3. InPipe(g) \in Nat
    BY HoldersSum
<1>4. InPipe(g)' = InPipe(g)
    BY <1>1, <1>2, <1>3 DEF InPipe
<1>5. { k \in 1 .. Len(pipe) : pipe[k] = g } = Occ(pipe, Len(pipe), {g})
      /\ { k \in 1 .. Len(pipe') : pipe'[k] = g } = Occ(pipe', Len(pipe'), {g})
    BY DEF Occ
<1> QED
    BY <1>4, <1>5 DEF Holders, InPipe

(* checkPipeForFd takes one pair, and the connection in it, from the pipe. *)
LEMMA HoldersRead ==
    ASSUME TypeOK, Len(pipe) >= 2, pipe[1] \notin ClientFds, NEW g \in ClientFds,
           pipe' = SubSeq(pipe, 3, Len(pipe)), UNCHANGED <<tasks, request>>
    PROVE  Holders(g) = Holders(g)' + (IF pipe[2] = g THEN 1 ELSE 0) /\ Holders(g)' \in Nat
<1> DEFINE rest == SubSeq(pipe, 3, Len(pipe))
           k == Len(pipe) - 2
<1>1. pipe \in Seq({0, 1} \cup ClientFds) /\ Len(pipe) \in Nat /\ k \in 0 .. Len(pipe) - 2 /\ k + 2 = Len(pipe)
      /\ k \in Nat
    BY LenProperties DEF TypeOK
<1> HIDE DEF k
<1>2. /\ Len(rest) = Len(pipe) - 2
      /\ Cardinality(Occ(pipe, k + 2, {g})) =
            Cardinality(Occ(rest, k, {g}))
            + (IF pipe[1] \in {g} THEN 1 ELSE 0) + (IF pipe[2] \in {g} THEN 1 ELSE 0)
    BY <1>1, OccDropPair
<1> HIDE DEF rest
<1>3. Cardinality(Occ(rest, k, {g})) \in Nat
    BY <1>1, OccFinite
<1>4. InPipe(g) = Cardinality(Occ(rest, k, {g})) + (IF pipe[2] = g THEN 1 ELSE 0)
    BY <1>1, <1>2, <1>3 DEF InPipe
<1>5. InPipe(g)' = Cardinality(Occ(rest, k, {g}))
    BY <1>2 DEF InPipe, rest, k
<1>6. Holders(g) = Queued(g) + Cardinality(Serving(g)) + InPipe(g)
      /\ Queued(g) \in Nat /\ InPipe(g) \in Nat /\ Cardinality(Serving(g)) \in Nat
    BY HoldersSum
<1>7. Holders(g)' = Queued(g) + Cardinality(Serving(g)) + InPipe(g)'
  <2>1. { j \in 1 .. Len(tasks) : tasks[j] = g } = Occ(tasks, Len(tasks), {g})
      BY DEF Occ
  <2>2. { j \in 1 .. Len(pipe') : pipe'[j] = g } = Occ(pipe', Len(pipe'), {g})
      BY DEF Occ
  <2> QED
      BY <2>1, <2>2 DEF Holders, Queued, Serving, InPipe
<1> QED
    BY <1>3, <1>4, <1>5, <1>6, <1>7

(* Nobody is connected at the start.                                       *)
LEMMA ServedInit == Init => Served
<1> SUFFICES ASSUME Init PROVE Served
    OBVIOUS
<1>1. TypeOK
    BY ThreadsInit DEF Threads
<1>2. \A f \in ClientFds : Holders(f) = 0
  <2> SUFFICES ASSUME NEW f \in ClientFds PROVE Holders(f) = 0
      OBVIOUS
  <2>1. Queued(f) = 0 /\ InPipe(f) = 0
      BY OccFinite DEF Init, PoolInit, Queued, InPipe
  <2>2. Serving(f) = {}
      BY ServerAssumption, TaskPoolAssumption DEF Init, PoolInit, Serving
  <2> QED
      BY <1>1, <2>1, <2>2, HoldersSum, FS_EmptySet
<1>3. Tracked
    BY <1>2, ClientFdsFinite DEF Init, Tracked, PipeFd, SignalFd, ListenFd
<1>4. MaxCovers
    BY DEF Init, MaxCovers, PipeFd, SignalFd, ListenFd
<1> QED
    BY <1>3, <1>4 DEF Init, Served, ScanSound, HangupServesAll

(* The pair that is read names a connection a worker had.                  *)
LEMMA PairTracked ==
    ASSUME Threads, Tracked, ~garbled, phase = "open", Len(pipe) >= 2, pipe[2] \in ClientFds
    PROVE  pipe[2] \in workset \ fdset /\ sock[pipe[2]] # NoClient /\ Holders(pipe[2]) = 1
<1>1. 2 \in 1 .. Len(pipe)
    BY LenProperties DEF Threads, TypeOK
<1>2. Holders(pipe[2]) > 0
  <2> DEFINE k == 2
  <2>1. k \in 1 .. Len(pipe) /\ TypeOK
      BY <1>1 DEF Threads
  <2> HIDE DEF k
  <2>2. Holders(pipe[k]) > 0
      BY <2>1, PipeCounts
  <2> QED
      BY <2>2 DEF k
<1> DEFINE f == pipe[2]
<1>3. f \in ClientFds /\ Holders(f) > 0
    BY <1>2
<1> HIDE DEF f
<1>4. f \in workset \ fdset /\ sock[f] # NoClient /\ Holders(f) = 1
    BY <1>3 DEF Tracked
<1> QED
    BY <1>4 DEF f

(* Every task of the queue to which Exit is appended was there or is Exit. *)
LEMMA ExitAppended ==
    ASSUME TypeOK, tasks' = Append(tasks, Exit)
    PROVE  \A k \in 1 .. Len(tasks') : tasks'[k] = Exit \/ (k \in 1 .. Len(tasks) /\ tasks'[k] = tasks[k])
<1>1. tasks \in Seq(Tasks \cup {Exit}) /\ Exit \in Tasks \cup {Exit} /\ Len(tasks) \in Nat
    BY LenProperties DEF TypeOK, PoolTypeOK
<1>2. /\ Len(Append(tasks, Exit)) = Len(tasks) + 1
      /\ \A k \in 1 .. Len(tasks) : Append(tasks, Exit)[k] = tasks[k]
      /\ Append(tasks, Exit)[Len(tasks) + 1] = Exit
    BY <1>1, AppendProperties
<1> QED
    BY <1>1, <1>2

(* Every step keeps the third layer, given the first two.                  *)
LEMMA ServedStep == Threads /\ Paired /\ Served /\ [ServerNext]_vars => Served'
<1> SUFFICES ASSUME Threads, Paired, Served, [ServerNext]_vars PROVE Served'
    OBVIOUS
<1>1. TypeOK /\ Tracked /\ ScanSound /\ MaxCovers /\ HangupServesAll
    BY DEF Threads, Served
<1>2. ASSUME UNCHANGED <<tasks, request, pipe, phase, fdset, fdmax, workset, main, ready, i, signal, sock, garbled>>
      PROVE  Served'
    BY <1>1, <1>2 DEF Served, Tracked, Holders, ScanSound, MaxCovers, HangupServesAll
<1>3. CASE UNCHANGED vars
    BY <1>2, <1>3 DEF vars, poolVars, loopVars, workerVars, clientVars
<1>4. CASE ServerNext
  <2>1. ~garbled
      BY <1>4 DEF ServerNext
  <2>2. CASE (\E c \in Clients : Client(c)) \/ (\E s \in Signals : SendSignal(s)) \/ signal_h
      BY <1>2, <2>2 DEF Client, Connect, Ask, Close, SendSignal, signal_h,
                        poolVars, loopVars, workerVars, clientVars
  <2>3. CASE Select
    <3>1. /\ main' = "scan" /\ ready' = { f \in fdset : readable(f) }
          /\ UNCHANGED <<tasks, request, pipe, phase, fdset, fdmax, workset, sock, garbled>>
        BY <2>3 DEF Select, poolVars, workerVars, clientVars
    <3>2. Tracked' /\ MaxCovers' /\ HangupServesAll'
        BY <1>1, <3>1 DEF Tracked, Holders, MaxCovers, HangupServesAll
    <3>3. ScanSound'
      <4>1. \A f \in ready' \cap ClientFds : f \in fdset /\ sock[f] # NoClient
          BY <3>1, ClientFdsFinite DEF readable, PipeFd, SignalFd, ListenFd
      <4> QED
          BY <3>1, <4>1 DEF ScanSound
    <3> QED
        BY <3>2, <3>3 DEF Served
  <2>4. CASE readSignal \/ ignoreConnection
    <3>1. PICK f \in {SignalFd, ListenFd} :
              /\ Meets(f) /\ i' = f + 1
              /\ UNCHANGED <<tasks, request, pipe, phase, fdset, fdmax, workset, main, ready, sock, garbled>>
        BY <2>4 DEF readSignal, ignoreConnection, Passed, poolVars, workerVars, clientVars
    <3>2. main = "scan" /\ i =< f /\ f \in Int /\ i \in Int
        BY <1>1, <3>1, MetFd DEF TypeOK, SignalFd, ListenFd
    <3>3. Tracked' /\ MaxCovers' /\ HangupServesAll'
        BY <1>1, <3>1, <3>2 DEF Tracked, Holders, MaxCovers, HangupServesAll
    <3>4. ScanSound'
      <4>1. \A g \in ClientFds : i' =< g => i =< g
          BY <3>1, <3>2, ClientFdsFinite
      <4> QED
          BY <1>1, <3>1, <4>1 DEF ScanSound
    <3> QED
        BY <3>3, <3>4 DEF Served
  <2>5. ASSUME NEW c \in Clients, acceptConnection(c) PROVE Served'
    <3> DEFINE f == Min(freeFds)
    <3>1. f \in ClientFds /\ sock[f] = NoClient
        BY <2>5, FreeFd DEF acceptConnection
    <3>2. /\ main = "scan" /\ i =< ListenFd /\ i \in Nat
          /\ phase = "open"
        BY <1>1, <2>5, MetFd DEF acceptConnection, TypeOK, Threads, PoolPhases
    <3> HIDE DEF f
    <3>3. /\ i' = ListenFd + 1 /\ UNCHANGED <<main, ready>>
          /\ sock' = [sock EXCEPT ![f] = c]
          /\ fdset' = fdset \cup {f}
          /\ fdmax' = IF f > fdmax THEN f ELSE fdmax
          /\ UNCHANGED <<tasks, request, pipe, phase, workset, signal, garbled>>
        BY <2>5 DEF acceptConnection, Passed, poolVars, workerVars, f
    <3>4. f \notin fdset \cup workset /\ Holders(f) = 0
        BY <1>1, <2>1, <3>1, <3>2 DEF Tracked
    <3>5. \A g \in ClientFds : sock'[g] = IF g = f THEN c ELSE sock[g]
        BY <1>1, <3>1, <3>3 DEF TypeOK
    <3>6. c # NoClient
        BY ServerAssumption
    <3>7. Tracked'
      <4>1. \A g : Holders(g)' = Holders(g)
          BY <1>1, <3>3, HoldersSame
      <4>2. SUFFICES ASSUME NEW g \in ClientFds
                     PROVE  IF sock'[g] = NoClient THEN g \notin fdset' \cup workset' /\ Holders(g)' = 0
                            ELSE \/ g \in fdset' \ workset' /\ Holders(g)' = 0
                                 \/ g \in workset' \ fdset' /\ Holders(g)' = 1
          BY DEF Tracked
      <4>3. CASE g = f
          BY <3>3, <3>4, <3>5, <3>6, <4>1, <4>3
      <4>4. CASE g # f
          BY <1>1, <2>1, <3>2, <3>3, <3>5, <4>1, <4>4 DEF Tracked
      <4> QED
          BY <4>3, <4>4
    <3>8. MaxCovers'
      <4>1. f \in Int /\ fdmax \in Int /\ \A g \in fdset \cup workset : g \in Int /\ g =< fdmax
        <5>1. \A g \in {PipeFd, SignalFd, ListenFd} \cup ClientFds : g \in Int
            BY ClientFdsFinite DEF PipeFd, SignalFd, ListenFd
        <5> QED
            BY <1>1, <3>1, <5>1, ClientFdsFinite DEF TypeOK, MaxCovers, ListenFd
      <4>2. \A g \in fdset' \cup workset' : g = f \/ g \in fdset \cup workset
          BY <3>3
      <4> QED
          BY <3>3, <4>1, <4>2 DEF MaxCovers
    <3>9. ScanSound'
      <4>1. \A g \in ClientFds : i =< g
          BY <3>2, ClientFdsFinite DEF ListenFd
      <4> QED
          BY <1>1, <2>1, <3>2, <3>3, <3>5, <3>6, <4>1 DEF ScanSound
    <3>10. HangupServesAll'
        BY <3>2, <3>3 DEF HangupServesAll
    <3> QED
        BY <3>7, <3>8, <3>9, <3>10 DEF Served
  <2>6. CASE checkPipeForFd
    <3>1. /\ main = "scan" /\ i =< PipeFd /\ i \in Nat /\ phase = "open"
          /\ Len(pipe) >= 2 /\ i' = PipeFd + 1 /\ UNCHANGED <<main, ready>>
          /\ pipe' = SubSeq(pipe, 3, Len(pipe))
          /\ UNCHANGED <<tasks, request, phase, fdmax, signal>>
        BY <1>1, <2>6, MetFd DEF checkPipeForFd, Passed, poolVars, TypeOK, Threads, PoolPhases
    <3>2. HangupServesAll'
        BY <3>1 DEF HangupServesAll
    <3>3. CASE pipe[2] \notin ClientFds
      <4>1. garbled' = TRUE /\ UNCHANGED <<fdset, workset>>
          BY <2>6, <3>3 DEF checkPipeForFd
      <4> QED
          BY <1>1, <3>1, <3>2, <4>1 DEF Served, Tracked, ScanSound, MaxCovers
    <3>4. CASE pipe[2] \in ClientFds
      <4>0. PICK f \in ClientFds : f = pipe[2]
          BY <3>4
      <4>1. f \in ClientFds /\ f \in workset \ fdset /\ sock[f] # NoClient /\ Holders(f) = 1
          BY <1>1, <2>1, <3>1, <3>4, <4>0, PairTracked
      <4>2. /\ \A g \in ClientFds : Holders(g) = Holders(g)' + (IF f = g THEN 1 ELSE 0) /\ Holders(g)' \in Nat
        <5>1. pipe[1] \notin ClientFds
            BY <1>1, <2>1, <3>1, PairAtFront
        <5> QED
            BY <1>1, <3>1, <4>0, <5>1, HoldersRead
      <4>3. /\ workset' = workset \ {f}
            /\ \/ fdset' = fdset \cup {f} /\ sock' = sock
               \/ fdset' = fdset /\ sock' = [sock EXCEPT ![f] = NoClient]
            /\ garbled' = garbled
          BY <2>6, <3>4, <4>0 DEF checkPipeForFd, giveBack
      <4>4. \A g \in ClientFds \ {f} : sock'[g] = sock[g] /\ Holders(g)' = Holders(g)
          BY <1>1, <4>1, <4>2, <4>3 DEF TypeOK
      <4>5. Holders(f)' = 0
          BY <4>1, <4>2
      <4>6. \/ fdset' = fdset \cup {f} /\ sock'[f] # NoClient
            \/ fdset' = fdset /\ sock'[f] = NoClient
          BY <1>1, <4>1, <4>3 DEF TypeOK
      <4>7. Tracked'
        <5> SUFFICES ASSUME NEW g \in ClientFds
                     PROVE  IF sock'[g] = NoClient THEN g \notin fdset' \cup workset' /\ Holders(g)' = 0
                            ELSE \/ g \in fdset' \ workset' /\ Holders(g)' = 0
                                 \/ g \in workset' \ fdset' /\ Holders(g)' = 1
            BY DEF Tracked
        <5>1. CASE g = f
            BY <4>1, <4>3, <4>5, <4>6, <5>1
        <5>2. CASE g # f
          <6>1. IF sock[g] = NoClient THEN g \notin fdset \cup workset /\ Holders(g) = 0
                ELSE \/ g \in fdset \ workset /\ Holders(g) = 0
                     \/ g \in workset \ fdset /\ Holders(g) = 1
              BY <1>1, <2>1, <3>1 DEF Tracked
          <6>2. (g \in fdset' <=> g \in fdset) /\ (g \in workset' <=> g \in workset)
              BY <4>3, <5>2
          <6>3. sock'[g] = sock[g] /\ Holders(g)' = Holders(g)
              BY <4>4, <5>2
          <6> QED
              BY <6>1, <6>2, <6>3
        <5> QED
            BY <5>1, <5>2
      <4>8. MaxCovers'
          BY <1>1, <3>1, <4>1, <4>3 DEF MaxCovers
      <4>9. ScanSound'
        <5>1. f \notin ready
          <6>1. i =< f
              BY <3>1, <4>1, ClientFdsFinite DEF PipeFd, ListenFd
          <6> QED
              BY <1>1, <2>1, <3>1, <4>1, <6>1 DEF ScanSound
        <5>2. \A g \in ready \cap ClientFds : g \in fdset' /\ sock'[g] # NoClient
          <6>1. \A g \in ClientFds : i =< g
              BY <3>1, ClientFdsFinite DEF PipeFd, ListenFd
          <6> QED
              BY <1>1, <2>1, <3>1, <4>3, <4>4, <5>1, <6>1 DEF ScanSound
        <5> QED
            BY <3>1, <5>2 DEF ScanSound
      <4> QED
          BY <3>2, <4>7, <4>8, <4>9 DEF Served
    <3> QED
        BY <3>3, <3>4
  <2>7. ASSUME NEW f \in ClientFds, clientRequest(f) PROVE Served'
    <3>1. /\ main = "scan" /\ f \in ready /\ i =< f /\ f =< fdmax /\ i \in Nat /\ f \in Nat /\ phase = "open"
        BY <1>1, <2>7, MetFd, ClientFdsFinite DEF clientRequest, TypeOK, Threads, PoolPhases
    <3>2. /\ i' = f + 1 /\ tasks' = Append(tasks, f)
          /\ fdset' = fdset \ {f} /\ workset' = workset \cup {f}
          /\ UNCHANGED <<request, pipe, phase, main, ready, fdmax, signal, sock, garbled>>
        BY <2>7 DEF clientRequest, Passed, threadPoolAdd, taken, workerVars, clientVars
    <3>3. f \in fdset \ workset /\ sock[f] # NoClient /\ Holders(f) = 0
        BY <1>1, <2>1, <3>1 DEF ScanSound, Tracked
    <3>4. \A g : Holders(g)' = Holders(g) + (IF f = g THEN 1 ELSE 0)
        BY <1>1, <3>2, HoldersAdd
    <3>5. Tracked'
      <4> SUFFICES ASSUME NEW g \in ClientFds
                   PROVE  IF sock[g] = NoClient THEN g \notin fdset' \cup workset' /\ Holders(g)' = 0
                          ELSE \/ g \in fdset' \ workset' /\ Holders(g)' = 0
                               \/ g \in workset' \ fdset' /\ Holders(g)' = 1
          BY <3>2 DEF Tracked
      <4>1. CASE g = f
          BY <3>2, <3>3, <3>4, <4>1
      <4>2. CASE g # f
        <5>1. IF sock[g] = NoClient THEN g \notin fdset \cup workset /\ Holders(g) = 0
              ELSE \/ g \in fdset \ workset /\ Holders(g) = 0
                   \/ g \in workset \ fdset /\ Holders(g) = 1
            BY <1>1, <2>1, <3>1 DEF Tracked
        <5>2. (g \in fdset' <=> g \in fdset) /\ (g \in workset' <=> g \in workset)
            BY <3>2, <4>2
        <5>3. Holders(g) \in {0, 1} => Holders(g)' = Holders(g)
            BY <3>4, <4>2
        <5> QED
            BY <5>1, <5>2, <5>3
      <4> QED
          BY <4>1, <4>2
    <3>6. MaxCovers'
        BY <1>1, <3>1, <3>2 DEF MaxCovers
    <3>7. ScanSound'
      <4>1. \A g \in ClientFds : i' =< g => i =< g /\ g # f
          BY <3>1, <3>2, ClientFdsFinite
      <4> QED
          BY <1>1, <2>1, <3>1, <3>2, <4>1 DEF ScanSound
    <3>8. HangupServesAll'
        BY <3>1, <3>2 DEF HangupServesAll
    <3> QED
        BY <3>5, <3>6, <3>7, <3>8 DEF Served
  <2>8. CASE endOfScan
    <3>1. /\ main = "scan" /\ phase = "open" /\ FdSetUpdate
          /\ main' = IF \/ signal \in {"SIGINT", "SIGQUIT"}
                        \/ signal = "SIGHUP" /\ fdmax' = ListenFd
                     THEN "closing" ELSE "select"
          /\ UNCHANGED <<tasks, request, pipe, phase, fdset, workset, signal, sock, garbled>>
        BY <2>8 DEF endOfScan, poolVars, workerVars, clientVars, Threads, PoolPhases
    <3>2. Tracked' /\ ScanSound'
        BY <1>1, <3>1 DEF Tracked, Holders, ScanSound
    <3>3. MaxCovers'
      <4>1. \A f \in watched : f =< fdmax => f =< fdmax'
          BY <1>1, <3>1, UpdatedMax DEF Threads, AlwaysWatched
      <4> QED
          BY <1>1, <3>1, <4>1 DEF MaxCovers, watched
    <3>4. HangupServesAll'
      <4> SUFFICES ASSUME signal = "SIGHUP", fdmax' = ListenFd
                   PROVE  /\ \A f \in ClientFds : sock[f] = NoClient
                          /\ \A k \in 1 .. Len(tasks) : tasks[k] = Exit
                          /\ \A w \in Workers : request[w] \notin ClientFds
          BY <3>1 DEF HangupServesAll
      <4>1. \A f \in ClientFds : f \notin fdset \cup workset
          BY <3>1, <3>3, ClientFdsFinite DEF MaxCovers, ListenFd
      <4>2. \A f \in ClientFds : sock[f] = NoClient /\ Holders(f) = 0
          BY <1>1, <2>1, <3>1, <4>1 DEF Tracked
      <4>3. \A k \in 1 .. Len(tasks) : tasks[k] \notin ClientFds
        <5> SUFFICES ASSUME NEW k \in 1 .. Len(tasks), tasks[k] \in ClientFds PROVE FALSE
            OBVIOUS
        <5>1. Holders(tasks[k]) > 0
            BY <1>1, QueuedCounts
        <5>2. Holders(tasks[k]) = 0
            BY <4>2
        <5> QED
            BY <5>1, <5>2
      <4>4. \A k \in 1 .. Len(tasks) : tasks[k] \in ClientFds \cup {Exit}
          BY <1>1, ServerAssumption, ElementOfSeq DEF TypeOK, PoolTypeOK
      <4>5. \A w \in Workers : request[w] \notin ClientFds
        <5> SUFFICES ASSUME NEW w \in Workers, request[w] \in ClientFds PROVE FALSE
            OBVIOUS
        <5>1. Holders(request[w]) > 0
            BY <1>1, ServingCounts
        <5>2. Holders(request[w]) = 0
            BY <4>2
        <5> QED
            BY <5>1, <5>2
      <4> QED
          BY <4>2, <4>3, <4>4, <4>5
    <3> QED
        BY <3>2, <3>3, <3>4 DEF Served
  <2>9. CASE closePool \/ endOfMain
    <3>1. /\ main = "closing" /\ main' \in {"closing", "done"}
          /\ UNCHANGED <<request, pipe, fdset, fdmax, workset, signal, sock, garbled>>
        BY <2>9 DEF closePool, endOfMain, threadPoolClear, AddExit, workersDestroy, threadPoolAdd,
                    loopVars, poolVars, workerVars, clientVars
    <3>2. ScanSound' /\ MaxCovers'
        BY <1>1, <3>1 DEF ScanSound, MaxCovers
    <3>3. CASE phase' = phase /\ tasks' = tasks
        BY <1>1, <3>1, <3>2, <3>3 DEF Served, Tracked, Holders, HangupServesAll
    <3>4. CASE phase' # "open" /\ tasks' = <<>>
      <4>1. \A k \in 1 .. Len(tasks') : FALSE
          BY <3>4
      <4> QED
          BY <1>1, <3>1, <3>2, <3>4, <4>1 DEF Served, Tracked, HangupServesAll
    <3>5. CASE phase' # "open" /\ tasks' = Append(tasks, Exit)
      <4>1. \A k \in 1 .. Len(tasks') : tasks'[k] = Exit \/ (k \in 1 .. Len(tasks) /\ tasks'[k] = tasks[k])
          BY <1>1, <3>5, ExitAppended
      <4> QED
          BY <1>1, <3>1, <3>2, <3>5, <4>1 DEF Served, Tracked, HangupServesAll
    <3> QED
        BY <2>9, <3>3, <3>4, <3>5
           DEF closePool, endOfMain, threadPoolClear, AddExit, workersDestroy, threadPoolAdd, poolVars
  <2>10. ASSUME NEW w \in Workers, takeTask(w) PROVE Served'
    <3>1. /\ request[w] = NoTask
          /\ UNCHANGED <<pipe, phase, fdset, fdmax, workset, main, ready, i, signal, sock, garbled>>
        BY <2>10 DEF takeTask, PoolTakeTask, mayTake, loopVars, clientVars, Threads, PoolPhases
    <3>2. CASE UNCHANGED <<tasks, request>>
        BY <1>2, <3>1, <3>2
    <3>3. CASE tasks # <<>> /\ request' = [request EXCEPT ![w] = Head(tasks)] /\ tasks' = Tail(tasks)
      <4>1. \A g \in ClientFds : Holders(g)' = Holders(g)
          BY <1>1, <3>1, <3>3, HoldersTake
      <4>2. Tracked' /\ ScanSound' /\ MaxCovers'
          BY <1>1, <3>1, <4>1 DEF Tracked, ScanSound, MaxCovers
      <4>3. HangupServesAll'
        <5>1. \A k \in 1 .. Len(tasks') : k + 1 \in 1 .. Len(tasks) /\ tasks'[k] = tasks[k + 1]
            BY <1>1, <3>3, HeadTailProperties, LenProperties DEF TypeOK, PoolTypeOK
        <5>2. \A v \in Workers : request'[v] = request[v] \/ (request'[v] = tasks[1] /\ 1 \in 1 .. Len(tasks))
            BY <1>1, <3>3, HeadTailProperties, LenProperties, EmptySeq DEF TypeOK, PoolTypeOK
        <5>3. Exit \notin ClientFds
            BY ServerAssumption, TaskPoolAssumption
        <5> QED
            BY <1>1, <3>1, <5>1, <5>2, <5>3 DEF HangupServesAll
      <4> QED
          BY <4>2, <4>3 DEF Served
    <3> QED
        BY <2>10, <3>2, <3>3 DEF takeTask, PoolTakeTask
  <2>11. ASSUME NEW w \in Workers, clientReadReq(w) \/ ReqFunArr(w) PROVE Served'
      BY <1>2, <2>11 DEF clientReadReq, ReqFunArr, poolVars, loopVars, clientVars
  <2>12. ASSUME NEW w \in Workers, writeOpen(w) PROVE Served'
    <3>1. /\ pipe' = Append(pipe, fdOpen[w]) /\ fdOpen[w] \in {0, 1}
          /\ UNCHANGED <<tasks, request, phase, fdset, fdmax, workset, main, ready, i, signal, sock, garbled>>
        BY <1>1, <2>12 DEF writeOpen, poolVars, loopVars, clientVars, TypeOK
    <3>2. \A g \in ClientFds : Holders(g)' = Holders(g)
        BY <1>1, <3>1, HoldersFlag
    <3> QED
        BY <1>1, <3>1, <3>2 DEF Served, Tracked, ScanSound, MaxCovers, HangupServesAll
  <2>13. ASSUME NEW w \in Workers, writeFd(w) PROVE Served'
    <3>1. /\ request[w] \in ClientFds
          /\ request' = [request EXCEPT ![w] = NoTask] /\ pipe' = Append(pipe, request[w])
          /\ UNCHANGED <<tasks, phase, fdset, fdmax, workset, main, ready, i, signal, sock, garbled>>
        BY <2>13 DEF writeFd, taskDone, InRequest, loopVars, clientVars
    <3>2. \A g \in ClientFds : Holders(g)' = Holders(g)
        BY <1>1, <3>1, HoldersWrite
    <3> QED
        BY <1>1, <3>1, <3>2 DEF Served, Tracked, ScanSound, MaxCovers, HangupServesAll
  <2>14. ASSUME NEW w \in Workers, exitWorker(w) PROVE Served'
    <3>1. /\ tasks' = Append(tasks, Exit) /\ request[w] = Exit
          /\ UNCHANGED <<request, pipe, phase, fdset, fdmax, workset, main, ready, i, signal, sock, garbled>>
        BY <2>14 DEF exitWorker, ThreadRequestExit, loopVars, workerVars, clientVars
    <3>2. phase # "open"
        BY <3>1 DEF Threads, PoolPhases
    <3>3. \A k \in 1 .. Len(tasks') : tasks'[k] = Exit \/ (k \in 1 .. Len(tasks) /\ tasks'[k] = tasks[k])
        BY <1>1, <3>1, ExitAppended
    <3> QED
        BY <1>1, <3>1, <3>2, <3>3 DEF Served, Tracked, ScanSound, MaxCovers, HangupServesAll
  <2> QED
      BY <1>4, <2>2, <2>3, <2>4, <2>5, <2>6, <2>7, <2>8, <2>9, <2>10, <2>11, <2>12, <2>13, <2>14
         DEF ServerNext, Main, Worker, Thread
<1> QED
    BY <1>3, <1>4

-----------------------------------------------------------------------------
(* The theorems.                                                           *)

(* The three layers hold of every reachable state.                         *)
THEOREM ServerCorrect == ServerSpec => []ServerInv
<1>1. Init => ServerInv
    BY ThreadsInit, PairedInit, ServedInit DEF ServerInv
<1>2. ServerInv /\ [ServerNext]_vars => ServerInv'
    BY ThreadsStep, PairedStep, ServedStep DEF ServerInv
<1> QED
    BY <1>1, <1>2, PTL DEF ServerSpec

(* Every connection of an open server is in fd_struct and nobody has it,   *)
(* or in fd_work_set and exactly one task, worker or pair in the pipe has  *)
(* it: the main loop neither loses a connection nor gives it to two        *)
(* workers (server.c:102-148, 169-189), as long as pairs arrive whole.     *)
THEOREM ConnectionsTracked == ServerSpec => []ConnectionTracked
<1>1. ServerInv => ConnectionTracked
    BY DEF ServerInv, Threads, Served, Tracked, ConnectionTracked
<1> QED
    BY <1>1, ServerCorrect, PTL

(* fd_struct->max, raised when a connection is accepted and recomputed by  *)
(* FdSetUpdate (server.c:260-270), is never below a descriptor select has  *)
(* to wait for or a connection a worker will give back.                    *)
THEOREM MaxIsEnough == ServerSpec => []MaxCovers
<1>1. ServerInv => MaxCovers
    BY DEF ServerInv, Served
<1> QED
    BY <1>1, ServerCorrect, PTL

(* After SIGHUP the main loop ends (server.c:147) only when every          *)
(* connection is closed and no request waits in the queue that             *)
(* threadPoolClear empties.                                                *)
THEOREM HangupServesEveryone == ServerSpec => []HangupServesAll
<1>1. ServerInv => HangupServesAll
    BY DEF ServerInv, Served
<1> QED
    BY <1>1, ServerCorrect, PTL

(* The main loop and the workers use the pool as TaskPool says: a task is  *)
(* added only for a connection that is in no queue and with no worker      *)
(* (server.c:128-139), and the pool is closed in its order (151-158).      *)
THEOREM PoolUsed == ServerSpec => Spec
<1>1. Init => PoolInit
    BY DEF Init
<1>2. ServerInv /\ [ServerNext]_vars => [Next]_poolVars
  <2> SUFFICES ASSUME ServerInv, [ServerNext]_vars PROVE [Next]_poolVars
      OBVIOUS
  <2>1. TypeOK /\ Threads /\ Tracked /\ ScanSound
      BY DEF ServerInv, Threads, Served
  <2>2. CASE UNCHANGED vars
      BY <2>2 DEF vars
  <2>3. CASE \/ Select \/ readSignal \/ (\E c \in Clients : acceptConnection(c)) \/ ignoreConnection
             \/ checkPipeForFd \/ endOfScan \/ endOfMain \/ signal_h
             \/ (\E c \in Clients : Client(c)) \/ (\E s \in Signals : SendSignal(s))
      BY <2>3 DEF Select, readSignal, acceptConnection, ignoreConnection, checkPipeForFd, endOfScan,
                  endOfMain, signal_h, Client, Connect, Ask, Close, SendSignal
  <2>4. ASSUME NEW f \in ClientFds, clientRequest(f), ~garbled PROVE AddTask(f) /\ f \in Tasks
    <3>1. /\ main = "scan" /\ f \in ready /\ i =< f /\ phase = "open"
          /\ threadPoolAdd(f) /\ UNCHANGED phase
        BY <2>1, <2>4, MetFd DEF clientRequest, Threads, PoolPhases
    <3>2. Holders(f) = 0
        BY <2>1, <2>4, <3>1 DEF ScanSound, Tracked
    <3>3. \A k \in 1 .. Len(tasks) : tasks[k] # f
      <4> SUFFICES ASSUME NEW k \in 1 .. Len(tasks), tasks[k] = f PROVE FALSE
          OBVIOUS
      <4>1. Holders(tasks[k]) > 0
          BY <2>1, QueuedCounts
      <4> QED
          BY <3>2, <4>1
    <3>4. \A w \in Workers : request[w] # f
      <4> SUFFICES ASSUME NEW w \in Workers, request[w] = f PROVE FALSE
          OBVIOUS
      <4>1. Holders(request[w]) > 0
          BY <2>1, ServingCounts
      <4> QED
          BY <3>2, <4>1
    <3> QED
        BY <3>1, <3>3, <3>4, ServerAssumption DEF AddTask, Unserved
  <2>5. ASSUME NEW w \in Workers, Worker(w)
        PROVE  PoolTakeTask(w) \/ taskDone(w) \/ ThreadRequestExit(w) \/ UNCHANGED poolVars
      BY <2>5 DEF Worker, Thread, takeTask, clientReadReq, ReqFunArr, writeOpen, writeFd, exitWorker
  <2>6. CASE closePool
      BY <2>6 DEF closePool, Next
  <2> QED
    <3> USE DEF Next
    <3>1. CASE \E f \in ClientFds : clientRequest(f) /\ ~garbled
        BY <2>4, <3>1
    <3>2. CASE \E w \in Workers : Worker(w)
        BY <2>5, <3>2
    <3>3. CASE closePool
        BY <2>6, <3>3
    <3> QED
        BY <2>2, <2>3, <3>1, <3>2, <3>3 DEF ServerNext, Main
<1> QED
    BY <1>1, <1>2, ServerCorrect, PTL DEF ServerSpec, Spec

=============================================================================
