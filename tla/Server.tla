------------------------------- MODULE Server -------------------------------
(***************************************************************************)
(* The main thread of the server (server.c) with its select loop, the      *)
(* worker threads running clientReadReq out of the thread pool, the pipe   *)
(* on which they give connections back, the signal thread with its pipe,   *)
(* and the clients connecting, asking and closing.                         *)
(*                                                                         *)
(* File descriptors are the integers the kernel hands out, lowest free     *)
(* first: the main thread scans them in that order.  What a request        *)
(* handler does to the store is module WorkerFunctions; here a worker is   *)
(* in one until it returns, which may be never: the handler waits for the  *)
(* rest of the request, for the client to take the answer, and for the     *)
(* mutexes of the store.                                                   *)
(***************************************************************************)
EXTENDS TaskPool, Integers, FiniteSetsExt

CONSTANTS
    Clients,        \* client processes
    MaxRequests,    \* bound: requests a client makes before it closes
    Signals,        \* bound: the signals that may be sent, once each
    NoClient, NoSignal

PipeFd == 3         \* pipefd[0]
SignalFd == 5       \* signalpipe[0]
ListenFd == 7       \* listen_socket, the largest: last_non_client_fd
ClientFds == 8 .. 7 + Cardinality(Clients)

ASSUME ServerAssumption ==
    /\ IsFiniteSet(Clients)
    /\ IsFiniteSet(Workers)
    /\ Tasks = ClientFds
    /\ Signals \subseteq {"SIGINT", "SIGQUIT", "SIGHUP"}
    /\ NoClient \notin Clients
    /\ NoSignal \notin Signals
    /\ MaxRequests \in Nat

VARIABLES
    main,           \* where the main thread stands
    fdset, fdmax,   \* fd_struct: the descriptors select waits for
    workset,        \* fd_work_set: the connections workers have
    ready, i,       \* tmp_fd_set after select, and the scan position
    signal,         \* the signal read by the main thread
    pipe,           \* the integers written by workers, not yet read
    step, fdOpen,   \* where a worker stands in clientReadReq, and its fdOpen
    sigthread, sigpipe, pending,    \* signal_h, its pipe, the signals sent
    sock,           \* the client behind an open connection
    client, asked, made,            \* a client: state, unanswered, requests made
    garbled         \* the main thread has read a pair that is not one

loopVars == <<main, fdset, fdmax, workset, ready, i, signal>>
workerVars == <<pipe, step, fdOpen>>
signalVars == <<sigthread, sigpipe, pending>>
clientVars == <<sock, client, asked, made>>
vars == <<poolVars, loopVars, workerVars, signalVars, clientVars, garbled>>

TypeOK ==
    /\ PoolTypeOK
    /\ main \in {"select", "scan", "closing", "done"}
    /\ fdset \subseteq {PipeFd, SignalFd, ListenFd} \cup ClientFds
    /\ fdmax \in ListenFd .. ListenFd + Cardinality(Clients)
    /\ workset \subseteq ClientFds
    /\ ready \subseteq {PipeFd, SignalFd, ListenFd} \cup ClientFds
    /\ i \in Nat
    /\ signal \in Signals \cup {NoSignal}
    /\ pipe \in Seq({0, 1} \cup ClientFds)
    /\ step \in [Workers -> {"read", "serve", "flag", "fd"}]
    /\ fdOpen \in [Workers -> {0, 1}]
    /\ sigthread \in {"waiting", "exited"}
    /\ sigpipe \in Seq(Signals)
    /\ pending \subseteq Signals
    /\ sock \in [ClientFds -> Clients \cup {NoClient}]
    /\ client \in [Clients -> {"off", "backlog", "connected", "closed"}]
    /\ asked \in [Clients -> BOOLEAN]
    /\ made \in [Clients -> 0 .. MaxRequests]
    /\ garbled \in BOOLEAN

Init ==
    /\ PoolInit
    /\ main = "select"
    /\ fdset = {PipeFd, SignalFd, ListenFd}
    /\ fdmax = ListenFd
    /\ workset = {}
    /\ ready = {}
    /\ i = 0
    /\ signal = NoSignal
    /\ pipe = <<>>
    /\ step = [w \in Workers |-> "read"]
    /\ fdOpen = [w \in Workers |-> 0]
    /\ sigthread = "waiting"
    /\ sigpipe = <<>>
    /\ pending = {}
    /\ sock = [f \in ClientFds |-> NoClient]
    /\ client = [c \in Clients |-> "off"]
    /\ asked = [c \in Clients |-> FALSE]
    /\ made = [c \in Clients |-> 0]
    /\ garbled = FALSE

-----------------------------------------------------------------------------
(* The clients: openConnection, a request and the wait for its answer,     *)
(* closeConnection.                                                        *)

Connect(c) ==
    /\ client[c] = "off"
    /\ main # "done"
    /\ client' = [client EXCEPT ![c] = "backlog"]
    /\ UNCHANGED <<poolVars, loopVars, workerVars, signalVars, sock, asked, made, garbled>>

Ask(c) ==
    /\ client[c] \in {"backlog", "connected"}
    /\ ~asked[c]
    /\ made[c] < MaxRequests
    /\ asked' = [asked EXCEPT ![c] = TRUE]
    /\ made' = [made EXCEPT ![c] = @ + 1]
    /\ UNCHANGED <<poolVars, loopVars, workerVars, signalVars, sock, client, garbled>>

Close(c) ==
    /\ client[c] = "connected"
    /\ ~asked[c]
    /\ client' = [client EXCEPT ![c] = "closed"]
    /\ UNCHANGED <<poolVars, loopVars, workerVars, signalVars, sock, asked, made, garbled>>

-----------------------------------------------------------------------------
(* signal_h passes on one signal and exits.                                *)

SendSignal(s) ==
    /\ s \in Signals
    /\ s \notin pending
    /\ \A k \in 1 .. Len(sigpipe) : sigpipe[k] # s
    /\ signal # s
    /\ pending' = pending \cup {s}
    /\ UNCHANGED <<poolVars, loopVars, workerVars, sigthread, sigpipe, clientVars, garbled>>

signal_h ==
    /\ sigthread = "waiting"
    /\ \E s \in pending :
        /\ sigpipe' = Append(sigpipe, s)
        /\ pending' = pending \ {s}
    /\ sigthread' = "exited"
    /\ UNCHANGED <<poolVars, loopVars, workerVars, clientVars, garbled>>

-----------------------------------------------------------------------------
(* The loop of main.                                                       *)

backlog == { c \in Clients : client[c] = "backlog" }

readable(f) ==
    \/ f = PipeFd /\ pipe # <<>>
    \/ f = SignalFd /\ sigpipe # <<>>
    \/ f = ListenFd /\ backlog # {}
    \/ /\ f \in ClientFds
       /\ sock[f] # NoClient
       /\ asked[sock[f]] \/ client[sock[f]] = "closed"

Select ==
    /\ main = "select"
    /\ ready' = { f \in fdset : readable(f) }
    /\ ready' # {}
    /\ i' = 0
    /\ main' = "scan"
    /\ UNCHANGED <<poolVars, fdset, fdmax, workset, signal, workerVars, signalVars,
                   clientVars, garbled>>

(* The set descriptors the for loop has still to meet.                     *)
ahead == { f \in ready : i <= f /\ f <= fdmax }
Meets(f) == main = "scan" /\ ahead # {} /\ f = Min(ahead)
Passed(f) == i' = f + 1 /\ UNCHANGED <<main, ready>>

readSignal ==
    /\ Meets(SignalFd)
    /\ Passed(SignalFd)
    /\ signal' = Head(sigpipe)
    /\ sigpipe' = Tail(sigpipe)
    /\ UNCHANGED <<poolVars, fdset, fdmax, workset, workerVars, sigthread, pending,
                   clientVars, garbled>>

freeFds == { f \in ClientFds : sock[f] = NoClient }

acceptConnectionNoMax(c) ==                           \* mutant: max not raised
    /\ Meets(ListenFd)
    /\ signal # "SIGHUP"
    /\ c \in backlog
    /\ Passed(ListenFd)
    /\ sock' = [sock EXCEPT ![Min(freeFds)] = c]
    /\ client' = [client EXCEPT ![c] = "connected"]
    /\ fdset' = fdset \cup {Min(freeFds)}
    /\ UNCHANGED <<poolVars, fdmax, workset, signal, workerVars, signalVars,
                   asked, made, garbled>>
acceptConnection(c) ==
    /\ Meets(ListenFd)
    /\ signal # "SIGHUP"
    /\ c \in backlog
    /\ Passed(ListenFd)
    /\ sock' = [sock EXCEPT ![Min(freeFds)] = c]
    /\ client' = [client EXCEPT ![c] = "connected"]
    /\ fdset' = fdset \cup {Min(freeFds)}
    /\ fdmax' = IF Min(freeFds) > fdmax THEN Min(freeFds) ELSE fdmax
    /\ UNCHANGED <<poolVars, workset, signal, workerVars, signalVars, asked, made, garbled>>

(* After SIGHUP no connection is accepted any more; select keeps reporting *)
(* the socket.                                                             *)
ignoreConnection ==
    /\ Meets(ListenFd)
    /\ signal = "SIGHUP"
    /\ Passed(ListenFd)
    /\ UNCHANGED <<poolVars, fdset, fdmax, workset, signal, workerVars, signalVars,
                   clientVars, garbled>>

(* Two integers are read, waiting for the second if need be: fdOpen and a  *)
(* descriptor.  A second one that is no connection is another worker's     *)
(* fdOpen; what the loop then does to descriptor 0 or 1 is not modelled.   *)
giveBack(open, f) ==
    /\ workset' = workset \ {f}
    /\ IF open = 1
       THEN fdset' = fdset \cup {f} /\ UNCHANGED sock
       ELSE UNCHANGED fdset /\ sock' = [sock EXCEPT ![f] = NoClient]

checkPipeForFd ==
    /\ Meets(PipeFd)
    /\ Len(pipe) >= 2
    /\ Passed(PipeFd)
    /\ pipe' = SubSeq(pipe, 3, Len(pipe))
    /\ \/ /\ pipe[2] \in ClientFds
          /\ giveBack(pipe[1], pipe[2])
          /\ UNCHANGED garbled
       \/ /\ pipe[2] \notin ClientFds
          /\ garbled' = TRUE
          /\ UNCHANGED <<fdset, workset, sock>>
    /\ UNCHANGED <<poolVars, fdmax, signal, step, fdOpen, signalVars, client, asked, made>>

(* A connection has something to read: a worker gets it, and select no     *)
(* longer waits for it.                                                    *)
takenKept(f) == UNCHANGED fdset                       \* mutant: FD_CLR forgotten
taken(f) == fdset' = fdset \ {f}

clientRequest(f) ==
    /\ f \in ClientFds
    /\ Meets(f)
    /\ Passed(f)
    /\ threadPoolAdd(f)
    /\ taken(f)
    /\ workset' = workset \cup {f}
    /\ UNCHANGED <<phase, fdmax, signal, workerVars, signalVars, clientVars, garbled>>

(* FdSetUpdate, and the two conditions that end the loop.                  *)
watchedSetOnly == fdset                               \* mutant: work set ignored
watched == fdset \cup workset
FdSetUpdateUp == UNCHANGED fdmax                      \* mutant: max never lowered
FdSetUpdate == fdmax' = Max({0} \cup { f \in watched : f <= fdmax })

endOfScan ==
    /\ main = "scan"
    /\ ahead = {}
    /\ FdSetUpdate
    /\ main' = IF \/ signal \in {"SIGINT", "SIGQUIT"}
                  \/ signal = "SIGHUP" /\ fdmax' = ListenFd
               THEN "closing" ELSE "select"
    /\ ready' = {}
    /\ i' = 0
    /\ UNCHANGED <<poolVars, fdset, workset, signal, workerVars, signalVars, clientVars, garbled>>

(* The end of main: clear the pool, have the workers exit, join them all   *)
(* and the signal thread.                                                  *)
closePool ==
    /\ main = "closing"
    /\ threadPoolClear \/ AddExit \/ workersDestroy
    /\ UNCHANGED <<loopVars, workerVars, signalVars, clientVars, garbled>>

endOfMain ==
    /\ main = "closing"
    /\ phase = "closed"
    /\ sigthread = "exited"
    /\ main' = "done"
    /\ UNCHANGED <<poolVars, fdset, fdmax, workset, ready, i, signal, workerVars, signalVars,
                   clientVars, garbled>>

-----------------------------------------------------------------------------
(* The workers.                                                            *)

takeTask(w) ==
    /\ PoolTakeTask(w)
    /\ step' = [step EXCEPT ![w] = "read"]
    /\ UNCHANGED <<loopVars, pipe, fdOpen, signalVars, clientVars, garbled>>

InRequest(w, s) == worker[w] = "running" /\ request[w] \in ClientFds /\ step[w] = s

(* clientReadReq reads the code of a request and calls its handler, or     *)
(* finds the end of the stream.                                            *)
clientReadReq(w) ==
    /\ InRequest(w, "read")
    /\ LET c == sock[request[w]]
       IN  /\ c # NoClient
           /\ \/ /\ asked[c]
                 /\ step' = [step EXCEPT ![w] = "serve"]
                 /\ UNCHANGED fdOpen
              \/ /\ ~asked[c]
                 /\ client[c] = "closed"
                 /\ step' = [step EXCEPT ![w] = "flag"]
                 /\ fdOpen' = [fdOpen EXCEPT ![w] = 0]
    /\ UNCHANGED <<poolVars, loopVars, pipe, signalVars, clientVars, garbled>>

(* The handler has answered and returns.                                   *)
ReqFunArr(w) ==
    /\ InRequest(w, "serve")
    /\ asked' = [asked EXCEPT ![sock[request[w]]] = FALSE]
    /\ step' = [step EXCEPT ![w] = "flag"]
    /\ fdOpen' = [fdOpen EXCEPT ![w] = 1]
    /\ UNCHANGED <<poolVars, loopVars, pipe, signalVars, sock, client, made, garbled>>

(* Its two writes to the pipe.                                             *)
writeOpen(w) ==
    /\ InRequest(w, "flag")
    /\ pipe' = Append(pipe, fdOpen[w])
    /\ step' = [step EXCEPT ![w] = "fd"]
    /\ UNCHANGED <<poolVars, loopVars, fdOpen, signalVars, clientVars, garbled>>

writeFd(w) ==
    /\ InRequest(w, "fd")
    /\ pipe' = Append(pipe, request[w])
    /\ taskDone(w)
    /\ UNCHANGED <<loopVars, step, fdOpen, signalVars, clientVars, garbled>>

exitWorker(w) ==
    /\ ThreadRequestExit(w)
    /\ UNCHANGED <<loopVars, workerVars, signalVars, clientVars, garbled>>

-----------------------------------------------------------------------------

Main == Select \/ readSignal \/ (\E c \in Clients : acceptConnection(c)) \/ ignoreConnection
        \/ checkPipeForFd \/ (\E f \in ClientFds : clientRequest(f)) \/ endOfScan
        \/ closePool \/ endOfMain
Thread(w) == takeTask(w) \/ clientReadReq(w) \/ writeOpen(w) \/ writeFd(w) \/ exitWorker(w)
Worker(w) == Thread(w) \/ ReqFunArr(w)
Client(c) == Connect(c) \/ Ask(c) \/ Close(c)

ServerNext ==
    /\ ~garbled
    /\ \/ Main
       \/ signal_h
       \/ \E w \in Workers : Worker(w)
       \/ \E c \in Clients : Client(c)
       \/ \E s \in Signals : SendSignal(s)

ServerSpec == Init /\ [][ServerNext]_vars

(* Threads run on.  A worker does until it calls a handler, and again      *)
(* when the handler has returned.                                          *)
ThreadsFairSpec ==
    /\ ServerSpec
    /\ WF_vars(~garbled /\ Main)
    /\ WF_vars(~garbled /\ signal_h)
    /\ \A w \in Workers : WF_vars(~garbled /\ Thread(w))

(* No handler stays for ever: no client stops in the middle of a request   *)
(* or of its answer, and no two handlers wait for each other in the store. *)
(* The code does not see to either (module WorkerFunctions has the         *)
(* second), so this is a premise and no part of the specification.         *)
HandlersReturn == \A w \in Workers : WF_vars(~garbled /\ ReqFunArr(w))

(* A connected client asks or closes in the end; nobody has to connect or  *)
(* to send a signal.                                                       *)
ClientsFair == \A c \in Clients : WF_vars(~garbled /\ (Ask(c) \/ Close(c)))

-----------------------------------------------------------------------------
(* Properties.                                                             *)

(* How many hold connection f: the queue, the workers, the pipe.           *)
Holders(f) ==
    Cardinality({ k \in 1 .. Len(tasks) : tasks[k] = f })
    + Cardinality({ w \in Workers : request[w] = f })
    + Cardinality({ k \in 1 .. Len(pipe) : pipe[k] = f })

(* A connection is served by one worker at a time, and none is dropped: it *)
(* is in fd_struct and nobody has it, or in fd_work_set and exactly one    *)
(* task, worker or pair in the pipe has it, however the scan, the workers  *)
(* and the closing clients interleave.                                     *)
ConnectionTracked ==
    /\ TypeOK
    /\ ~garbled /\ phase = "open" =>
          \A f \in ClientFds :
              IF sock[f] = NoClient THEN f \notin fdset \cup workset /\ Holders(f) = 0
              ELSE \/ f \in fdset \ workset /\ Holders(f) = 0
                   \/ f \in workset \ fdset /\ Holders(f) = 1

(* fd_struct->max covers every descriptor select has to wait for and every *)
(* connection a worker has.                                                *)
MaxCovers == \A f \in fdset \cup workset : f <= fdmax

(* After SIGHUP the loop ends only when no connection is left: no request  *)
(* is thrown away by threadPoolClear and no worker is busy with one.       *)
HangupServesAll ==
    main = "closing" /\ signal = "SIGHUP" /\ ~garbled =>
        /\ \A f \in ClientFds : sock[f] = NoClient
        /\ \A k \in 1 .. Len(tasks) : tasks[k] = Exit
        /\ \A w \in Workers : request[w] \notin ClientFds

(* A request on an accepted connection is answered when handlers return,   *)
(* unless a signal ends the service or the pipe is garbled: it is not lost *)
(* between the select set, the queue and the workers.                      *)
RequestAnswered ==
    HandlersReturn =>
        \A c \in Clients :
            client[c] = "connected" /\ asked[c] ~> ~asked[c] \/ signal # NoSignal \/ garbled

(* When handlers return SIGINT and SIGQUIT close the server although its   *)
(* clients stay connected and ask on, unless SIGHUP was heard first:       *)
(* workers inside a request finish it, the others are not left waiting,    *)
(* and every thread is joined.                                             *)
InterruptCloses ==
    HandlersReturn =>
        \A s \in {"SIGINT", "SIGQUIT"} :
            s \in pending ~> main = "done" \/ signal = "SIGHUP" \/ garbled

(* SIGHUP closes the server when handlers return and clients do not stay   *)
(* for ever: the main loop does not miss the close of the last connection. *)
HangupCloses ==
    HandlersReturn /\ ClientsFair => (signal = "SIGHUP" ~> main = "done" \/ garbled)

(* "once worker is done,it'll send back client fd to the main thread by    *)
(* shared pipe", server.c:139: what the main thread reads is what one      *)
(* worker sent.                                                            *)
PairsArrive == ~garbled

=============================================================================
